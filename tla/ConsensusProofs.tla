--------------------------- MODULE ConsensusProofs ---------------------------
(***************************************************************************)
(* Safety of the BFT engine, for every number of nodes, every distribution *)
(* of stake and every bound.                                               *)
(*                                                                         *)
(* The argument: a node never takes back a block, a vote is only stored    *)
(* behind its validator's own block, and a block becomes final only behind *)
(* a quorum of votes.  So a quorum holds every final block, two quorums    *)
(* share a node, and one node has one chain.                               *)
(***************************************************************************)
EXTENDS Consensus, FiniteSetTheorems, TLAPS

-----------------------------------------------------------------------------
(***************************************************************************)
(* Voting power                                                            *)
(***************************************************************************)
\* The staked tokens are finitely many.
LEMMA TokensFinite == IsFiniteSet(Tokens)
<1>1. IsFiniteSet(1..Supply)
  BY FS_Interval, NodeAssumption
<1>2. IsFiniteSet(Node \X (1..Supply))
  BY <1>1, FS_Product, NodeAssumption
<1> QED
  BY <1>2, FS_Subset DEF Tokens

\* Power is a natural number.
LEMMA PowerNat == ASSUME NEW S PROVE PowerOf(S) \in Nat
<1>1. IsFiniteSet({t \in Tokens : t[1] \in S})
  BY TokensFinite, FS_Subset
<1> QED
  BY <1>1, FS_CardinalityType DEF PowerOf

\* A larger set of validators has no less power, so it is a quorum too.
LEMMA QuorumMonotone ==
  ASSUME NEW S, NEW T, S \subseteq T, HasQuorum(S)
  PROVE  HasQuorum(T)
<1>1. {t \in Tokens : t[1] \in S} \subseteq {t \in Tokens : t[1] \in T}
  OBVIOUS
<1>2. IsFiniteSet({t \in Tokens : t[1] \in T})
  BY TokensFinite, FS_Subset
<1>3. PowerOf(S) <= PowerOf(T)
  BY <1>1, <1>2, FS_Subset DEF PowerOf
<1>4. bftThreshold(totalVotingPower) \in Nat
  BY PowerNat DEF bftThreshold, totalVotingPower
<1> QED
  BY <1>3, <1>4, PowerNat DEF HasQuorum

\* Two quorums have a validator in common: bftThreshold is above one half.
LEMMA QuorumsIntersect ==
  ASSUME NEW S, NEW T, HasQuorum(S), HasQuorum(T)
  PROVE  \E v \in Node : v \in S /\ v \in T
<1> DEFINE A == {t \in Tokens : t[1] \in S}
           B == {t \in Tokens : t[1] \in T}
<1>1. PowerOf(Node) = Cardinality(Tokens)
  <2>1. {t \in Tokens : t[1] \in Node} = Tokens
    BY DEF Tokens
  <2> QED
    BY <2>1 DEF PowerOf
<1>2. PowerOf(S) + PowerOf(T) > PowerOf(Node)
  BY PowerNat DEF HasQuorum, bftThreshold, totalVotingPower
<1>3. Cardinality(A) + Cardinality(B) > Cardinality(Tokens)
  BY <1>1, <1>2 DEF PowerOf
<1>4. A \cap B # {}
  BY <1>3, TokensFinite, FS_MajoritiesIntersect
<1>5. PICK t \in Tokens : t[1] \in S /\ t[1] \in T
  BY <1>4
<1> QED
  BY <1>5 DEF Tokens

-----------------------------------------------------------------------------
(***************************************************************************)
(* Chains                                                                  *)
(***************************************************************************)
\* A prefix of a chain is a chain of the length asked for.
LEMMA PrefixType ==
  ASSUME NEW c \in Seq(Entry), NEW h \in 0..Len(c)
  PROVE  /\ Prefix(c, h) \in Seq(Entry)
         /\ Len(Prefix(c, h)) = h
         /\ \A i \in 1..h : Prefix(c, h)[i] = c[i]
  BY DEF Prefix

\* A chain is its own longest prefix.
LEMMA PrefixWhole == ASSUME NEW c \in Seq(Entry) PROVE Prefix(c, Len(c)) = c
  BY DEF Prefix

\* Equal prefixes have equal shorter prefixes.
LEMMA PrefixShorter ==
  ASSUME NEW c \in Seq(Entry), NEW d \in Seq(Entry),
         NEW h \in Nat, NEW g \in 0..h, Prefix(c, h) = Prefix(d, h)
  PROVE  Prefix(c, g) = Prefix(d, g)
<1>1. \A i \in 1..h : c[i] = d[i]
  <2> TAKE i \in 1..h
  <2>1. Prefix(c, h)[i] = c[i] /\ Prefix(d, h)[i] = d[i]
    BY DEF Prefix
  <2> QED
    BY <2>1
<1>2. 1..g \subseteq 1..h
  OBVIOUS
<1> QED
  BY <1>1, <1>2 DEF Prefix

-----------------------------------------------------------------------------
(***************************************************************************)
(* Appending a block (ProduceBlock, AcceptBlock)                           *)
(***************************************************************************)
\* No step takes a block back.
ChainsGrow ==
  \A n \in Node : /\ Blocks'[n] \in Seq(Entry)
                  /\ Len(Blocks[n]) <= Len(Blocks'[n])
                  /\ Prefix(Blocks'[n], Len(Blocks[n])) = Blocks[n]

\* What a node holds it goes on holding.
LEMMA HoldsStable ==
  ASSUME TypeOK, ChainsGrow, NEW n \in Node, NEW block, Holds(n, block)
  PROVE  Holds(n, block)'
<1> DEFINE h == Len(block)
<1>1. /\ Blocks[n] \in Seq(Entry)
      /\ Blocks'[n] \in Seq(Entry)
      /\ Len(Blocks[n]) <= Len(Blocks'[n])
      /\ Prefix(Blocks'[n], Len(Blocks[n])) = Blocks[n]
  BY DEF TypeOK, ChainsGrow
<1>2. h \in 1..Len(Blocks[n]) /\ Prefix(Blocks[n], h) = block
  BY DEF Holds, Height
<1>3. Prefix(Blocks[n], Len(Blocks[n])) = Prefix(Blocks'[n], Len(Blocks[n]))
  BY <1>1, PrefixWhole
<1>4. Prefix(Blocks'[n], h) = block
  BY <1>1, <1>2, <1>3, PrefixShorter
<1> QED
  BY <1>1, <1>2, <1>4 DEF Holds, Height

\* The engine's state after a finalized block.
LEMMA FinalizeType ==
  ASSUME NEW s \in ConsensusState, NEW h \in Nat
  PROVE  finalizeConsensusForBlock(s, h) \in ConsensusState
<1>1. 0 \in Rounds
  BY BoundAssumption DEF Rounds
<1>2. s.proposer \in Node \cup {NoProposer}
  BY DEF ConsensusState
<1>3. h + 1 \in Nat
  OBVIOUS
<1> QED
  BY <1>1, <1>2, <1>3 DEF finalizeConsensusForBlock, ConsensusState

\* AppendBlock preserves the invariant when the certificate that comes with the
\* block names only holders of it and is final only behind a quorum of them; the
\* appending node counts as one.
LEMMA AppendPreserves ==
  ASSUME IndInv, NEW n \in Node, NEW block \in Seq(Entry), NEW cert \in Certificate,
         Len(block) = Height(n) + 1,
         Prefix(block, Height(n)) = Blocks[n],
         \A v \in cert.votes : v = n \/ Holds(v, block),
         cert.final => HasQuorum({v \in Node : v = n \/ Holds(v, block)}),
         AppendBlock(n, block, cert)
  PROVE  IndInv'
<1> USE DEF AppendBlock
<1>t. TypeOK
  BY DEF IndInv
<1>0. /\ Blocks \in [Node -> Seq(Entry)]
      /\ Finality \in [Node -> Seq(Certificate)]
      /\ \A m \in Node : Len(Finality[m]) = Len(Blocks[m])
  BY <1>t DEF TypeOK
<1>1. ChainsGrow
  <2> SUFFICES ASSUME NEW m \in Node
               PROVE  /\ Blocks'[m] \in Seq(Entry)
                      /\ Len(Blocks[m]) <= Len(Blocks'[m])
                      /\ Prefix(Blocks'[m], Len(Blocks[m])) = Blocks[m]
    BY DEF ChainsGrow
  <2>1. CASE m = n
    BY <2>1, <1>0 DEF Height
  <2>2. CASE m # n
    BY <2>2, <1>0, PrefixWhole
  <2> QED
    BY <2>1, <2>2
<1>2. \A m \in Node : \A b : Holds(m, b) => Holds(m, b)'
  BY <1>1, <1>t, HoldsStable
<1>3. Holds(n, block)'
  BY <1>0, PrefixWhole DEF Holds, Height
<1>4. TypeOK'
  <2>1. Blocks' \in [Node -> Seq(Entry)]
    BY <1>0
  <2>2. Finality' \in [Node -> Seq(Certificate)]
    BY <1>0
  <2>3. \A m \in Node : Len(Finality'[m]) = Len(Blocks'[m])
    BY <1>0 DEF Height
  <2>4. Producer(block) \in Node /\ Round(block) \in Rounds
    <3>1. Len(block) \in 1..Len(block)
      BY <1>0 DEF Height
    <3>2. block[Len(block)] \in Entry
      BY <3>1
    <3> QED
      BY <3>2 DEF Producer, Round, Entry
  <2>5. cs' \in [Node -> ConsensusState]
    <3>1. Len(block) \in Nat /\ 0 \in Rounds
      BY BoundAssumption DEF Rounds
    <3>2. AfterBlock(cs[n], block, cert) \in ConsensusState
      <4>1. cs[n] \in ConsensusState
        BY <1>t DEF TypeOK
      <4>2. finalizeConsensusForBlock(cs[n], Len(block)) \in ConsensusState
        BY <4>1, <3>1, FinalizeType
      <4>3. [height |-> Len(block), round |-> Round(block), phase |-> "prevote",
             proposer |-> Producer(block)] \in ConsensusState
        BY <3>1, <2>4 DEF ConsensusState
      <4> QED
        BY <4>2, <4>3 DEF AfterBlock
    <3> QED
      BY <3>2, <1>t DEF TypeOK
  <2>6. todo' \in [Node -> SUBSET Task]
    BY <1>t DEF TypeOK, Task, VoteTypes
  <2> QED
    BY <2>1, <2>2, <2>3, <2>5, <2>6, <1>t DEF TypeOK
<1>5. VotesHeld'
  <2> SUFFICES ASSUME NEW m \in Node, NEW v \in ConsensusVotes[m]
               PROVE  Holds(v.validator, v.block)'
    BY DEF VotesHeld
  <2>1. Holds(v.validator, v.block) /\ v.validator \in Node
    BY <1>t DEF IndInv, VotesHeld, TypeOK, Vote
  <2> QED
    BY <2>1, <1>2
<1>6. \A m \in Node : \A h \in 1..Len(Blocks'[m]) :
        \/ /\ m = n /\ h = Height(n) + 1
           /\ Finality'[m][h] = cert /\ Prefix(Blocks'[m], h) = block
        \/ /\ h \in 1..Len(Blocks[m])
           /\ Finality'[m][h] = Finality[m][h]
           /\ Prefix(Blocks'[m], h) = Prefix(Blocks[m], h)
  <2> TAKE m \in Node
  <2> TAKE h \in 1..Len(Blocks'[m])
  <2>1. CASE m # n
    BY <2>1, <1>0
  <2>2. CASE m = n /\ h = Height(n) + 1
    BY <2>2, <1>0, PrefixWhole DEF Height
  <2>3. CASE m = n /\ h # Height(n) + 1
    <3>1. h \in 1..Len(Blocks[n]) /\ Blocks'[n] = block
      BY <2>3, <1>0 DEF Height
    <3>2. Finality'[n][h] = Finality[n][h]
      BY <3>1, <1>0
    <3>3. Prefix(Blocks[n], Height(n)) = Prefix(block, Height(n))
      BY <1>0, PrefixWhole DEF Height
    <3>4. Prefix(Blocks[n], h) = Prefix(block, h)
      BY <3>1, <3>3, <1>0, PrefixShorter DEF Height
    <3> QED
      BY <2>3, <3>1, <3>2, <3>4
  <2> QED
    BY <2>1, <2>2, <2>3
<1>7. CertificatesHeld'
  <2> SUFFICES ASSUME NEW m \in Node, NEW h \in 1..Len(Blocks'[m]),
                      NEW v \in Finality'[m][h].votes
               PROVE  Holds(v, Prefix(Blocks[m], h))'
    BY DEF CertificatesHeld, Height
  <2>1. CASE h \in 1..Len(Blocks[m]) /\ Finality'[m][h] = Finality[m][h]
             /\ Prefix(Blocks'[m], h) = Prefix(Blocks[m], h)
    <3>1. Finality[m][h] \in Certificate
      BY <2>1, <1>0
    <3>2. v \in Node
      BY <2>1, <3>1 DEF Certificate
    <3>3. Holds(v, Prefix(Blocks[m], h))
      BY <2>1 DEF IndInv, CertificatesHeld, Height
    <3> QED
      BY <2>1, <3>2, <3>3, <1>2
  <2>2. CASE Finality'[m][h] = cert /\ Prefix(Blocks'[m], h) = block
    <3>1. v \in Node
      BY <2>2 DEF Certificate
    <3> QED
      BY <2>2, <3>1, <1>2, <1>3
  <2> QED
    BY <2>1, <2>2, <1>6
<1>8. FinalityCertified'
  <2> SUFFICES ASSUME NEW m \in Node, NEW h \in 1..Len(Blocks'[m]),
                      Finality'[m][h].final
               PROVE  HasQuorum({v \in Node : Holds(v, Prefix(Blocks[m], h))'})
    BY DEF FinalityCertified, Height, IsFinal
  <2>1. CASE h \in 1..Len(Blocks[m]) /\ Finality'[m][h] = Finality[m][h]
             /\ Prefix(Blocks'[m], h) = Prefix(Blocks[m], h)
    <3>1. HasQuorum({v \in Node : Holds(v, Prefix(Blocks[m], h))})
      BY <2>1 DEF IndInv, FinalityCertified, Height, IsFinal
    <3>2. {v \in Node : Holds(v, Prefix(Blocks[m], h))}
            \subseteq {v \in Node : Holds(v, Prefix(Blocks[m], h))'}
      BY <2>1, <1>2
    <3> QED
      BY <3>1, <3>2, QuorumMonotone
  <2>2. CASE Finality'[m][h] = cert /\ Prefix(Blocks'[m], h) = block
    <3>1. HasQuorum({v \in Node : v = n \/ Holds(v, block)})
      BY <2>2
    <3>2. {v \in Node : v = n \/ Holds(v, block)}
            \subseteq {v \in Node : Holds(v, Prefix(Blocks[m], h))'}
      BY <2>2, <1>2, <1>3
    <3> QED
      BY <3>1, <3>2, QuorumMonotone
  <2> QED
    BY <2>1, <2>2, <1>6
<1>9. PrecommitJustified'
  BY DEF IndInv, PrecommitJustified, AllVotes, consensusVoteFinality
<1> QED
  BY <1>4, <1>5, <1>7, <1>8, <1>9 DEF IndInv

-----------------------------------------------------------------------------
(***************************************************************************)
(* Storing a vote (SubmitConsensusVote)                                    *)
(***************************************************************************)
\* Work that is started after a quorum of prevotes is work on a chain.
LEMMA PrecommitWorkType ==
  ASSUME NEW n \in Node, NEW block \in Seq(Entry)
  PROVE  PrecommitWork(n, block) \subseteq Task
  BY DEF PrecommitWork, Task, VoteTypes

\* The engine's state after a stored vote.
LEMMA AfterVoteType ==
  ASSUME NEW s \in ConsensusState, NEW block \in Seq(Entry),
         NEW prevoted, NEW committed
  PROVE  AfterVote(s, block, prevoted, committed) \in ConsensusState
<1>1. finalizeConsensusForBlock(s, Len(block)) \in ConsensusState
  <2>1. Len(block) \in Nat
    OBVIOUS
  <2> QED
    BY <2>1, FinalizeType
<1>2. [s EXCEPT !.phase = "precommit"] \in ConsensusState
  BY DEF ConsensusState
<1> QED
  BY <1>1, <1>2 DEF AfterVote

\* StoreVote preserves the invariant when the node and the vote's validator both
\* hold the block and a precommit has its quorum of prevotes.
LEMMA StorePreserves ==
  ASSUME IndInv, NEW n \in Node, NEW vote \in Vote, NEW rest \in SUBSET Task,
         Holds(n, vote.block),
         Holds(vote.validator, vote.block),
         vote.type = "precommit"
           => consensusVoteFinality(vote.validator, "prevote", vote.block),
         StoreVote(n, vote, rest)
  PROVE  IndInv'
<1> DEFINE votes == ConsensusVotes[n] \cup {vote}
           k == Len(vote.block)
           final == [final |-> TRUE, votes |-> {}]
           committed == /\ vote.type = "precommit"
                        /\ HasQuorum(Voters(votes, "precommit", vote.block))
<1>t. TypeOK
  BY DEF IndInv
<1>0. /\ Blocks \in [Node -> Seq(Entry)]
      /\ Finality \in [Node -> Seq(Certificate)]
      /\ \A m \in Node : Len(Finality[m]) = Len(Blocks[m])
      /\ ConsensusVotes \in [Node -> SUBSET Vote]
      /\ cs \in [Node -> ConsensusState]
      /\ todo \in [Node -> SUBSET Task]
      /\ vote.block \in Seq(Entry) /\ vote.validator \in Node
  BY <1>t DEF TypeOK, Vote
<1>1. /\ Blocks' = Blocks
      /\ Misses' = Misses
      /\ ConsensusVotes' = [ConsensusVotes EXCEPT ![n] = votes]
      /\ Finality' = IF committed
                     THEN [Finality EXCEPT ![n] = [@ EXCEPT ![k] = final]]
                     ELSE Finality
  BY DEF StoreVote
<1>2. \A m \in Node : \A b : Holds(m, b)' <=> Holds(m, b)
  BY <1>1 DEF Holds, Height
<1>3. k \in 1..Len(Blocks[n]) /\ Prefix(Blocks[n], k) = vote.block
  BY DEF Holds, Height
<1>4. TypeOK'
  <2>1. Finality' \in [Node -> Seq(Certificate)] /\ \A m \in Node : Len(Finality'[m]) = Len(Finality[m])
    <3>1. final \in Certificate
      BY DEF Certificate
    <3>2. /\ [Finality[n] EXCEPT ![k] = final] \in Seq(Certificate)
          /\ Len([Finality[n] EXCEPT ![k] = final]) = Len(Finality[n])
      BY <3>1, <1>0, <1>3
    <3> QED
      BY <3>2, <1>0, <1>1
  <2>2. ConsensusVotes' \in [Node -> SUBSET Vote]
    BY <1>0, <1>1
  <2>3. cs' \in [Node -> ConsensusState]
    <3>1. cs[n] \in ConsensusState
      BY <1>0
    <3>2. \A p, q : AfterVote(cs[n], vote.block, p, q) \in ConsensusState
      BY <3>1, <1>0, AfterVoteType
    <3> QED
      BY <3>2, <1>0 DEF StoreVote
  <2>4. todo' \in [Node -> SUBSET Task]
    <3>1. PrecommitWork(n, vote.block) \subseteq Task
      BY <1>0, PrecommitWorkType
    <3> QED
      BY <3>1, <1>0 DEF StoreVote
  <2> QED
    BY <2>1, <2>2, <2>3, <2>4, <1>1, <1>t DEF TypeOK
<1>5. VotesHeld'
  <2> SUFFICES ASSUME NEW m \in Node, NEW v \in ConsensusVotes'[m]
               PROVE  Holds(v.validator, v.block)'
    BY DEF VotesHeld
  <2>1. v.validator \in Node /\ Holds(v.validator, v.block)
    BY <1>0, <1>1 DEF IndInv, VotesHeld, Vote
  <2> QED
    BY <2>1, <1>2
<1>6. \A m \in Node : \A h \in 1..Len(Blocks[m]) :
        \/ Finality'[m][h] = Finality[m][h]
        \/ committed /\ m = n /\ h = k /\ Finality'[m][h] = final
  BY <1>0, <1>1, <1>3
<1>7. CertificatesHeld'
  <2> SUFFICES ASSUME NEW m \in Node, NEW h \in 1..Len(Blocks[m]),
                      NEW v \in Finality'[m][h].votes
               PROVE  Holds(v, Prefix(Blocks[m], h))'
    BY <1>1 DEF CertificatesHeld, Height
  <2>1. Finality'[m][h] = Finality[m][h]
    BY <1>6
  <2>2. Finality[m][h] \in Certificate
    BY <1>0
  <2>3. v \in Node
    BY <2>1, <2>2 DEF Certificate
  <2>4. Holds(v, Prefix(Blocks[m], h))
    BY <2>1 DEF IndInv, CertificatesHeld, Height
  <2> QED
    BY <2>3, <2>4, <1>1, <1>2
<1>8. FinalityCertified'
  <2> SUFFICES ASSUME NEW m \in Node, NEW h \in 1..Len(Blocks[m]),
                      Finality'[m][h].final
               PROVE  HasQuorum({v \in Node : Holds(v, Prefix(Blocks[m], h))})
    BY <1>1, <1>2 DEF FinalityCertified, Height, IsFinal, Holds
  <2>1. CASE Finality'[m][h] = Finality[m][h]
    BY <2>1 DEF IndInv, FinalityCertified, Height, IsFinal
  <2>2. CASE committed /\ m = n /\ h = k
    <3>1. Voters(votes, "precommit", vote.block)
            \subseteq {v \in Node : Holds(v, Prefix(Blocks[m], h))}
      BY <2>2, <1>3 DEF Voters, IndInv, VotesHeld
    <3> QED
      BY <3>1, <2>2, QuorumMonotone
  <2> QED
    BY <2>1, <2>2, <1>6
<1>9. PrecommitJustified'
  <2> SUFFICES ASSUME NEW m \in Node, NEW v \in ConsensusVotes'[m], v.type = "precommit"
               PROVE  consensusVoteFinality(v.validator, "prevote", v.block)'
    BY DEF PrecommitJustified, AllVotes
  <2>1. v.validator \in Node /\ consensusVoteFinality(v.validator, "prevote", v.block)
    BY <1>0, <1>1 DEF IndInv, PrecommitJustified, AllVotes, Vote
  <2>2. Voters(ConsensusVotes[v.validator], "prevote", v.block)
          \subseteq Voters(ConsensusVotes'[v.validator], "prevote", v.block)
    BY <2>1, <1>0, <1>1 DEF Voters
  <2> QED
    BY <2>1, <2>2, QuorumMonotone DEF consensusVoteFinality
<1> QED
  BY <1>4, <1>5, <1>7, <1>8, <1>9 DEF IndInv

-----------------------------------------------------------------------------
(***************************************************************************)
(* One lemma per action                                                    *)
(***************************************************************************)
\* A step that leaves chains, certificates and votes alone.
LEMMA QuietPreserves ==
  ASSUME IndInv, UNCHANGED <<Blocks, Finality, ConsensusVotes>>,
         cs' \in [Node -> ConsensusState],
         Misses' \in [Node -> [Node -> Nat]],
         todo' \in [Node -> SUBSET Task]
  PROVE  IndInv'
  BY DEF IndInv, TypeOK, VotesHeld, CertificatesHeld, FinalityCertified,
         PrecommitJustified, AllVotes, IsFinal, Holds, Height, consensusVoteFinality

\* A certificate made of the producer's own vote.
LEMMA ProducerCertificateType ==
  ASSUME NEW p \in Node
  PROVE  /\ ProducerCertificate(p) \in Certificate
         /\ ProducerCertificate(p).votes \subseteq {p}
         /\ ProducerCertificate(p).final => HasQuorum({p})
<1>1. CASE validatorPowerForBlock(p) > 0
  BY <1>1 DEF ProducerCertificate, Certificate, HasQuorum
<1>2. CASE ~(validatorPowerForBlock(p) > 0)
  <2>1. ProducerCertificate(p) = [final |-> HasQuorum({}), votes |-> {}]
    BY <1>2 DEF ProducerCertificate
  <2>2. HasQuorum({}) \in BOOLEAN
    BY DEF HasQuorum
  <2>3. HasQuorum({}) => HasQuorum({p})
    BY QuorumMonotone
  <2> QED
    BY <2>1, <2>2, <2>3 DEF Certificate
<1> QED
  BY <1>1, <1>2

\* ProduceBlock preserves the invariant.
LEMMA ProduceBlockPreserves ==
  ASSUME IndInv, NEW n \in Node, ProduceBlock(n)
  PROVE  IndInv'
<1> DEFINE block == Append(Blocks[n], [producer |-> n, round |-> cs[n].round])
           cert == ProducerCertificate(n)
<1>1. Blocks[n] \in Seq(Entry) /\ cs[n].round \in Rounds
  BY DEF IndInv, TypeOK, ConsensusState
<1>2. [producer |-> n, round |-> cs[n].round] \in Entry
  BY <1>1 DEF Entry
<1>3. block \in Seq(Entry) /\ Len(block) = Height(n) + 1
  BY <1>1, <1>2 DEF Height
<1>4. Prefix(block, Height(n)) = Blocks[n]
  BY <1>1, <1>2 DEF Prefix, Height
<1>5. cert \in Certificate /\ \A v \in cert.votes : v = n \/ Holds(v, block)
  BY ProducerCertificateType
<1>6. cert.final => HasQuorum({v \in Node : v = n \/ Holds(v, block)})
  <2>1. {n} \subseteq {v \in Node : v = n \/ Holds(v, block)}
    OBVIOUS
  <2> QED
    BY <2>1, ProducerCertificateType, QuorumMonotone
<1>7. AppendBlock(n, block, cert)
  BY DEF ProduceBlock
<1> QED
  BY <1>3, <1>4, <1>5, <1>6, <1>7, AppendPreserves

\* ReceiveBlock preserves the invariant: the producer holds what it broadcast.
LEMMA ReceiveBlockPreserves ==
  ASSUME IndInv, NEW n \in Node, ReceiveBlock(n)
  PROVE  IndInv'
<1>0. PICK p \in Node : \E h \in 1..Height(p) :
        AcceptBlock(n, Prefix(Blocks[p], h), ProducerCertificate(p))
  BY DEF ReceiveBlock
<1>1. PICK h \in 1..Height(p) :
        AcceptBlock(n, Prefix(Blocks[p], h), ProducerCertificate(p))
  BY <1>0
<1> DEFINE block == Prefix(Blocks[p], h)
           cert == ProducerCertificate(p)
<1>2. Blocks[p] \in Seq(Entry) /\ h \in 0..Len(Blocks[p])
  BY <1>1 DEF IndInv, TypeOK, Height
<1>3. block \in Seq(Entry) /\ Len(block) = h
  BY <1>2, PrefixType
<1>4. Holds(p, block)
  BY <1>3, <1>1 DEF Holds
<1>5. cert \in Certificate /\ \A v \in cert.votes : v = n \/ Holds(v, block)
  BY <1>4, ProducerCertificateType, ZenonT(40)
<1>6. cert.final => HasQuorum({v \in Node : v = n \/ Holds(v, block)})
  <2>1. {p} \subseteq {v \in Node : v = n \/ Holds(v, block)}
    BY <1>4
  <2> QED
    BY <2>1, ProducerCertificateType, QuorumMonotone
<1>7. /\ Len(block) = Height(n) + 1
      /\ Prefix(block, Height(n)) = Blocks[n]
      /\ AppendBlock(n, block, cert)
  BY <1>1 DEF AcceptBlock
<1> QED
  BY <1>3, <1>5, <1>6, <1>7, AppendPreserves

\* SyncFromPeer preserves the invariant: the peer's certificate is as good as the
\* peer's own state, although an empty one is not verified.
LEMMA SyncFromPeerPreserves ==
  ASSUME IndInv, NEW n \in Node, SyncFromPeer(n)
  PROVE  IndInv'
<1>1. PICK p \in Node : /\ Height(n) < Height(p)
                        /\ AcceptBlock(n, Prefix(Blocks[p], Height(n) + 1),
                                       Finality[p][Height(n) + 1])
  BY DEF SyncFromPeer
<1> DEFINE h == Height(n) + 1
           block == Prefix(Blocks[p], h)
           cert == Finality[p][h]
<1>2. /\ Blocks[p] \in Seq(Entry) /\ Blocks[n] \in Seq(Entry)
      /\ Finality[p] \in Seq(Certificate) /\ Len(Finality[p]) = Len(Blocks[p])
  BY DEF IndInv, TypeOK
<1>3. h \in 1..Height(p) /\ h \in 0..Len(Blocks[p])
  BY <1>1, <1>2 DEF Height
<1>4. block \in Seq(Entry) /\ Len(block) = h
  BY <1>2, <1>3, PrefixType
<1>5. cert \in Certificate
  BY <1>2, <1>3 DEF Height
<1>6. \A v \in cert.votes : v = n \/ Holds(v, block)
  BY <1>3 DEF IndInv, CertificatesHeld
<1>7. cert.final => HasQuorum({v \in Node : v = n \/ Holds(v, block)})
  <2> HAVE cert.final
  <2>1. HasQuorum({v \in Node : Holds(v, block)})
    BY <1>3 DEF IndInv, FinalityCertified, IsFinal
  <2>2. {v \in Node : Holds(v, block)} \subseteq {v \in Node : v = n \/ Holds(v, block)}
    OBVIOUS
  <2> QED
    BY <2>1, <2>2, QuorumMonotone
<1>8. /\ Len(block) = Height(n) + 1
      /\ Prefix(block, Height(n)) = Blocks[n]
      /\ AppendBlock(n, block, cert)
  BY <1>1 DEF AcceptBlock
<1> QED
  BY <1>4, <1>5, <1>6, <1>7, <1>8, AppendPreserves

\* ReceiveConsensusVote preserves the invariant: the vote was stored before, so
\* its validator holds the block.
LEMMA ReceiveConsensusVotePreserves ==
  ASSUME IndInv, NEW n \in Node, ReceiveConsensusVote(n)
  PROVE  IndInv'
<1>0. PICK p \in Node : \E vote \in ConsensusVotes[p] :
        validateConsensusVote(n, vote) /\ StoreVote(n, vote, todo[n])
  BY DEF ReceiveConsensusVote, VotesOfPeers
<1>1. PICK vote \in ConsensusVotes[p] :
        validateConsensusVote(n, vote) /\ StoreVote(n, vote, todo[n])
  BY <1>0
<1>2. vote \in Vote /\ todo[n] \in SUBSET Task
  BY DEF IndInv, TypeOK
<1>3. Holds(n, vote.block) /\ Holds(vote.validator, vote.block)
  BY <1>1 DEF validateConsensusVote, IndInv, VotesHeld
<1>4. vote.type = "precommit"
        => consensusVoteFinality(vote.validator, "prevote", vote.block)
  BY DEF IndInv, PrecommitJustified, AllVotes
<1> QED
  BY <1>1, <1>2, <1>3, <1>4, StorePreserves

\* A local vote preserves the invariant if a precommit has its prevotes.
LEMMA LocalVotePreserves ==
  ASSUME IndInv, NEW n \in Node, NEW task \in Task, NEW rest \in SUBSET Task,
         task.type = "precommit" => consensusVoteFinality(n, "prevote", task.block),
         LocalVote(n, task, rest)
  PROVE  IndInv'
<1> DEFINE vote == [type |-> task.type, block |-> task.block, validator |-> n]
<1>1. CASE validateConsensusVote(n, vote) /\ StoreVote(n, vote, rest)
  <2>1. vote \in Vote
    BY DEF Task, Vote
  <2>2. Holds(n, vote.block)
    BY <1>1 DEF validateConsensusVote
  <2> QED
    BY <1>1, <2>1, <2>2, StorePreserves
<1>2. CASE /\ todo' = [todo EXCEPT ![n] = rest]
           /\ UNCHANGED <<Blocks, Finality, ConsensusVotes, cs, Misses>>
  <2>1. todo' \in [Node -> SUBSET Task]
    BY <1>2 DEF IndInv, TypeOK
  <2>2. cs' \in [Node -> ConsensusState] /\ Misses' \in [Node -> [Node -> Nat]]
    BY <1>2 DEF IndInv, TypeOK
  <2> QED
    BY <1>2, <2>1, <2>2, QuietPreserves
<1> QED
  BY <1>1, <1>2 DEF LocalVote

\* LocalPrevote preserves the invariant.
LEMMA LocalPrevotePreserves ==
  ASSUME IndInv, NEW n \in Node, LocalPrevote(n)
  PROVE  IndInv'
<1>1. PICK task \in todo[n] : task.type = "prevote" /\ LocalVote(n, task, todo[n] \ {task})
  BY DEF LocalPrevote
<1>2. task \in Task /\ todo[n] \ {task} \in SUBSET Task
  BY DEF IndInv, TypeOK
<1> QED
  BY <1>1, <1>2, LocalVotePreserves

\* LocalPrecommit preserves the invariant: it looks at the prevotes first.
LEMMA LocalPrecommitPreserves ==
  ASSUME IndInv, NEW n \in Node, LocalPrecommit(n)
  PROVE  IndInv'
<1>1. PICK task \in todo[n] :
        IF consensusVoteFinality(n, "prevote", task.block)
        THEN LocalVote(n, task, todo[n] \ {task})
        ELSE /\ todo' = [todo EXCEPT ![n] = @ \ {task}]
             /\ UNCHANGED <<Blocks, Finality, ConsensusVotes, cs, Misses>>
  BY DEF LocalPrecommit
<1>2. task \in Task /\ todo[n] \ {task} \in SUBSET Task
  BY DEF IndInv, TypeOK
<1>3. CASE consensusVoteFinality(n, "prevote", task.block)
  BY <1>1, <1>2, <1>3, LocalVotePreserves
<1>4. CASE ~consensusVoteFinality(n, "prevote", task.block)
  <2>1. todo' \in [Node -> SUBSET Task]
    BY <1>1, <1>4 DEF IndInv, TypeOK
  <2>2. cs' \in [Node -> ConsensusState] /\ Misses' \in [Node -> [Node -> Nat]]
    BY <1>1, <1>4 DEF IndInv, TypeOK
  <2> QED
    BY <1>1, <1>4, <2>1, <2>2, QuietPreserves
<1> QED
  BY <1>3, <1>4

\* ReceiveVoteAgain preserves the invariant: it only starts work.
LEMMA ReceiveVoteAgainPreserves ==
  ASSUME IndInv, NEW n \in Node, ReceiveVoteAgain(n)
  PROVE  IndInv'
<1>1. PICK vote \in VotesOfPeers(n) \cap ConsensusVotes[n] :
        /\ todo' = [todo EXCEPT ![n] = @ \cup PrecommitWork(n, vote.block)]
        /\ UNCHANGED <<Blocks, Finality, ConsensusVotes, cs, Misses>>
  BY DEF ReceiveVoteAgain
<1>2. vote.block \in Seq(Entry)
  BY DEF IndInv, TypeOK, Vote
<1>3. PrecommitWork(n, vote.block) \subseteq Task
  BY <1>2, PrecommitWorkType
<1>4. todo' \in [Node -> SUBSET Task]
  BY <1>1, <1>3 DEF IndInv, TypeOK
<1>5. cs' \in [Node -> ConsensusState] /\ Misses' \in [Node -> [Node -> Nat]]
  BY <1>1 DEF IndInv, TypeOK
<1> QED
  BY <1>1, <1>4, <1>5, QuietPreserves

\* AcceptBlockVote preserves the invariant: the new certificate names holders of
\* the block, and is final only if they are a quorum.
LEMMA AcceptBlockVotePreserves ==
  ASSUME IndInv, NEW n \in Node, AcceptBlockVote(n)
  PROVE  IndInv'
<1>0. PICK v \in ManualVoters : \E h \in 1..Height(v) :
        /\ Holds(n, Prefix(Blocks[v], h))
        /\ LET votes == Finality[n][h].votes \cup {v}
           IN  Finality' = [Finality EXCEPT ![n] =
                 [@ EXCEPT ![h] = [final |-> HasQuorum(votes), votes |-> votes]]]
        /\ UNCHANGED <<Blocks, ConsensusVotes, cs, Misses, todo>>
  BY DEF AcceptBlockVote
<1>1. PICK h \in 1..Height(v) :
        /\ Holds(n, Prefix(Blocks[v], h))
        /\ LET votes == Finality[n][h].votes \cup {v}
           IN  Finality' = [Finality EXCEPT ![n] =
                 [@ EXCEPT ![h] = [final |-> HasQuorum(votes), votes |-> votes]]]
        /\ UNCHANGED <<Blocks, ConsensusVotes, cs, Misses, todo>>
  BY <1>0
<1> DEFINE votes == Finality[n][h].votes \cup {v}
           cert == [final |-> HasQuorum(votes), votes |-> votes]
           block == Prefix(Blocks[v], h)
<1>2. /\ Blocks \in [Node -> Seq(Entry)]
      /\ Finality \in [Node -> Seq(Certificate)]
      /\ \A m \in Node : Len(Finality[m]) = Len(Blocks[m])
      /\ v \in Node
  BY NodeAssumption DEF IndInv, TypeOK
<1>3. Len(block) = h /\ h \in 1..Len(Blocks[v])
  BY <1>2, PrefixType DEF Height
<1>4. h \in 1..Len(Blocks[n]) /\ Prefix(Blocks[n], h) = block
  BY <1>1, <1>3 DEF Holds, Height
<1>5. Holds(v, block)
  BY <1>3 DEF Holds, Height
<1>6. \A u \in votes : u \in Node /\ Holds(u, block)
  <2>1. Finality[n][h] \in Certificate
    BY <1>2, <1>4
  <2>2. \A u \in Finality[n][h].votes : Holds(u, block)
    BY <1>4 DEF IndInv, CertificatesHeld, Height
  <2> QED
    BY <2>1, <2>2, <1>2, <1>5 DEF Certificate
<1>7. cert \in Certificate
  BY <1>6 DEF Certificate, HasQuorum
<1>8. /\ Finality' \in [Node -> Seq(Certificate)]
      /\ \A m \in Node : Len(Finality'[m]) = Len(Finality[m])
      /\ \A m \in Node : \A g \in 1..Len(Blocks[m]) :
           \/ Finality'[m][g] = Finality[m][g]
           \/ m = n /\ g = h /\ Finality'[m][g] = cert
  <2> HIDE DEF cert
  <2>1. Finality' = [Finality EXCEPT ![n] = [@ EXCEPT ![h] = cert]]
    BY <1>1 DEF cert
  <2>2. /\ [Finality[n] EXCEPT ![h] = cert] \in Seq(Certificate)
        /\ Len([Finality[n] EXCEPT ![h] = cert]) = Len(Finality[n])
    BY <1>2, <1>4, <1>7
  <2> QED
    BY <2>1, <2>2, <1>2, <1>4
<1>9. \A m \in Node : \A b : Holds(m, b)' <=> Holds(m, b)
  BY <1>1 DEF Holds, Height
<1>10. TypeOK'
  BY <1>1, <1>8 DEF IndInv, TypeOK
<1>11. VotesHeld' /\ PrecommitJustified'
  BY <1>1 DEF IndInv, VotesHeld, PrecommitJustified, AllVotes, consensusVoteFinality,
              Holds, Height
<1>12. CertificatesHeld'
  <2> SUFFICES ASSUME NEW m \in Node, NEW g \in 1..Len(Blocks[m]),
                      NEW u \in Finality'[m][g].votes
               PROVE  Holds(u, Prefix(Blocks[m], g))
    BY <1>1 DEF CertificatesHeld, Holds, Height
  <2>1. CASE Finality'[m][g] = Finality[m][g]
    BY <2>1 DEF IndInv, CertificatesHeld, Height
  <2>2. CASE m = n /\ g = h /\ Finality'[m][g] = cert
    BY <2>2, <1>4, <1>6
  <2> QED
    BY <2>1, <2>2, <1>8
<1>13. FinalityCertified'
  <2> SUFFICES ASSUME NEW m \in Node, NEW g \in 1..Len(Blocks[m]),
                      Finality'[m][g].final
               PROVE  HasQuorum({u \in Node : Holds(u, Prefix(Blocks[m], g))})
    BY <1>1 DEF FinalityCertified, IsFinal, Holds, Height
  <2>1. CASE Finality'[m][g] = Finality[m][g]
    BY <2>1 DEF IndInv, FinalityCertified, IsFinal, Height
  <2>2. CASE m = n /\ g = h /\ Finality'[m][g] = cert
    <3>1. votes \subseteq {u \in Node : Holds(u, Prefix(Blocks[m], g))}
      BY <2>2, <1>4, <1>6
    <3>2. HasQuorum(votes)
      BY <2>2
    <3> QED
      BY <3>1, <3>2, QuorumMonotone
  <2> QED
    BY <2>1, <2>2, <1>8
<1> QED
  BY <1>10, <1>11, <1>12, <1>13 DEF IndInv

\* checkBlockTimeoutLocked and a restart preserve the invariant: they change the
\* engine's state, the turn record and the work in memory.
LEMMA TimeoutPreserves ==
  ASSUME IndInv, NEW n \in Node, CatchUpHeight(n) \/ ProposerTimeout(n) \/ Restart(n)
  PROVE  IndInv'
<1>0. /\ cs \in [Node -> ConsensusState]
      /\ Misses \in [Node -> [Node -> Nat]]
      /\ todo \in [Node -> SUBSET Task]
      /\ Blocks \in [Node -> Seq(Entry)]
  BY DEF IndInv, TypeOK
<1>r. 0 \in Rounds /\ \A r \in Rounds : NextRound(r) \in Rounds
  BY BoundAssumption DEF Rounds, NextRound
<1>1. CASE CatchUpHeight(n)
  <2>1. cs' \in [Node -> ConsensusState]
    <3>1. Height(n) + 1 \in Nat
      BY <1>0 DEF Height
    <3> QED
      BY <1>1, <3>1, <1>0, <1>r, ZenonT(40) DEF CatchUpHeight, ConsensusState
  <2> QED
    BY <1>1, <2>1, <1>0, QuietPreserves DEF CatchUpHeight
<1>2. CASE ProposerTimeout(n)
  <2> DEFINE r == NextRound(cs[n].round)
  <2>1. cs[n].round \in Rounds /\ cs[n].proposer \in Node \cup {NoProposer}
    BY <1>0 DEF ConsensusState
  <2>2. cs[n].proposer \in Node
    BY <1>2, <2>1 DEF ProposerTimeout
  <2>3. Misses' \in [Node -> [Node -> Nat]]
    BY <1>2, <2>2, <1>0 DEF ProposerTimeout, RecordMiss
  <2>4. r \in Rounds
    BY <2>1, <1>r
  <2>5. cs' \in [Node -> ConsensusState]
    <3>1. CASE cs' = [cs EXCEPT ![n].round = r]
      BY <3>1, <2>4, <1>0 DEF ConsensusState
    <3>2. CASE \E v \in Validators : cs' = [cs EXCEPT ![n].round = r, ![n].proposer = v]
      <4>1. PICK v \in Node : cs' = [cs EXCEPT ![n].round = r, ![n].proposer = v]
        BY <3>2 DEF Validators
      <4> QED
        BY <4>1, <2>4, <1>0, ZenonT(40) DEF ConsensusState
    <3> QED
      BY <1>2, <3>1, <3>2 DEF ProposerTimeout
  <2> QED
    BY <1>2, <2>3, <2>5, <1>0, QuietPreserves DEF ProposerTimeout
<1>3. CASE Restart(n)
  <2>1. todo' \in [Node -> SUBSET Task]
    BY <1>3, <1>0 DEF Restart
  <2> QED
    BY <1>3, <2>1, <1>0, QuietPreserves DEF Restart
<1> QED
  BY <1>1, <1>2, <1>3

-----------------------------------------------------------------------------
(***************************************************************************)
(* Theorems                                                                *)
(***************************************************************************)
\* The genesis state satisfies the invariant.
LEMMA InitIndInv == Init => IndInv
<1> SUFFICES ASSUME Init PROVE IndInv
  OBVIOUS
<1>1. TypeOK
  <2>1. 0 \in Rounds
    BY BoundAssumption DEF Rounds
  <2>2. [height |-> 0, round |-> 0, phase |-> "", proposer |-> NoProposer] \in ConsensusState
    BY <2>1 DEF ConsensusState
  <2>3. <<>> \in Seq(Entry) /\ <<>> \in Seq(Certificate) /\ Len(<<>>) = 0
    OBVIOUS
  <2>4. cs \in [Node -> ConsensusState]
    BY <2>2 DEF Init
  <2>5. Misses \in [Node -> [Node -> Nat]] /\ todo \in [Node -> SUBSET Task]
    BY DEF Init
  <2> QED
    BY <2>3, <2>4, <2>5 DEF Init, TypeOK
<1>2. \A n \in Node : Height(n) = 0 /\ ConsensusVotes[n] = {}
  BY DEF Init, Height
<1> QED
  BY <1>1, <1>2 DEF IndInv, VotesHeld, CertificatesHeld, FinalityCertified,
                    PrecommitJustified, AllVotes

\* Every step preserves it.
LEMMA NextIndInv == IndInv /\ [Next]_vars => IndInv'
<1> SUFFICES ASSUME IndInv, [Next]_vars PROVE IndInv'
  OBVIOUS
<1>1. CASE UNCHANGED vars
  BY <1>1, QuietPreserves DEF vars, IndInv, TypeOK
<1>2. CASE Next
  <2>1. PICK n \in Node : \/ Work(n) \/ ReceiveVoteAgain(n) \/ AcceptBlockVote(n)
                          \/ ProposerTimeout(n) \/ Restart(n)
    BY <1>2 DEF Next
  <2>2. CASE ProduceBlock(n)
    BY <2>2, ProduceBlockPreserves
  <2>3. CASE ReceiveBlock(n)
    BY <2>3, ReceiveBlockPreserves
  <2>4. CASE SyncFromPeer(n)
    BY <2>4, SyncFromPeerPreserves
  <2>5. CASE ReceiveConsensusVote(n)
    BY <2>5, ReceiveConsensusVotePreserves
  <2>6. CASE LocalPrevote(n)
    BY <2>6, LocalPrevotePreserves
  <2>7. CASE LocalPrecommit(n)
    BY <2>7, LocalPrecommitPreserves
  <2>8. CASE ReceiveVoteAgain(n)
    BY <2>8, ReceiveVoteAgainPreserves
  <2>9. CASE AcceptBlockVote(n)
    BY <2>9, AcceptBlockVotePreserves
  <2>10. CASE CatchUpHeight(n) \/ ProposerTimeout(n) \/ Restart(n)
    BY <2>10, TimeoutPreserves
  <2> QED
    BY <2>1, <2>2, <2>3, <2>4, <2>5, <2>6, <2>7, <2>8, <2>9, <2>10 DEF Work
<1> QED
  BY <1>1, <1>2

\* The invariant holds in every state of every network.
THEOREM Invariance == Spec => []IndInv
  BY InitIndInv, NextIndInv, PTL DEF Spec

\* Type correctness: in particular there is always one certificate per block.
THEOREM TypeCorrect == Spec => []TypeOK
<1>1. IndInv => TypeOK
  BY DEF IndInv
<1> QED
  BY <1>1, Invariance, PTL

\* A final block is held by more than two thirds of the power, whichever way it
\* became final (precommits, block votes, sync).
THEOREM Finality_is_certified == Spec => []FinalityCertified
<1>1. IndInv => FinalityCertified
  BY DEF IndInv
<1> QED
  BY <1>1, Invariance, PTL

\* A precommit is signed only behind a quorum of prevotes.
THEOREM Precommits_are_justified == Spec => []PrecommitJustified
<1>1. IndInv => PrecommitJustified
  BY DEF IndInv
<1> QED
  BY <1>1, Invariance, PTL

\* Finalized blocks lie on one chain: no two nodes finalize conflicting blocks.
THEOREM Finalized_blocks_agree == Spec => []Agreement
<1>1. IndInv => Agreement
  <2> SUFFICES ASSUME IndInv, NEW n \in Node, NEW m \in Node,
                      NEW g \in 1..Height(n), NEW h \in 1..Height(m),
                      g <= h, IsFinal(n, g), IsFinal(m, h)
               PROVE  Prefix(Blocks[n], g) = Prefix(Blocks[m], g)
    BY DEF Agreement
  <2>0. Blocks \in [Node -> Seq(Entry)]
    BY DEF IndInv, TypeOK
  <2>1. /\ HasQuorum({v \in Node : Holds(v, Prefix(Blocks[n], g))})
        /\ HasQuorum({v \in Node : Holds(v, Prefix(Blocks[m], h))})
    BY DEF IndInv, FinalityCertified
  <2>2. PICK v \in Node : /\ Holds(v, Prefix(Blocks[n], g))
                          /\ Holds(v, Prefix(Blocks[m], h))
    BY <2>1, QuorumsIntersect
  <2>3. Len(Prefix(Blocks[n], g)) = g /\ Len(Prefix(Blocks[m], h)) = h
    BY <2>0, PrefixType DEF Height
  <2>4. /\ Prefix(Blocks[v], g) = Prefix(Blocks[n], g)
        /\ Prefix(Blocks[v], h) = Prefix(Blocks[m], h)
    BY <2>2, <2>3 DEF Holds
  <2>5. Prefix(Blocks[v], g) = Prefix(Blocks[m], g)
    <3>1. h \in Nat /\ g \in 0..h
      BY <2>0 DEF Height
    <3> QED
      BY <3>1, <2>0, <2>4, PrefixShorter
  <2> QED
    BY <2>4, <2>5
<1> QED
  BY <1>1, Invariance, PTL

\* No validator equivocates: its votes of one type and height name one block.
THEOREM Validators_do_not_equivocate == Spec => []NoEquivocation
<1>1. IndInv => NoEquivocation
  <2> SUFFICES ASSUME IndInv, NEW v \in AllVotes, NEW w \in AllVotes,
                      v.validator = w.validator, Len(v.block) = Len(w.block)
               PROVE  v.block = w.block
    BY DEF NoEquivocation
  <2>1. Holds(v.validator, v.block) /\ Holds(w.validator, w.block)
    BY DEF IndInv, VotesHeld, AllVotes
  <2> QED
    BY <2>1 DEF Holds
<1> QED
  BY <1>1, Invariance, PTL

-----------------------------------------------------------------------------
\* The engine never runs ahead of the chain, and is in round 0 when it is behind.
THEOREM Engine_tracks_the_chain == Spec => []EngineTracksChain
<1> DEFINE Tracks(m) ==
      /\ cs[m].height <= Height(m) + 1
      /\ cs[m].phase = "propose" /\ cs[m].height <= Height(m) => cs[m].round = 0
<1>1. Init => EngineTracksChain
  <2> SUFFICES ASSUME Init, NEW m \in Node PROVE Tracks(m)
    BY DEF EngineTracksChain
  <2>1. Height(m) = 0 /\ cs[m].height = 0 /\ cs[m].phase # "propose"
    BY DEF Init, Height
  <2> QED
    BY <2>1
<1>2. IndInv /\ EngineTracksChain /\ [Next]_vars => EngineTracksChain'
  <2> SUFFICES ASSUME IndInv, EngineTracksChain, [Next]_vars, NEW m \in Node
               PROVE  Tracks(m)'
    BY DEF EngineTracksChain
  <2>0. /\ Blocks \in [Node -> Seq(Entry)]
        /\ ConsensusVotes \in [Node -> SUBSET Vote]
        /\ cs \in [Node -> ConsensusState]
        /\ Tracks(m)
    BY DEF IndInv, TypeOK, EngineTracksChain
  <2>1. \A n \in Node : \A block, cert :
          /\ AppendBlock(n, block, cert)
          /\ block \in Seq(Entry)
          => Tracks(m)'
    <3> SUFFICES ASSUME NEW n \in Node, NEW block \in Seq(Entry), NEW cert,
                        AppendBlock(n, block, cert)
                 PROVE  Tracks(m)'
      OBVIOUS
    <3>1. CASE m = n
      BY <3>1, <2>0 DEF AppendBlock, AfterBlock, finalizeConsensusForBlock, Height
    <3>2. CASE m # n
      BY <3>2, <2>0 DEF AppendBlock, Height
    <3> QED
      BY <3>1, <3>2
  <2>2. \A n \in Node : \A vote, rest :
          StoreVote(n, vote, rest) /\ Holds(n, vote.block) => Tracks(m)'
    <3> SUFFICES ASSUME NEW n \in Node, NEW vote, NEW rest,
                        StoreVote(n, vote, rest), Holds(n, vote.block)
                 PROVE  Tracks(m)'
      OBVIOUS
    <3>1. CASE m = n
      <4>1. PICK p, q : cs'[n] = AfterVote(cs[n], vote.block, p, q) /\ Blocks' = Blocks
        BY <2>0 DEF StoreVote
      <4>2. Len(vote.block) \in 1..Len(Blocks[n])
        BY DEF Holds, Height
      <4>3. CASE cs'[n] = finalizeConsensusForBlock(cs[n], Len(vote.block))
        BY <4>1, <4>2, <4>3, <3>1, <2>0 DEF finalizeConsensusForBlock, Height
      <4>4. CASE cs'[n] = [cs[n] EXCEPT !.phase = "precommit"]
        BY <4>1, <4>4, <3>1, <2>0 DEF Height, ConsensusState
      <4>5. CASE cs'[n] = cs[n]
        BY <4>1, <4>5, <3>1, <2>0 DEF Height
      <4> QED
        BY <4>1, <4>3, <4>4, <4>5 DEF AfterVote
    <3>2. CASE m # n
      BY <3>2, <2>0 DEF StoreVote, Height
    <3> QED
      BY <3>1, <3>2
  <2>3. ASSUME UNCHANGED <<Blocks, cs>> PROVE Tracks(m)'
    BY <2>3, <2>0 DEF Height
  <2>4. ASSUME NEW n \in Node, ProduceBlock(n) PROVE Tracks(m)'
    <3>1. cs[n].round \in Rounds
      BY <2>0 DEF ConsensusState
    <3>2. [producer |-> n, round |-> cs[n].round] \in Entry
      BY <3>1 DEF Entry
    <3>3. Append(Blocks[n], [producer |-> n, round |-> cs[n].round]) \in Seq(Entry)
      BY <3>2, <2>0
    <3> QED
      BY <2>4, <3>3, <2>1 DEF ProduceBlock
  <2>5. ASSUME NEW n \in Node, ReceiveBlock(n) PROVE Tracks(m)'
    <3>1. PICK p \in Node : \E h \in 1..Height(p) :
            AppendBlock(n, Prefix(Blocks[p], h), ProducerCertificate(p))
      BY <2>5 DEF ReceiveBlock, AcceptBlock
    <3>2. PICK h \in 1..Height(p) :
            AppendBlock(n, Prefix(Blocks[p], h), ProducerCertificate(p))
      BY <3>1
    <3>3. Prefix(Blocks[p], h) \in Seq(Entry)
      BY <2>0, PrefixType DEF Height
    <3> QED
      BY <3>2, <3>3, <2>1
  <2>6. ASSUME NEW n \in Node, SyncFromPeer(n) PROVE Tracks(m)'
    <3>1. PICK p \in Node :
            /\ Height(n) < Height(p)
            /\ AppendBlock(n, Prefix(Blocks[p], Height(n) + 1), Finality[p][Height(n) + 1])
      BY <2>6 DEF SyncFromPeer, AcceptBlock
    <3>2. Height(n) + 1 \in 0..Len(Blocks[p])
      BY <3>1, <2>0 DEF Height
    <3>3. Prefix(Blocks[p], Height(n) + 1) \in Seq(Entry)
      BY <3>2, <2>0, PrefixType
    <3> QED
      BY <3>1, <3>3, <2>1
  <2>7. ASSUME NEW n \in Node, ReceiveConsensusVote(n) PROVE Tracks(m)'
    BY <2>7, <2>2 DEF ReceiveConsensusVote, validateConsensusVote
  <2>8. ASSUME NEW n \in Node, NEW task, NEW rest, LocalVote(n, task, rest)
        PROVE  Tracks(m)'
    <3> DEFINE vote == [type |-> task.type, block |-> task.block, validator |-> n]
    <3>1. CASE UNCHANGED <<Blocks, cs>>
      BY <3>1, <2>3
    <3>2. CASE validateConsensusVote(n, vote) /\ StoreVote(n, vote, rest)
      BY <3>2, <2>2 DEF validateConsensusVote
    <3> QED
      BY <2>8, <3>1, <3>2 DEF LocalVote
  <2>9. ASSUME NEW n \in Node, LocalPrevote(n) \/ LocalPrecommit(n) PROVE Tracks(m)'
    <3>1. CASE UNCHANGED <<Blocks, cs>>
      BY <3>1, <2>3
    <3>2. CASE \E task, rest : LocalVote(n, task, rest)
      BY <3>2, <2>8
    <3> QED
      BY <2>9, <3>1, <3>2 DEF LocalPrevote, LocalPrecommit
  <2>10. ASSUME NEW n \in Node, CatchUpHeight(n) PROVE Tracks(m)'
    <3>1. /\ Blocks' = Blocks
          /\ cs' = [cs EXCEPT ![n].height = Height(n) + 1, ![n].round = 0]
      BY <2>10 DEF CatchUpHeight
    <3>2. CASE m = n
      <4>1. cs'[n].height = Height(n) + 1
        BY <3>1, <2>0 DEF ConsensusState
      <4> QED
        BY <4>1, <3>1, <3>2, <2>0 DEF Height
    <3>3. CASE m # n
      BY <3>1, <3>3, <2>0 DEF Height
    <3> QED
      BY <3>2, <3>3
  <2>11. ASSUME NEW n \in Node, ProposerTimeout(n) PROVE Tracks(m)'
    <3>1. PICK r, v : \/ cs' = [cs EXCEPT ![n].round = r]
                      \/ cs' = [cs EXCEPT ![n].round = r, ![n].proposer = v]
      BY <2>11 DEF ProposerTimeout
    <3>2. Blocks' = Blocks /\ cs[n].height = Height(n) + 1
      BY <2>11 DEF ProposerTimeout
    <3>3. CASE m = n
      <4>1. cs'[n].height = cs[n].height
        BY <3>1, <2>0, ZenonT(40) DEF ConsensusState
      <4> QED
        BY <4>1, <3>2, <3>3, <2>0 DEF Height
    <3>4. CASE m # n
      <4>1. cs'[m] = cs[m]
        BY <3>1, <3>4, <2>0
      <4> QED
        BY <4>1, <3>2, <2>0 DEF Height
    <3> QED
      BY <3>3, <3>4
  <2>12. ASSUME NEW n \in Node, Restart(n) \/ ReceiveVoteAgain(n) \/ AcceptBlockVote(n)
         PROVE  Tracks(m)'
    BY <2>12, <2>3 DEF Restart, ReceiveVoteAgain, AcceptBlockVote
  <2> QED
    BY <2>3, <2>4, <2>5, <2>6, <2>7, <2>9, <2>10, <2>11, <2>12 DEF Next, Work, vars
<1> QED
  BY <1>1, <1>2, Invariance, PTL DEF Spec

-----------------------------------------------------------------------------
(***************************************************************************)
(* The engine implements FinalLog                                          *)
(***************************************************************************)
\* A block appended on top of the tip makes the chain longer and nothing else.
LEMMA AppendGrows ==
  ASSUME TypeOK, NEW n \in Node, NEW block \in Seq(Entry), NEW cert,
         Len(block) = Height(n) + 1,
         Prefix(block, Height(n)) = Blocks[n],
         AppendBlock(n, block, cert)
  PROVE  ChainsGrow
<1>1. Blocks \in [Node -> Seq(Entry)] /\ Blocks' = [Blocks EXCEPT ![n] = block]
  BY DEF TypeOK, AppendBlock
<1> SUFFICES ASSUME NEW m \in Node
             PROVE  /\ Blocks'[m] \in Seq(Entry)
                    /\ Len(Blocks[m]) <= Len(Blocks'[m])
                    /\ Prefix(Blocks'[m], Len(Blocks[m])) = Blocks[m]
  BY DEF ChainsGrow
<1>2. CASE m = n
  BY <1>1, <1>2 DEF Height
<1>3. CASE m # n
  BY <1>1, <1>3, PrefixWhole
<1> QED
  BY <1>2, <1>3

\* No step takes a block back.
LEMMA NextGrows == TypeOK /\ [Next]_vars => ChainsGrow
<1> SUFFICES ASSUME TypeOK, [Next]_vars PROVE ChainsGrow
  OBVIOUS
<1>0. Blocks \in [Node -> Seq(Entry)] /\ cs \in [Node -> ConsensusState]
  BY DEF TypeOK
<1>1. CASE Blocks' = Blocks
  BY <1>0, <1>1, PrefixWhole DEF ChainsGrow
<1>2. ASSUME NEW n \in Node, ProduceBlock(n) PROVE ChainsGrow
  <2> DEFINE e == [producer |-> n, round |-> cs[n].round]
             block == Append(Blocks[n], e)
  <2>1. cs[n].round \in Rounds
    BY <1>0 DEF ConsensusState
  <2>2. e \in Entry
    BY <2>1 DEF Entry
  <2>3. block \in Seq(Entry) /\ Len(block) = Height(n) + 1
    BY <2>2, <1>0 DEF Height
  <2>4. Prefix(block, Height(n)) = Blocks[n]
    BY <2>2, <1>0 DEF Prefix, Height
  <2> QED
    BY <1>2, <2>3, <2>4, AppendGrows DEF ProduceBlock
<1>3. ASSUME NEW n \in Node, NEW p \in Node, NEW h \in 1..Height(p), NEW cert,
             AcceptBlock(n, Prefix(Blocks[p], h), cert)
      PROVE  ChainsGrow
  <2>1. Prefix(Blocks[p], h) \in Seq(Entry)
    BY <1>0, PrefixType DEF Height
  <2> QED
    BY <1>3, <2>1, AppendGrows DEF AcceptBlock
<1>4. ASSUME NEW n \in Node, ReceiveBlock(n) PROVE ChainsGrow
  BY <1>4, <1>3 DEF ReceiveBlock
<1>5. ASSUME NEW n \in Node, SyncFromPeer(n) PROVE ChainsGrow
  <2>1. PICK p \in Node : /\ Height(n) < Height(p)
                          /\ AcceptBlock(n, Prefix(Blocks[p], Height(n) + 1),
                                         Finality[p][Height(n) + 1])
    BY <1>5 DEF SyncFromPeer
  <2>2. Height(n) + 1 \in 1..Height(p)
    BY <2>1, <1>0 DEF Height
  <2> QED
    BY <2>1, <2>2, <1>3
<1>6. ASSUME NEW n \in Node,
             \/ ReceiveConsensusVote(n) \/ LocalPrevote(n) \/ LocalPrecommit(n)
             \/ ReceiveVoteAgain(n) \/ AcceptBlockVote(n) \/ CatchUpHeight(n)
             \/ ProposerTimeout(n) \/ Restart(n)
      PROVE  Blocks' = Blocks
  BY <1>6 DEF ReceiveConsensusVote, LocalPrevote, LocalPrecommit, LocalVote, StoreVote,
              ReceiveVoteAgain, AcceptBlockVote, CatchUpHeight, ProposerTimeout, Restart
<1> QED
  BY <1>1, <1>2, <1>4, <1>5, <1>6 DEF Next, Work, vars

\* Blocks that quorums hold lie on one chain.
LEMMA DecidedOnOneChain == TypeOK => Log!OneChain(Decided)
<1> SUFFICES ASSUME TypeOK, NEW b \in Decided, NEW e \in Decided
             PROVE  Log!Below(b, e) \/ Log!Below(e, b)
  BY DEF Log!OneChain
<1>0. Blocks \in [Node -> Seq(Entry)]
  BY DEF TypeOK
<1>1. HasQuorum({v \in Node : Holds(v, b)}) /\ HasQuorum({v \in Node : Holds(v, e)})
  BY DEF Decided
<1>2. PICK v \in Node : Holds(v, b) /\ Holds(v, e)
  BY <1>1, QuorumsIntersect
<1>3. /\ Len(b) \in 1..Len(Blocks[v]) /\ Prefix(Blocks[v], Len(b)) = b
      /\ Len(e) \in 1..Len(Blocks[v]) /\ Prefix(Blocks[v], Len(e)) = e
  BY <1>2 DEF Holds, Height
<1>4. /\ \A i \in 1..Len(b) : b[i] = Blocks[v][i]
      /\ \A i \in 1..Len(e) : e[i] = Blocks[v][i]
  BY <1>3 DEF Prefix
<1>5. Len(b) \in Nat /\ Len(e) \in Nat
  BY <1>3
<1>6. CASE Len(b) <= Len(e)
  <2>1. \A i \in 1..Len(b) : i \in 1..Len(e)
    BY <1>5, <1>6
  <2> QED
    BY <1>4, <1>6, <2>1 DEF Log!Below
<1>7. CASE Len(e) <= Len(b)
  <2>1. \A i \in 1..Len(e) : i \in 1..Len(b)
    BY <1>5, <1>7
  <2> QED
    BY <1>4, <1>7, <2>1 DEF Log!Below
<1> QED
  BY <1>5, <1>6, <1>7

\* A decided block stays decided when chains grow.
LEMMA DecidedStable == TypeOK /\ ChainsGrow => Decided \subseteq Decided'
<1> SUFFICES ASSUME TypeOK, ChainsGrow, NEW b \in Decided PROVE b \in Decided'
  OBVIOUS
<1>1. HasQuorum({v \in Node : Holds(v, b)})
  BY DEF Decided
<1>2. {v \in Node : Holds(v, b)} \subseteq {v \in Node : Holds(v, b)'}
  BY HoldsStable
<1>3. HasQuorum({v \in Node : Holds(v, b)'})
  BY <1>1, <1>2, QuorumMonotone
<1>4. PICK v \in Node : Holds(v, b)'
  BY <1>1, <1>2, QuorumsIntersect
<1>5. Len(b) \in 1..Len(Blocks'[v]) /\ b = Prefix(Blocks'[v], Len(b))
  BY <1>4 DEF Holds, Height
<1> QED
  BY <1>3, <1>5 DEF Decided, Height

\* The engine implements the decided log: what a quorum holds is on one chain and
\* is never undone.
THEOREM Engine_implements_log == Spec => ImplementsLog
<1>1. Init => Log!LogInit
  <2> SUFFICES ASSUME Init PROVE Decided = {}
    BY DEF Log!LogInit
  <2>1. \A n \in Node : Height(n) = 0
    BY DEF Init, Height
  <2> QED
    BY <2>1 DEF Decided
<1>2. TypeOK /\ Log!OneChain(Decided)' /\ [Next]_vars => [Log!Decide]_Decided
  BY NextGrows, DecidedStable DEF Log!Decide
<1> QED
  BY <1>1, <1>2, TypeCorrect, DecidedOnOneChain, PTL DEF Spec, ImplementsLog, Log!LogSpec
=============================================================================
