------------------------------ MODULE Consensus ------------------------------
(***************************************************************************)
(* The proof-of-stake BFT engine of a Falari network: block production,    *)
(* block acceptance, prevotes and precommits, finality, proposer timeouts  *)
(* and block sync, on every node of the network at once.                   *)
(*                                                                         *)
(* Source: internal/chain/{block,consensus_engine,consensus_auto_vote,     *)
(* availability,block_producer,peers}.go.  The validator set and its       *)
(* stakes are constants here; module Staking changes them.                 *)
(*                                                                         *)
(* Data abstraction.  SHA-256 is taken to be injective, so the hash of a   *)
(* block is the whole chain that ends in it: a block is a non-empty        *)
(* sequence of entries, its height is its length, its PrevHash is its      *)
(* front.  Transactions, times, signatures and roots are left out.         *)
(*                                                                         *)
(* Delivery.  Blocks and votes are saved before they are broadcast, and    *)
(* what a node has saved it never forgets, so the messages in flight are   *)
(* what the nodes hold.  A message that is lost is one nobody ever takes;  *)
(* duplicates and reordering are the freedom to take any of them, at any   *)
(* time, more than once.                                                   *)
(***************************************************************************)
EXTENDS Naturals, Sequences, FiniteSets, FiniteSetsExt

CONSTANTS
  Node,                \* the nodes of the network, each with an owner account
  Power,               \* Power[n]: voting power of n's owner, 0 if not a validator
  Supply,              \* no owner stakes more than this
  Split,               \* nodes whose operator key is not their owner's key
  ManualVoters,        \* validators that also use `chainctl vote-block`
  Rank,                \* Rank[n]: place of n's owner in address order
  Seed(_, _),          \* Seed(chain, round): the election seed (SHA-256)
  HaltHeight,          \* HaltHeight[n]: n's UpgradePlan.HaltHeight, 0 if unset
  MaxConsensusRounds,  \* the last round of a height
  MaxHeight,           \* bound: blocks a chain may reach
  MaxTimeouts          \* bound: MaxTimeouts[n], timeouts n may take

ASSUME NodeAssumption ==
  /\ IsFiniteSet(Node)
  /\ Supply \in Nat
  /\ Power \in [Node -> 0..Supply]
  /\ Split \subseteq Node
  /\ ManualVoters \subseteq Node

ASSUME BoundAssumption ==
  /\ Rank \in [Node -> Nat]
  /\ HaltHeight \in [Node -> Nat]
  /\ MaxConsensusRounds \in Nat
  /\ MaxHeight \in Nat
  /\ MaxTimeouts \in [Node -> Nat]

VARIABLES
  Blocks,          \* Blocks[n]: n's chain, a sequence of entries
  Finality,        \* Finality[n][h]: the certificate n keeps with block h
  ConsensusVotes,  \* ConsensusVotes[n]: the consensus votes n has stored
  cs,              \* cs[n]: ConsensusHeight, -Round, -Phase and -Proposer
  Misses,          \* Misses[n][v]: turns n has recorded as missed by v
  todo             \* todo[n]: voting work n has started, in memory only

vars == <<Blocks, Finality, ConsensusVotes, cs, Misses, todo>>

-----------------------------------------------------------------------------
(***************************************************************************)
(* Types                                                                   *)
(***************************************************************************)
Rounds == 0..MaxConsensusRounds

Entry == [producer : Node, round : Rounds]

VoteTypes == {"prevote", "precommit"}

\* A vote's height and round are those of the block it names: a vote with
\* another round is rejected by validateConsensusVoteLocked.
Vote == [type : VoteTypes, block : Seq(Entry), validator : Node]

\* The votes of a certificate are BlockVotes; a certificate made from
\* precommits carries none.
Certificate == [final : BOOLEAN, votes : SUBSET Node]

NoProposer == "none"

ConsensusState ==
  [height : Nat, round : Rounds,
   phase : {"", "propose", "prevote", "precommit"},
   proposer : Node \cup {NoProposer}]

Task == [type : VoteTypes, block : Seq(Entry)]

-----------------------------------------------------------------------------
(***************************************************************************)
(* Voting power.  A set's power is the number of tokens its owners stake.  *)
(***************************************************************************)
Tokens == {t \in Node \X (1..Supply) : t[2] <= Power[t[1]]}

PowerOf(S) == Cardinality({t \in Tokens : t[1] \in S})

Validators == {n \in Node : Power[n] > 0}

totalVotingPower == PowerOf(Node)

\* Mutated: a third of the power instead of two thirds.
bftThreshold_oneThird(totalPower) ==
  IF totalPower = 0 THEN 0 ELSE totalPower \div 3 + 1

bftThreshold(totalPower) ==
  IF totalPower = 0 THEN 0 ELSE (2 * totalPower) \div 3 + 1

HasQuorum(S) ==
  totalVotingPower > 0 /\ PowerOf(S) >= bftThreshold(totalVotingPower)

\* A vote carries the operator's address, but power is looked up by owner.
validatorPowerForBlock(n) == IF n \in Split THEN 0 ELSE Power[n]

-----------------------------------------------------------------------------
(***************************************************************************)
(* Blocks and votes                                                        *)
(***************************************************************************)
Prefix(chain, h) == [i \in 1..h |-> chain[i]]

Height(n) == Len(Blocks[n])

Producer(block) == block[Len(block)].producer

Round(block) == block[Len(block)].round

\* n's block of that height is this very block.
Holds(n, block) ==
  Len(block) \in 1..Height(n) /\ Prefix(Blocks[n], Len(block)) = block

Voters(votes, type, block) ==
  {v \in Node : [type |-> type, block |-> block, validator |-> v] \in votes}

consensusVoteFinality(n, type, block) ==
  HasQuorum(Voters(ConsensusVotes[n], type, block))

-----------------------------------------------------------------------------
(***************************************************************************)
(* Proposer election: stake x availability, over owners in address order.  *)
(***************************************************************************)
Successes(chain, v) == Cardinality({i \in 1..Len(chain) : chain[i].producer = v})

availabilityScore(chain, missed, v) ==
  LET total == Successes(chain, v) + missed[v]
  IN  IF total = 0 THEN 10000 ELSE (Successes(chain, v) * 10000) \div total

effectivePower(chain, missed, v) ==
  (Power[v] * availabilityScore(chain, missed, v)) \div 10000

\* The effective power of a set of validators, as seen with this turn record.
ElectionWeight(chain, missed, S) ==
  MapThenSumSet(LAMBDA v : effectivePower(chain, missed, v), S)

\* v is the proposer of the block after chain, in that round.
selectProposer(chain, missed, round, v) ==
  LET before == {u \in Validators : Rank[u] < Rank[v]}
      total  == ElectionWeight(chain, missed, Validators)
  IN  /\ v \in Validators
      /\ total > 0
      /\ LET threshold == Seed(chain, round) % total
         IN  /\ ElectionWeight(chain, missed, before) <= threshold
             /\ threshold < ElectionWeight(chain, missed, before \cup {v})

-----------------------------------------------------------------------------
(***************************************************************************)
(* Initial state: genesis, an empty chain, no phase yet.                   *)
(***************************************************************************)
Init ==
  /\ Blocks = [n \in Node |-> <<>>]
  /\ Finality = [n \in Node |-> <<>>]
  /\ ConsensusVotes = [n \in Node |-> {}]
  /\ cs = [n \in Node |->
             [height |-> 0, round |-> 0, phase |-> "", proposer |-> NoProposer]]
  /\ Misses = [n \in Node |-> [v \in Node |-> 0]]
  /\ todo = [n \in Node |-> {}]

-----------------------------------------------------------------------------
(***************************************************************************)
(* Steps                                                                   *)
(***************************************************************************)
\* Mutated: the round is not reset.
finalizeConsensusForBlock_keepsRound(s, h) ==
  [height |-> h + 1, round |-> s.round, phase |-> "propose", proposer |-> s.proposer]

\* finalizeConsensusForBlockLocked, for a finalized block of height h.
finalizeConsensusForBlock(s, h) ==
  [height |-> h + 1, round |-> 0, phase |-> "propose", proposer |-> s.proposer]

\* The consensus state after a block was appended to the chain.
AfterBlock(s, block, cert) ==
  IF cert.final
  THEN finalizeConsensusForBlock(s, Len(block))
  ELSE [height |-> Len(block), round |-> Round(block),
        phase |-> "prevote", proposer |-> Producer(block)]

AppendBlock(n, block, cert) ==
  /\ Blocks' = [Blocks EXCEPT ![n] = block]
  /\ Finality' = [Finality EXCEPT ![n] = Append(@, cert)]
  /\ cs' = [cs EXCEPT ![n] = AfterBlock(@, block, cert)]
  /\ todo' = [todo EXCEPT ![n] = @ \cup {[type |-> "prevote", block |-> block]}]
  /\ UNCHANGED <<ConsensusVotes, Misses>>

\* blockFinalityLocked on the producer's own vote.
ProducerCertificate(n) ==
  LET votes == IF validatorPowerForBlock(n) > 0 THEN {n} ELSE {}
  IN  [final |-> HasQuorum(votes), votes |-> votes]

\* The local turn: n is a consensus validator, no upgrade halt, its election.
validateLocalProducerTurn(n) ==
  /\ n \in Validators
  /\ ~(HaltHeight[n] > 0 /\ Height(n) + 1 >= HaltHeight[n])
  /\ selectProposer(Blocks[n], Misses[n], cs[n].round, n)

\* ProduceBlock: append the next block in the round n is in, save, broadcast,
\* then start the local votes.
ProduceBlock(n) ==
  /\ Height(n) < MaxHeight
  /\ validateLocalProducerTurn(n)
  /\ AppendBlock(n, Append(Blocks[n], [producer |-> n, round |-> cs[n].round]),
                 ProducerCertificate(n))

\* validateBlockFinalityLocked: a certificate with votes must be canonical, one
\* without votes is taken as it is.
validateBlockFinality(cert) ==
  \/ cert.votes = {}
  \/ /\ \A v \in cert.votes : validatorPowerForBlock(v) > 0
     /\ cert.final = HasQuorum(cert.votes)

\* The proposer turn of a peer's block: its own round, this node's turn record.
validateBlockProducerTurn(n, block) ==
  selectProposer(Blocks[n], Misses[n], Round(block), Producer(block))

\* AcceptBlock: the next height, on top of the local tip, from its proposer.
AcceptBlock(n, block, cert) ==
  /\ Len(block) = Height(n) + 1
  /\ Prefix(block, Height(n)) = Blocks[n]
  /\ validateBlockProducerTurn(n, block)
  /\ validateBlockFinality(cert)
  /\ AppendBlock(n, block, cert)

\* A producer's broadcast reaches n (gossip or POST /p2p/blocks).
ReceiveBlock(n) ==
  \E p \in Node \ {n} : \E h \in 1..Height(p) :
    LET block == Prefix(Blocks[p], h)
    IN  /\ Producer(block) = p
        /\ AcceptBlock(n, block, ProducerCertificate(p))

\* SyncOnce: fetch a peer's block of the next height as the peer holds it now.
SyncFromPeer(n) ==
  \E p \in Node \ {n} :
    /\ Height(n) < Height(p)
    /\ AcceptBlock(n, Prefix(Blocks[p], Height(n) + 1),
                   Finality[p][Height(n) + 1])

-----------------------------------------------------------------------------

\* The checks a vote must pass: it names the local block of its height, its
\* voter has power, and it conflicts with no vote stored before.
validateConsensusVote(n, vote) ==
  /\ Holds(n, vote.block)
  /\ validatorPowerForBlock(vote.validator) > 0
  /\ \A w \in ConsensusVotes[n] :
       /\ w.type = vote.type
       /\ w.validator = vote.validator
       /\ Len(w.block) = Len(vote.block)
       => w.block = vote.block

\* Mutated: a quorum of prevotes starts nothing.
PrecommitWork_none(n, block) == {}

\* The work MaybeSubmitLocalConsensusPrecommit has to do on n: none when n has
\* given its precommit before, since a vote is stored once.
PrecommitWork(n, block) ==
  IF [type |-> "precommit", block |-> block, validator |-> n] \in ConsensusVotes[n]
  THEN {} ELSE {[type |-> "precommit", block |-> block]}

\* The consensus state after a stored vote.
AfterVote(s, block, prevoted, committed) ==
  IF committed
  THEN finalizeConsensusForBlock(s, Len(block))
  ELSE IF prevoted /\ s.height = Len(block) /\ s.round = Round(block)
       THEN [s EXCEPT !.phase = "precommit"]
       ELSE s

\* SubmitConsensusVote for a new vote; rest is the voting work left to n.
StoreVote(n, vote, rest) ==
  LET votes     == ConsensusVotes[n] \cup {vote}
      prevoted  == HasQuorum(Voters(votes, "prevote", vote.block))
      committed == /\ vote.type = "precommit"
                   /\ HasQuorum(Voters(votes, "precommit", vote.block))
  IN  /\ vote \notin ConsensusVotes[n]
      /\ ConsensusVotes' = [ConsensusVotes EXCEPT ![n] = votes]
      /\ Finality' =
           IF committed
           THEN [Finality EXCEPT ![n] =
                   [@ EXCEPT ![Len(vote.block)] = [final |-> TRUE, votes |-> {}]]]
           ELSE Finality
      /\ cs' = [cs EXCEPT ![n] = AfterVote(@, vote.block, prevoted, committed)]
      /\ todo' = [todo EXCEPT ![n] =
                    IF vote.type = "prevote" /\ prevoted
                    THEN rest \cup PrecommitWork(n, vote.block) ELSE rest]
      /\ UNCHANGED <<Blocks, Misses>>

\* What the peers of n have stored they have broadcast or passed on.
VotesOfPeers(n) == UNION {ConsensusVotes[p] : p \in Node \ {n}}

\* A vote of a peer reaches n.
ReceiveConsensusVote(n) ==
  \E vote \in VotesOfPeers(n) :
    /\ validateConsensusVote(n, vote)
    /\ StoreVote(n, vote, todo[n])

\* A prevote n already has comes in again by gossip: nothing is stored, but a
\* quorum starts the local precommit again.
ReceiveVoteAgain(n) ==
  \E vote \in VotesOfPeers(n) \cap ConsensusVotes[n] :
    /\ vote.type = "prevote"
    /\ ~(PrecommitWork(n, vote.block) \subseteq todo[n])
    /\ validateConsensusVote(n, vote)
    /\ consensusVoteFinality(n, "prevote", vote.block)
    /\ todo' = [todo EXCEPT ![n] = @ \cup PrecommitWork(n, vote.block)]
    /\ UNCHANGED <<Blocks, Finality, ConsensusVotes, cs, Misses>>

\* signLocalConsensusVote and SubmitConsensusVote.  A node that is no validator
\* signs nothing and the vote of a split operator is refused: the work ends there.
LocalVote(n, task, rest) ==
  LET vote == [type |-> task.type, block |-> task.block, validator |-> n]
  IN  \/ /\ n \in Validators
         /\ validateConsensusVote(n, vote)
         /\ StoreVote(n, vote, rest)
      \/ /\ \/ n \notin Validators
            \/ ~validateConsensusVote(n, vote)
         /\ todo' = [todo EXCEPT ![n] = rest]
         /\ UNCHANGED <<Blocks, Finality, ConsensusVotes, cs, Misses>>

\* SubmitLocalConsensusVotesForBlock: the prevote, which goes on to the
\* precommit when the prevotes have a quorum.
LocalPrevote(n) ==
  \E task \in todo[n] :
    task.type = "prevote" /\ LocalVote(n, task, todo[n] \ {task})

\* MaybeSubmitLocalConsensusPrecommit: only behind a quorum of prevotes.
LocalPrecommit(n) ==
  \E task \in todo[n] :
    /\ task.type = "precommit"
    /\ IF consensusVoteFinality(n, "prevote", task.block)
       THEN LocalVote(n, task, todo[n] \ {task})
       ELSE /\ todo' = [todo EXCEPT ![n] = @ \ {task}]
            /\ UNCHANGED <<Blocks, Finality, ConsensusVotes, cs, Misses>>

\* Mutated: the vote's block hash is not compared with the local block.
AcceptBlockVote_anyHash(n) ==
  \E v \in ManualVoters : \E h \in 1..Height(v) :
    /\ h <= Height(n)
    /\ validatorPowerForBlock(v) > 0
    /\ v \notin Finality[n][h].votes
    /\ LET votes == Finality[n][h].votes \cup {v}
       IN  Finality' = [Finality EXCEPT ![n] =
             [@ EXCEPT ![h] = [final |-> HasQuorum(votes), votes |-> votes]]]
    /\ UNCHANGED <<Blocks, ConsensusVotes, cs, Misses, todo>>

\* AcceptBlockVote: an operator signs the block its node holds and posts the
\* vote to n, which makes the certificate anew from the block votes.
AcceptBlockVote(n) ==
  \E v \in ManualVoters : \E h \in 1..Height(v) :
    /\ Holds(n, Prefix(Blocks[v], h))
    /\ validatorPowerForBlock(v) > 0
    /\ v \notin Finality[n][h].votes
    /\ LET votes == Finality[n][h].votes \cup {v}
       IN  Finality' = [Finality EXCEPT ![n] =
             [@ EXCEPT ![h] = [final |-> HasQuorum(votes), votes |-> votes]]]
    /\ UNCHANGED <<Blocks, ConsensusVotes, cs, Misses, todo>>

-----------------------------------------------------------------------------
\* Mutated: rounds do not wrap.
NextRound_noWrap(round) == round + 1

NextRound(round) == IF round + 1 > MaxConsensusRounds THEN 0 ELSE round + 1

\* recordProposerTurnLocked(v, false) in n's turn record.
RecordMiss(n, v) == [Misses[n] EXCEPT ![v] = @ + 1]

\* checkBlockTimeoutLocked, first branch: the engine is behind the chain.
CatchUpHeight(n) ==
  /\ cs[n].phase = "propose"
  /\ cs[n].height < Height(n) + 1
  /\ cs' = [cs EXCEPT ![n].height = Height(n) + 1, ![n].round = 0]
  /\ UNCHANGED <<Blocks, Finality, ConsensusVotes, Misses, todo>>

\* checkBlockTimeoutLocked, second branch: the round has lasted long enough, the
\* recorded proposer is charged with a missed turn and the next round begins.
ProposerTimeout(n) ==
  LET round  == NextRound(cs[n].round)
      missed == RecordMiss(n, cs[n].proposer)
      elected(v) == selectProposer(Blocks[n], missed, round, v)
  IN  /\ cs[n].phase = "propose"
      /\ cs[n].height = Height(n) + 1
      /\ cs[n].proposer # NoProposer
      /\ MapThenSumSet(LAMBDA v : Misses[n][v], Node) < MaxTimeouts[n]
      /\ Misses' = [Misses EXCEPT ![n] = missed]
      /\ \/ \E v \in Validators :
              /\ elected(v)
              /\ cs' = [cs EXCEPT ![n].round = round, ![n].proposer = v]
         \/ /\ \A v \in Validators : ~elected(v)
            /\ cs' = [cs EXCEPT ![n].round = round]
      /\ UNCHANGED <<Blocks, Finality, ConsensusVotes, todo>>

\* Mutated: a vote is broadcast before it is saved, and the tip with it.
Restart_unsaved(n) ==
  /\ Height(n) > 0
  /\ Blocks' = [Blocks EXCEPT ![n] = Prefix(@, Height(n) - 1)]
  /\ Finality' = [Finality EXCEPT ![n] = Prefix(@, Height(n) - 1)]
  /\ ConsensusVotes' = [ConsensusVotes EXCEPT ![n] = {}]
  /\ todo' = [todo EXCEPT ![n] = {}]
  /\ UNCHANGED <<cs, Misses>>

\* The process dies and starts again from its saved state: every save precedes
\* the broadcast it belongs to, only the voting work in memory is lost.  (What
\* CatchUpHeight writes is not saved by itself, but a restart then falls back to
\* a state CatchUpHeight can leave again.)
Restart(n) ==
  /\ todo' = [todo EXCEPT ![n] = {}]
  /\ UNCHANGED <<Blocks, Finality, ConsensusVotes, cs, Misses>>

Work(n) ==
  \/ ProduceBlock(n)
  \/ ReceiveBlock(n)
  \/ SyncFromPeer(n)
  \/ ReceiveConsensusVote(n)
  \/ LocalPrevote(n)
  \/ LocalPrecommit(n)
  \/ CatchUpHeight(n)

Next ==
  \E n \in Node :
    \/ Work(n)
    \/ ReceiveVoteAgain(n)
    \/ AcceptBlockVote(n)
    \/ ProposerTimeout(n)
    \/ Restart(n)

Spec == Init /\ [][Next]_vars

-----------------------------------------------------------------------------
(***************************************************************************)
(* Properties                                                              *)
(***************************************************************************)
\* Every variable has its type; a node keeps one certificate per block.
TypeOK ==
  /\ Blocks \in [Node -> Seq(Entry)]
  /\ Finality \in [Node -> Seq(Certificate)]
  /\ \A n \in Node : Len(Finality[n]) = Len(Blocks[n])
  /\ ConsensusVotes \in [Node -> SUBSET Vote]
  /\ cs \in [Node -> ConsensusState]
  /\ Misses \in [Node -> [Node -> Nat]]
  /\ todo \in [Node -> SUBSET Task]

AllVotes == UNION {ConsensusVotes[n] : n \in Node}

IsFinal(n, h) == Finality[n][h].final

\* Two finalized blocks, on whatever nodes and however each of them got there
\* (precommits, block votes, a certificate taken over in sync), lie on one chain:
\* the lower one is an ancestor of the higher one.
Agreement ==
  \A n, m \in Node : \A g \in 1..Height(n), h \in 1..Height(m) :
    g <= h /\ IsFinal(n, g) /\ IsFinal(m, h)
      => Prefix(Blocks[n], g) = Prefix(Blocks[m], g)

\* No crash, retry or redelivery makes a validator sign two votes of one type
\* for different blocks of one height, wherever the two votes are stored.
NoEquivocation ==
  \A v, w \in AllVotes :
    /\ v.type = w.type
    /\ v.validator = w.validator
    /\ Len(v.block) = Len(w.block)
    => v.block = w.block

\* A block is final somewhere only if validators with more than two thirds of the
\* power hold that block in their own chains.
FinalityCertified ==
  \A n \in Node : \A h \in 1..Height(n) :
    IsFinal(n, h) => HasQuorum({v \in Node : Holds(v, Prefix(Blocks[n], h))})

\* A precommit exists only if its validator saw a quorum of prevotes for it.
PrecommitJustified ==
  \A v \in AllVotes :
    v.type = "precommit" => consensusVoteFinality(v.validator, "prevote", v.block)

\* The engine never runs ahead of the chain, and when a late precommit throws it
\* back below the tip it is in round 0: the round the next production uses is
\* never left over from a timeout of another height.
EngineTracksChain ==
  \A n \in Node :
    /\ cs[n].height <= Height(n) + 1
    /\ cs[n].phase = "propose" /\ cs[n].height <= Height(n) => cs[n].round = 0

\* Without timeouts and crashes every height is finalized on every node.
EveryHeightFinalized ==
  \A n \in Node : \A h \in 1..MaxHeight :
    <>(Height(n) >= h /\ IsFinal(n, h))

\* The blocks that a quorum of the power holds.
Decided ==
  {b \in UNION {{Prefix(Blocks[n], h) : h \in 1..Height(n)} : n \in Node} :
     HasQuorum({v \in Node : Holds(v, b)})}

Log == INSTANCE FinalLog WITH decided <- Decided

\* The engine implements the log: the blocks a quorum holds, the only ones that
\* are ever final, lie on one chain, and no crash, timeout or fork undoes one.
ImplementsLog == Log!LogSpec

-----------------------------------------------------------------------------
(***************************************************************************)
(* The inductive invariant behind Agreement                                *)
(***************************************************************************)
\* A consensus vote is stored, anywhere, only behind its validator's own block.
VotesHeld ==
  \A n \in Node : \A v \in ConsensusVotes[n] : Holds(v.validator, v.block)

\* So is a block vote that a certificate names.
CertificatesHeld ==
  \A n \in Node : \A h \in 1..Height(n) : \A v \in Finality[n][h].votes :
    Holds(v, Prefix(Blocks[n], h))

\* Types, and the three facts that Agreement, NoEquivocation and
\* PrecommitJustified rest on.
IndInv ==
  /\ TypeOK
  /\ VotesHeld
  /\ CertificatesHeld
  /\ FinalityCertified
  /\ PrecommitJustified
=============================================================================
