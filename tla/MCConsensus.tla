----------------------------- MODULE MCConsensus -----------------------------
(***************************************************************************)
(* Small networks for module Consensus.  A behaviour is one of two kinds,  *)
(* chosen at its start: a network with timeouts, crashes, manual votes and *)
(* repeated votes, or one in which nothing of this happens.                *)
(***************************************************************************)
EXTENDS Consensus

CONSTANTS a, b, c, d   \* the owners, in address order

MCRank == [n \in Node |-> CASE n = a -> 1 [] n = b -> 2 [] n = c -> 3 [] n = d -> 4]

\* Equal stakes.
EqualPower == [n \in Node |-> 4]

\* One large validator: with either of the others it has a quorum.
UnequalPower == [n \in Node |-> IF n = a THEN 6 ELSE 4]

\* A seed that moves the turn on with every block and every round.
MCSeed(chain, round) == 4 * (Len(chain) + round)

NoHalt == [n \in Node |-> 0]

VARIABLE scope

mcVars == <<vars, scope>>

FaultyStep ==
  /\ scope = "faulty"
  /\ Next
  /\ UNCHANGED scope

SteadyStep ==
  /\ scope = "steady"
  /\ \E n \in Node : Work(n)
  /\ UNCHANGED scope

GenesisInit == Init /\ scope \in {"faulty", "steady"}

\* The tickers of every live node go on running, and peers are reached again and
\* again: this is required of steady networks only.
GenesisSpec ==
  /\ GenesisInit
  /\ [][FaultyStep \/ SteadyStep]_mcVars
  /\ \A n \in Node : WF_mcVars(scope = "steady" /\ Work(n) /\ UNCHANGED scope)

\* Where there are no timeouts, crashes or manual votes, every height is finalized on
\* every node.
SteadyHeightsFinalized == scope = "steady" => EveryHeightFinalized

\* A network in which height 1 is final everywhere: what Spec reaches when
\* nothing goes wrong before the second height.
FirstBlock == <<[producer |-> a, round |-> 0]>>

FirstVotes == [type : VoteTypes, block : {FirstBlock}, validator : Validators]

SecondHeightInit ==
  /\ Blocks = [n \in Node |-> FirstBlock]
  /\ Finality = [n \in Node |-> <<[final |-> TRUE, votes |-> {}]>>]
  /\ ConsensusVotes = [n \in Node |-> FirstVotes]
  /\ cs = [n \in Node |->
             [height |-> 2, round |-> 0, phase |-> "propose", proposer |-> a]]
  /\ Misses = [n \in Node |-> [v \in Node |-> 0]]
  /\ todo = [n \in Node |-> {}]
  /\ scope = "faulty"

SecondHeightSpec == SecondHeightInit /\ [][FaultyStep]_mcVars

OneTimeoutEach == [n \in Node |-> 1]

TwoTimeoutsEach == [n \in Node |-> 2]

=============================================================================
