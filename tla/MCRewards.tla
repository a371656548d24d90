------------------------------ MODULE MCRewards ------------------------------
(***************************************************************************)
(* Two validators and two miners for module Rewards.  What miners earn by  *)
(* the index and what validators earn by their stakes are explored side by *)
(* side: the scope of a behaviour is chosen at its start.                  *)
(***************************************************************************)
EXTENDS Rewards, TLC

CONSTANTS v1, v2   \* the validators
CONSTANTS p1, p2   \* the miners, who delegate to the first of them

CONSTANT MaxIndexClock   \* bound of the clock in the index scope

MCSelfStake == [v \in Voter |-> IF v = v1 THEN 1 ELSE 2]

MCDelegation ==
  [v \in Voter |-> [a \in Payee |-> IF v = v1 /\ a \in {p1, p2} THEN 1 ELSE 0]]

MinerNames == Permutations(Provider)

VARIABLE scope

MCInit == RewardsInit /\ scope \in {"index", "stream"}

\* The miners' share, while the consensus set is empty and nobody claims.
IndexScopeStep ==
  /\ scope = "index"
  /\ IndexStep \/ RewardBlock(v1, {}) \/ (RewardTick /\ clock < MaxIndexClock)
  /\ UNCHANGED scope

\* The validators' share, while miners store nothing: proofs earn subsidies only.
StreamScopeStep ==
  /\ scope = "stream"
  /\ \/ \E v \in Voter, S \in SUBSET Voter : RewardBlock(v, S)
     \/ \E m \in Provider : EnterMiner(m) \/ ProveStorage(m)
     \/ \E a \in Payee : ClaimMiningRewards(a)
     \/ RewardTick
  /\ UNCHANGED scope

MCSpec == MCInit /\ [][IndexScopeStep \/ StreamScopeStep]_<<rewardVars, scope>>
=============================================================================
