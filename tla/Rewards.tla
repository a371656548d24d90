------------------------------ MODULE Rewards -------------------------------
(***************************************************************************)
(* The emission of tokens.  Every block releases a fixed amount from each  *)
(* of four pools.  Validators and their delegators are paid into daily     *)
(* buckets that vest over VestingDays.  Miners are paid through a global   *)
(* reward index: the index grows by the share of one unit of weight, a     *)
(* miner is credited with its weight times the growth since it was last    *)
(* credited, and is paid at its next proof.  So whatever raises a weight   *)
(* must credit the miner first.                                            *)
(*                                                                         *)
(* Source: internal/chain/{token_release,mining_vesting,miner_weight,      *)
(* storage_reward_index,state,tx_replay}.go, internal/reward/types.go.     *)
(*                                                                         *)
(* Data abstraction.  Validators have constant stakes; which of them are   *)
(* in the consensus set is any choice at each block.  The scores behind a  *)
(* miner's weight allow any weight up to the bytes it stores; counts of    *)
(* missed proofs are left to module Mining, so a miss may lower the status *)
(* at any time.  Registration bonuses and slashes (module Mining) and what *)
(* deals pay (module Deals) are left out.                                  *)
(***************************************************************************)
EXTENDS Integers, FiniteSets, FiniteSetsExt, Functions

CONSTANTS
  Payee,                     \* all accounts
  Voter,                     \* the validators among them
  Provider,                  \* the miners among them
  Unset,                     \* no address
  SelfStake,                 \* [Voter -> Nat]
  Delegation,                \* [Voter -> [Payee -> Nat]]
  FoundationAddress, RetrievalAddress,
  StorageInitial, ValidatorInitial, FoundationInitial, RetrievalInitial,
  PermanentFundCap,
  StorageRewardPerBlock, ValidatorRewardPerBlock,
  FoundationRewardPerBlock, RetrievalRewardPerBlock,
  PermanentFundInjectionBPS, BlockProductionRewardBPS, CommissionBPS,
  Scale,                     \* storageRewardIndexScale
  Word,                      \* 2^64: products of uint64 are taken modulo Word
  DaySeconds, VestingDays,
  RecomputeInterval,
  MaxSubsidy,                \* bound: what the fund pays for one proof
  MaxUsedBytes,              \* bound: bytes stored by a miner
  MaxReleased,               \* bound: no block once so many tokens were released
  FirstClock, MaxClock       \* bounds of the clock

ASSUME RewardsAssumption ==
  /\ IsFiniteSet(Payee) /\ Voter \subseteq Payee /\ Provider \subseteq Payee
  /\ Unset \notin Payee
  /\ {FoundationAddress, RetrievalAddress} \subseteq Payee \cup {Unset}
  /\ SelfStake \in [Voter -> Nat \ {0}] /\ Delegation \in [Voter -> [Payee -> Nat]]
  /\ {StorageInitial, ValidatorInitial, FoundationInitial, RetrievalInitial,
      PermanentFundCap, MaxSubsidy, MaxUsedBytes, MaxReleased} \subseteq Nat
  /\ {StorageRewardPerBlock, ValidatorRewardPerBlock, FoundationRewardPerBlock,
      RetrievalRewardPerBlock, Word, DaySeconds, VestingDays, RecomputeInterval}
        \subseteq Nat \ {0}
  /\ {PermanentFundInjectionBPS, BlockProductionRewardBPS, CommissionBPS}
        \subseteq 0..10000
  \* A release always moves the index: in the code Scale is 10^18.
  /\ Scale \in Nat \ {0} /\ Scale >= Cardinality(Provider) * MaxUsedBytes
  /\ {FirstClock, MaxClock} \subseteq Nat
  /\ DaySeconds <= FirstClock /\ FirstClock <= MaxClock

VARIABLES
  rw,       \* the State of the node, as far as rewards go
  clock

rewardVars == <<rw, clock>>

-----------------------------------------------------------------------------
\* The starts of the days of a run.
Day == {d \in DaySeconds..MaxClock : d % DaySeconds = 0}

\* The sum of f over its domain.
SumOf(f) == SumFunctionOnSet(f, DOMAIN f)

\* Subtraction that stops at zero.
Less(x, y) == IF x >= y THEN x - y ELSE 0

EarnerStatus == {"none", "active", "degraded", "jailed", "exiting"}

Earner ==
  [Status : EarnerStatus, UsedBytes : 0..MaxUsedBytes, EffectiveWeight : 0..MaxUsedBytes,
   StorageRewardIndex : Nat, StorageRewardAccrued : Nat]

\* unpaid is a history variable: what was released to the index and is not vested yet.
RewardState ==
  [Storage : Nat, Validator : Nat, Foundation : Nat, Retrieval : Nat, Fund : Nat,
   TokensReleased : Nat, Balance : [Payee -> Nat], Pending : [Payee -> Nat],
   Bucket : [Payee -> [Day -> [Total : Nat, Released : Nat]]],
   Index : Nat, Remainder : Nat, Miners : [Provider -> Earner],
   LastRecompute : Nat, unpaid : Nat]

NoEarner == [Status |-> "none", UsedBytes |-> 0, EffectiveWeight |-> 0,
             StorageRewardIndex |-> 0, StorageRewardAccrued |-> 0]

\* A bucket that is not there.
NoBucket == [Total |-> 0, Released |-> 0]

RewardsInit ==
  /\ rw = [Storage |-> StorageInitial, Validator |-> ValidatorInitial,
           Foundation |-> FoundationInitial, Retrieval |-> RetrievalInitial,
           Fund |-> 0, TokensReleased |-> 0,
           Balance |-> [a \in Payee |-> 0], Pending |-> [a \in Payee |-> 0],
           Bucket |-> [a \in Payee |-> [d \in Day |-> NoBucket]],
           Index |-> 0, Remainder |-> 0,
           Miners |-> [m \in Provider |-> NoEarner],
           LastRecompute |-> 0, unpaid |-> 0]
  /\ clock = FirstClock

-----------------------------------------------------------------------------
(***************************************************************************)
(* Vesting                                                                 *)
(***************************************************************************)
miningRewardVestingDayStart(t) == t - (t % DaySeconds)

\* vestMiningRewardLocked, of every account at once.
vestMiningReward(s, amounts) ==
  LET day == miningRewardVestingDayStart(clock)
  IN  [s EXCEPT
         !.Bucket = [a \in Payee |-> [s.Bucket[a] EXCEPT ![day].Total = @ + amounts[a]]],
         !.Pending = [a \in Payee |-> s.Pending[a] + amounts[a]]]

\* An amount for one account.
Only(a, x) == [b \in Payee |-> IF b = a THEN x ELSE 0]

\* miningRewardBucketReleasable
Releasable(b, day) ==
  LET days   == Min({(clock - day) \div DaySeconds, VestingDays})
      target == IF days = VestingDays THEN b.Total ELSE (b.Total * days) \div VestingDays
  IN  IF clock <= day THEN 0 ELSE Less(target, b.Released)

\* One bucket of a pays out what it can.  An emptied bucket is removed.
bucketReleased(day, a, s) ==
  LET b       == s.Bucket[a][day]
      release == Min({Releasable(b, day), s.Pending[a]})
      left    == [b EXCEPT !.Released = @ + release]
  IN  [s EXCEPT !.Pending[a] = @ - release,
                !.Balance[a] = @ + release,
                !.Bucket[a][day] = IF left.Released >= left.Total THEN NoBucket ELSE left]

\* The orders in which the buckets of an account may come: they are kept in a map.
DayOrder == Bijection(1..Cardinality(Day), Day)

\* ClaimMiningRewards
ClaimMiningRewards(a) ==
  \E order \in DayOrder :
    LET paid[k \in 0..Cardinality(Day)] ==
          IF k = 0 THEN rw ELSE bucketReleased(order[k], a, paid[k - 1])
    IN  /\ rw' = paid[Cardinality(Day)]
        /\ UNCHANGED clock

-----------------------------------------------------------------------------
(***************************************************************************)
(* The reward index of miners                                              *)
(***************************************************************************)
storageRewardWeight(e) ==
  CASE e.Status \in {"none", "exiting", "jailed"} -> 0
    [] e.Status = "active" /\ e.EffectiveWeight = 0 -> e.UsedBytes
    [] OTHER -> e.EffectiveWeight

\* The weight that shares a release.
TotalWeight(s) ==
  SumOf([m \in Provider |-> storageRewardWeight(s.Miners[m])])

unsettledStorageReward(s, e) ==
  (Less(s.Index, e.StorageRewardIndex) * storageRewardWeight(e)) \div Scale

accrued(s, e) ==
  [e EXCEPT !.StorageRewardAccrued = @ + unsettledStorageReward(s, e),
            !.StorageRewardIndex = s.Index]

accrueStorageRewardForMiner(s, m) == [s EXCEPT !.Miners[m] = accrued(s, @)]

settleStorageRewardForMiner(s, m) ==
  LET t      == accrueStorageRewardForMiner(s, m)
      amount == t.Miners[m].StorageRewardAccrued
  IN  [vestMiningReward(t, Only(m, amount)) EXCEPT
         !.Miners[m].StorageRewardAccrued = 0,
         !.unpaid = @ - amount]

IsRegistered(m) == rw.Miners[m].Status \in {"active", "degraded"}

\* RegisterMiner, and its replay, which also takes a miner that is degraded.
EnterMiner(m) ==
  /\ \/ /\ rw.Miners[m].Status = "none"
        /\ rw' = [rw EXCEPT !.Miners[m].Status = "active",
                            !.Miners[m].StorageRewardIndex = rw.Index]
     \/ /\ IsRegistered(m)
        /\ rw' = [accrueStorageRewardForMiner(rw, m) EXCEPT !.Miners[m].Status = "active"]
  /\ UNCHANGED clock

\* DeregisterMiner: what was earned so far is credited, and is paid only if the
\* miner could still prove, which it cannot.
LeaveMiner(m) ==
  /\ rw.Miners[m].Status \in EarnerStatus \ {"none"}
  /\ rw' = [accrueStorageRewardForMiner(rw, m) EXCEPT !.Miners[m].Status = "exiting"]
  /\ UNCHANGED clock

\* A receipt in BatchCommit: a new shard, or one taken over from an old miner, which
\* is not credited before its bytes go.
BatchCommitReceipt(m) ==
  /\ IsRegistered(m)
  /\ rw.Miners[m].UsedBytes < MaxUsedBytes
  /\ LET s == [accrueStorageRewardForMiner(rw, m) EXCEPT !.Miners[m].UsedBytes = @ + 1]
     IN  \/ rw' = s
         \/ \E o \in Provider \ {m} :
              /\ rw.Miners[o].UsedBytes > 0
              /\ rw' = [s EXCEPT !.Miners[o].UsedBytes = @ - 1]
  /\ UNCHANGED clock

\* submitDeleteReceiptLocked: the bytes of a deleted shard.
DeleteReceipt(m) ==
  /\ IsRegistered(m)
  /\ rw.Miners[m].UsedBytes > 0
  /\ rw' = [rw EXCEPT !.Miners[m].UsedBytes = @ - 1]
  /\ UNCHANGED clock

\* Mutated: the miner is restored before it is paid.
proofSettled_late(m) ==
  settleStorageRewardForMiner([rw EXCEPT !.Miners[m].Status = "active"], m)

\* The first proof of a challenge: the reward is settled at the weight the miner had,
\* and only then is a degraded miner active again.
proofSettled(m) ==
  [settleStorageRewardForMiner(rw, m) EXCEPT !.Miners[m].Status = "active"]

\* SubmitProof: the fund may add a subsidy for a permanent deal.
ProveStorage(m) ==
  /\ IsRegistered(m)
  /\ \E x \in 0..Min({MaxSubsidy, rw.Fund}) :
       rw' = [vestMiningReward(proofSettled(m), Only(m, x)) EXCEPT !.Fund = @ - x]
  /\ UNCHANGED clock

\* What a missed proof may make of a status.
Lowered(status) ==
  CASE status = "active"   -> {"degraded", "jailed", "exiting"}
    [] status = "degraded" -> {"jailed", "exiting"}
    [] OTHER               -> {}

\* checkDHTObligationsLocked credits those whose announcements are stale, but for
\* those on their way out.
checkDHTObligations(s, stale) ==
  [s EXCEPT !.Miners = [p \in Provider |->
     IF p \in stale /\ s.Miners[p].Status # "exiting"
     THEN accrued(s, s.Miners[p]) ELSE s.Miners[p]]]

\* FinalizeEpoch, with a status that falls or none: that miner is not credited before.
EpochEnds ==
  \E stale \in SUBSET {m \in Provider : rw.Miners[m].Status \in EarnerStatus \ {"none"}} :
    /\ \/ rw' = checkDHTObligations(rw, stale)
       \/ \E m \in Provider : \E new \in Lowered(rw.Miners[m].Status) :
            rw' = checkDHTObligations([rw EXCEPT !.Miners[m].Status = new], stale)
    /\ UNCHANGED clock

\* computeMinerEffectiveWeightLocked: the weights the scores allow.
EffectiveWeights(e) ==
  IF e.Status \in {"active", "degraded"} THEN 0..e.UsedBytes ELSE {0}

\* recomputeMinerScoresOnTickLocked, when it is due.
RecomputeAllMinerWeights(s) ==
  {[s EXCEPT !.Miners =
       [m \in Provider |-> [accrued(s, s.Miners[m]) EXCEPT !.EffectiveWeight = w[m]]],
             !.LastRecompute = clock] :
   w \in {f \in [Provider -> 0..MaxUsedBytes] :
            \A m \in Provider : f[m] \in EffectiveWeights(s.Miners[m])}}

RecomputeDue(s) == s.LastRecompute = 0 \/ clock - s.LastRecompute >= RecomputeInterval

-----------------------------------------------------------------------------
(***************************************************************************)
(* The releases of a block                                                 *)
(***************************************************************************)
permanentFundInjectionAmount(s, gross) ==
  Min({(gross * PermanentFundInjectionBPS) \div 10000, Less(PermanentFundCap, s.Fund)})

Delegators(v) == {a \in Payee : Delegation[v][a] > 0}
DelegatedStake(v) == SumOf(Delegation[v])
VoterPower(v) == SelfStake[v] + DelegatedStake(v)

\* distributeValidatorRewardLocked: commission and own share first, then a share for
\* every delegator; the last one in the order of the map, tail, takes what is left.
distributeValidatorReward(v, amount, tail) ==
  LET own  == Min({(amount * CommissionBPS) \div 10000
                     + (amount * SelfStake[v]) \div VoterPower(v), amount})
      rest == amount - own
      share(a) == (rest * Delegation[v][a]) \div DelegatedStake(v)
  IN  [a \in Payee |->
         (IF a = v THEN own + (IF Delegators(v) = {} THEN rest ELSE 0) ELSE 0)
           + (IF a \notin Delegators(v) THEN 0
              ELSE IF a = tail THEN rest - SumOf([b \in Delegators(v) \ {tail} |-> share(b)])
              ELSE share(a))]

\* The share of a validator in the consensus set S, computed in 64 bits.
ShareOf(v, S, amount) ==
  ((amount * VoterPower(v)) % Word) \div SumOf([u \in S |-> VoterPower(u)])

\* Mutated: what the division leaves is in no pool.
distributeValidatorPoolRewards_dropsRest(s, S, amount, tail) ==
  vestMiningReward(s, [a \in Payee |-> SumOf([v \in S |->
    distributeValidatorReward(v, ShareOf(v, S, amount), tail[v])[a]])])

\* distributeValidatorPoolRewardsLocked: what is not distributed returns to the pool.
distributeValidatorPoolRewards(s, S, amount, tail) ==
  LET distributed == SumOf([v \in S |-> ShareOf(v, S, amount)])
      paid(a) == SumOf([v \in S |->
                   distributeValidatorReward(v, ShareOf(v, S, amount), tail[v])[a]])
  IN  [vestMiningReward(s, [a \in Payee |-> paid(a)]) EXCEPT
         !.Validator = @ + (amount - distributed)]

\* releaseValidatorPerBlockLocked: nothing without somebody to pay.
releaseValidatorPerBlock(s, producer, S, tail) ==
  LET gross   == Min({ValidatorRewardPerBlock, s.Validator})
      fund    == permanentFundInjectionAmount(s, gross)
      payout  == gross - fund
      direct  == (payout * BlockProductionRewardBPS) \div 10000
  IN  IF s.Validator = 0 \/ S = {} THEN s
      ELSE distributeValidatorPoolRewards(
             [s EXCEPT !.Validator = @ - gross, !.Fund = @ + fund,
                       !.TokensReleased = @ + gross,
                       !.Balance[producer] = @ + direct],
             S, payout - direct, tail)

\* releaseStoragePerBlockLocked: a release too small to move the index is kept in the
\* remainder and not taken from the pool.
releaseStoragePerBlock(s) ==
  LET gross     == Min({StorageRewardPerBlock, s.Storage})
      fund      == permanentFundInjectionAmount(s, gross)
      numerator == (gross - fund) * Scale + s.Remainder
      weight    == TotalWeight(s)
  IN  IF s.Storage = 0 \/ weight = 0 THEN s
      ELSE IF numerator < weight THEN [s EXCEPT !.Remainder = numerator]
      ELSE [s EXCEPT !.Index = @ + (numerator \div weight),
                     !.Remainder = numerator % weight,
                     !.Storage = @ - gross, !.Fund = @ + fund,
                     !.TokensReleased = @ + gross,
                     !.unpaid = @ + (gross - fund)]

releaseFoundationPerBlock(s) ==
  LET amount == Min({FoundationRewardPerBlock, s.Foundation})
  IN  IF FoundationAddress = Unset THEN s
      ELSE [s EXCEPT !.Foundation = @ - amount, !.TokensReleased = @ + amount,
                     !.Balance[FoundationAddress] = @ + amount]

releaseRetrievalPerBlock(s) ==
  LET amount == Min({RetrievalRewardPerBlock, s.Retrieval})
  IN  IF RetrievalAddress = Unset THEN s
      ELSE [s EXCEPT !.Retrieval = @ - amount, !.TokensReleased = @ + amount,
                     !.Balance[RetrievalAddress] = @ + amount]

\* The end of a block, produced or accepted: the weights when they are due, then the
\* releases in their order.
RewardBlock(producer, S) ==
  \E s \in (IF RecomputeDue(rw) THEN RecomputeAllMinerWeights(rw) ELSE {rw}),
     tail \in [S -> Payee] :
    /\ rw.TokensReleased < MaxReleased
    /\ \A v \in S : IF Delegators(v) = {} THEN tail[v] = v ELSE tail[v] \in Delegators(v)
    /\ \E v \in {releaseValidatorPerBlock(s, producer, S, tail)} :
         \E t \in {releaseStoragePerBlock(v)} :
           rw' = releaseRetrievalPerBlock(releaseFoundationPerBlock(t))
    /\ UNCHANGED clock

RewardTick ==
  /\ clock < MaxClock
  /\ clock' = clock + 1
  /\ UNCHANGED rw

\* What miners and epochs do to the index.
IndexStep ==
  \/ \E m \in Provider :
       \/ EnterMiner(m)
       \/ LeaveMiner(m)
       \/ BatchCommitReceipt(m)
       \/ DeleteReceipt(m)
       \/ ProveStorage(m)
  \/ EpochEnds

RewardsNext ==
  \/ IndexStep
  \/ \E v \in Voter, S \in SUBSET Voter : RewardBlock(v, S)
  \/ \E a \in Payee : ClaimMiningRewards(a)
  \/ RewardTick

RewardsSpec == RewardsInit /\ [][RewardsNext]_rewardVars

-----------------------------------------------------------------------------
(***************************************************************************)
(* Properties                                                              *)
(***************************************************************************)
\* Every variable has its type: no pool, balance or bucket goes below zero.
RewardsTypeOK ==
  /\ rw \in RewardState
  /\ clock \in FirstClock..MaxClock

\* What an account is told it will get is what its buckets hold, through claims on any
\* day of their vesting: nothing is stranded and no claim is cut short.
PendingMatchesBuckets ==
  \A a \in Payee :
    rw.Pending[a] = SumOf([d \in Day |-> rw.Bucket[a][d].Total - rw.Bucket[a][d].Released])

\* Every token that leaves a pool is with an account, in its buckets, in the fund or
\* released to the index, whatever divisions round and 64-bit products lose; and what
\* an account is told it has in its buckets is there.
EmissionAccounted ==
  /\ RewardsTypeOK
  /\ PendingMatchesBuckets
  /\ rw.Storage + rw.Validator + rw.Foundation + rw.Retrieval + rw.Fund + rw.unpaid
       + SumOf(rw.Balance) + SumOf(rw.Pending)
       = StorageInitial + ValidatorInitial + FoundationInitial + RetrievalInitial

\* The credit of all miners, booked or still to be computed from the index, never
\* exceeds what was released to the index, however weights and statuses changed.
StorageRewardsBacked ==
  SumOf([m \in Provider |->
           rw.Miners[m].StorageRewardAccrued + unsettledStorageReward(rw, rw.Miners[m])])
    <= rw.unpaid
=============================================================================
