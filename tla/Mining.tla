------------------------------- MODULE Mining -------------------------------
(***************************************************************************)
(* Storage miners: registration with stake and bonus, capacity changes,    *)
(* proof epochs with their slashes, and exit.  A miner and a validator may *)
(* be one account, and then share its LockedStake: this module composes    *)
(* the miners with the validators of module Staking.                       *)
(*                                                                         *)
(* Source: internal/chain/{state,tx_replay,validator_rotation,config}.go.  *)
(*                                                                         *)
(* Data abstraction.  Capacity is counted in TiB.  Deals are reduced to    *)
(* which miners hold shards; an epoch asks such a miner for one proof, and *)
(* retrieval obligations are met.  Storage rewards and repair tasks are    *)
(* left out.                                                               *)
(***************************************************************************)
EXTENDS Staking

CONSTANTS
  Miner,                     \* the accounts that ever register as miners
  Capacity,                  \* the capacities requests ask for
  MinerStake,                \* the stakes they offer
  StakePerTiB,
  StoragePool,               \* RewardPools.StorageRemaining at genesis
  RegistrationBonusAmount,
  MaxBonusAddresses,
  BonusDeadlineSeconds,
  ActivationWindowSeconds,
  MinBonusProofCount,
  MinBonusSuccessRateBPS,
  MinerDegradeThreshold,
  CapacityAdjustCooldownSeconds,
  EpochDuration,             \* DurationSeconds of an epoch
  SlashPerMissedProof,
  MinConsensusValidators,
  MaxConsensusValidators,
  MaxEpochs                  \* bound: epochs that are started

ASSUME MiningAssumption ==
  /\ Miner \subseteq Address
  /\ Capacity \subseteq Nat \ {0} /\ MinerStake \subseteq Nat
  /\ StakePerTiB \in Nat /\ StoragePool \in Nat
  /\ RegistrationBonusAmount \in Nat \ {0} /\ MaxBonusAddresses \in Nat \ {0}
  /\ BonusDeadlineSeconds \in Nat \ {0} /\ ActivationWindowSeconds \in Nat \ {0}
  /\ MinBonusProofCount \in Nat \ {0} /\ MinBonusSuccessRateBPS \in 0..10000
  /\ MinerDegradeThreshold \in Nat \ {0}
  /\ CapacityAdjustCooldownSeconds \in Nat \ {0}
  /\ EpochDuration \in Nat /\ SlashPerMissedProof \in Nat
  /\ MinConsensusValidators \in Nat \ {0}
  /\ MaxConsensusValidators \in Nat \ {0} /\ MaxEpochs \in Nat

VARIABLE mn   \* the State of the node, as far as miners go

mvars == <<st, doubleVotes, now, mn>>

-----------------------------------------------------------------------------
MinerStatus == {"none", "active", "degraded", "jailed", "exiting", "exited"}

\* A time that may not be set yet.
Time == Nat \cup {-1}

MinerStats ==
  [Status : MinerStatus, Stake : Nat, CapacityBytes : Nat, RegisteredAt : Time,
   ExitedAt : Nat, LastAdjust : Time, ProofSuccess : Nat, ProofFailure : Nat,
   ConsecutiveFailures : Nat, BonusReleased : BOOLEAN, BonusExpired : BOOLEAN]

MiningState ==
  [Miners : [Address -> MinerStats], LockedBonus : [Address -> Nat],
   StorageRemaining : Nat, BonusGrantedCount : Nat,
   shards : SUBSET Address,       \* the miners finalized deals name
   deadline : Time,               \* of the running epoch
   challenged : SUBSET Address,   \* who owes it a proof
   epochs : Nat]

NoMiner ==
  [Status |-> "none", Stake |-> 0, CapacityBytes |-> 0, RegisteredAt |-> -1,
   ExitedAt |-> 0, LastAdjust |-> -1, ProofSuccess |-> 0, ProofFailure |-> 0,
   ConsecutiveFailures |-> 0, BonusReleased |-> FALSE, BonusExpired |-> FALSE]

MInit ==
  /\ Init
  /\ mn = [Miners |-> [a \in Address |-> NoMiner], LockedBonus |-> Zero,
           StorageRemaining |-> StoragePool, BonusGrantedCount |-> 0,
           shards |-> {}, deadline |-> -1, challenged |-> {}, epochs |-> 0]

RequiredStakeForCapacity(c) == c * StakePerTiB

\* Unsigned subtraction, in words wider than any amount in reach.
Wrapped(x, y) == (x - y) % 2^20

-----------------------------------------------------------------------------
(***************************************************************************)
(* Registration and capacity                                               *)
(***************************************************************************)
BonusAvailable(m) ==
  /\ m.BonusGrantedCount < MaxBonusAddresses
  /\ m.StorageRemaining >= RegistrationBonusAmount

\* The pool pays the bonus.
granted(m) ==
  IF BonusAvailable(m)
  THEN [m EXCEPT !.StorageRemaining = @ - RegistrationBonusAmount,
                 !.BonusGrantedCount = @ + 1]
  ELSE m

BonusOf(m) == IF BonusAvailable(m) THEN RegistrationBonusAmount ELSE 0

\* The bonus of a registration in a block.
ReplayBonus(m, a) ==
  IF m.Miners[a].BonusReleased \/ m.Miners[a].BonusExpired THEN 0 ELSE BonusOf(m)

\* Mutated: the number of bonuses is not capped.
RegisterMiner_noCap(a) ==
  \E c \in Capacity, x \in MinerStake :
    /\ mn.Miners[a].Status = "none"
    /\ st.Balance[a] >= x
    /\ mn' = [mn EXCEPT
         !.StorageRemaining = @ - RegistrationBonusAmount,
         !.BonusGrantedCount = @ + 1,
         !.LockedBonus[a] = @ + RegistrationBonusAmount,
         !.Miners[a] = [NoMiner EXCEPT !.Status = "active", !.Stake = x,
                                       !.CapacityBytes = c, !.RegisteredAt = now]]
    /\ st' = [st EXCEPT !.Balance[a] = @ - x, !.LockedStake[a] = @ + x]
    /\ UNCHANGED <<doubleVotes, now>>

\* RegisterMiner: once per address.  The pool has paid the bonus when the stake is
\* found too small for the capacity; the refused request changes nothing else.
RegisterMiner(a) ==
  \E c \in Capacity, x \in MinerStake :
    LET locked == st.LockedStake[a] + x + mn.LockedBonus[a] + BonusOf(mn)
    IN  /\ mn.Miners[a].Status = "none"
        /\ st.Balance[a] >= x
        /\ \/ /\ locked >= RequiredStakeForCapacity(c)
              /\ mn' = [granted(mn) EXCEPT
                   !.LockedBonus[a] = @ + BonusOf(mn),
                   !.Miners[a] = [NoMiner EXCEPT !.Status = "active", !.Stake = x,
                                                 !.CapacityBytes = c,
                                                 !.RegisteredAt = now]]
              /\ st' = [st EXCEPT !.Balance[a] = @ - x, !.LockedStake[a] = @ + x]
           \/ /\ locked < RequiredStakeForCapacity(c)
              /\ mn' = granted(mn)
              /\ UNCHANGED st
        /\ UNCHANGED <<doubleVotes, now>>

\* AdjustCapacity upwards: the shortfall is locked, the miner's Stake is not told.
raised(s, a, c) ==
  LET short == Minus(RequiredStakeForCapacity(c), mn.LockedBonus[a] + s.LockedStake[a])
  IN  [s EXCEPT !.Balance[a] = @ - short, !.LockedStake[a] = @ + short]

\* AdjustCapacity downwards: the stake that is refunded.
Refund(s, a, c) ==
  LET locked == mn.LockedBonus[a] + s.LockedStake[a]
      needed == RequiredStakeForCapacity(c)
      excess == Min({RequiredStakeForCapacity(mn.Miners[a].CapacityBytes) - needed,
                     s.LockedStake[a]})
  IN  IF locked - excess < needed
      THEN Min({Wrapped(locked, needed), s.LockedStake[a]})
      ELSE excess

lowered(s, a, c) ==
  LET refund == Refund(s, a, c)
  IN  IF refund = 0 THEN s
      ELSE [s EXCEPT
              !.LockedStake[a] = @ - refund,
              !.UnbondingBalance[a] = @ + refund,
              !.UnbondingEntries =
                 PutEntry(@, [delegator |-> a, validator |-> a,
                              kind |-> "capacity_adjust", at |-> now, seq |-> 0,
                              amount |-> refund])]

\* AdjustCapacity writes the account copy it read before the nonce was used up.
AdjustCapacity(a) ==
  \E c \in Capacity :
    LET old == mn.Miners[a].CapacityBytes
    IN  /\ mn.Miners[a].Status \in {"active", "degraded"}
        /\ \/ mn.Miners[a].LastAdjust = -1
           \/ now - mn.Miners[a].LastAdjust >= CapacityAdjustCooldownSeconds
        /\ \/ /\ c > old
              /\ st.Balance[a] >= Minus(RequiredStakeForCapacity(c),
                                        mn.LockedBonus[a] + st.LockedStake[a])
              /\ st' = raised(st, a, c)
           \/ /\ c < old
              /\ st' = lowered(st, a, c)
           \/ c = old /\ UNCHANGED st
        /\ mn' = [mn EXCEPT !.Miners[a].CapacityBytes = c, !.Miners[a].LastAdjust = now]
        /\ UNCHANGED <<doubleVotes, now>>

\* DeregisterMiner, also of an account that never was a miner: it becomes one that
\* is exiting.
DeregisterMiner(a) ==
  /\ st.Nonce[a] < MaxNonce
  /\ mn.Miners[a].Status # "exited"
  /\ st' = [st EXCEPT !.Nonce[a] = @ + 1]
  /\ mn' = IF mn.Miners[a].Status = "exiting" THEN mn
           ELSE [mn EXCEPT !.Miners[a].Status = "exiting",
                           !.Miners[a].ExitedAt = now + UnbondingPeriodSeconds]
  /\ UNCHANGED <<doubleVotes, now>>

-----------------------------------------------------------------------------
(***************************************************************************)
(* Proof epochs                                                            *)
(***************************************************************************)
Registered(m) == {a \in Miner : m.Miners[a].Status \in {"active", "degraded"}}

\* registeredMinerLocked: whose receipts and proofs are accepted.
registeredMiner(a) == a \in Registered(mn) /\ mn.Miners[a].Stake > 0

\* A deal that a miner has signed receipts for is finalized.
FinalizeDeal(a) ==
  /\ registeredMiner(a)
  /\ a \notin mn.shards
  /\ mn' = [mn EXCEPT !.shards = @ \cup {a}]
  /\ UNCHANGED <<st, doubleVotes, now>>

\* StartEpoch: some of the miners that finalized deals name are asked for proofs,
\* whatever they are by now.  One epoch at a time, which is a bound of the model.
StartEpoch ==
  /\ mn.deadline = -1
  /\ mn.epochs < MaxEpochs
  /\ \E S \in SUBSET mn.shards :
       /\ S # {}
       /\ mn' = [mn EXCEPT !.challenged = S, !.epochs = @ + 1,
                           !.deadline = now + EpochDuration]
  /\ UNCHANGED <<st, doubleVotes, now>>

BonusPending(m, a) ==
  ~m.Miners[a].BonusReleased /\ ~m.Miners[a].BonusExpired /\ m.LockedBonus[a] > 0

PastDeadline(m, a) ==
  m.Miners[a].RegisteredAt >= 0 /\ now - m.Miners[a].RegisteredAt > BonusDeadlineSeconds

\* The bonus goes back to the pool and its place is free again.
bonusReturned(m, a) ==
  [m EXCEPT !.StorageRemaining = @ + m.LockedBonus[a],
            !.LockedBonus[a] = 0,
            !.BonusGrantedCount = Minus(@, 1)]

\* The miner after a proof, and whether it has earned its bonus.
proved(a) ==
  [mn.Miners[a] EXCEPT !.Status = "active", !.ProofSuccess = @ + 1, !.ConsecutiveFailures = 0]

meetsBonusTerms(info) ==
  LET good == info.ProofSuccess
  IN  /\ good >= MinBonusProofCount
      /\ (good * 10000) \div (good + info.ProofFailure) >= MinBonusSuccessRateBPS

\* SubmitProof: the first proof of a challenge.  It may settle the bonus.
SubmitProof(a) ==
  LET m     == [mn EXCEPT !.challenged = @ \ {a}, !.Miners[a] = proved(a)]
      meets == meetsBonusTerms(proved(a))
  IN  /\ a \in mn.challenged
      /\ now <= mn.deadline
      /\ registeredMiner(a)
      /\ \/ /\ BonusPending(mn, a) /\ PastDeadline(mn, a)
            /\ mn' = [bonusReturned(m, a) EXCEPT !.Miners[a].BonusExpired = TRUE]
            /\ UNCHANGED st
         \/ /\ BonusPending(mn, a) /\ ~PastDeadline(mn, a) /\ meets
            /\ mn' = [m EXCEPT !.LockedBonus[a] = 0, !.Miners[a].BonusReleased = TRUE]
            /\ st' = [st EXCEPT !.Balance[a] = @ + mn.LockedBonus[a]]
         \/ /\ ~BonusPending(mn, a) \/ (~PastDeadline(mn, a) /\ ~meets)
            /\ mn' = m
            /\ UNCHANGED st
      /\ UNCHANGED <<doubleVotes, now>>

\* The status after one more failure.
Demoted(status, failures) ==
  LET next == IF status = "active" /\ failures >= MinerDegradeThreshold
              THEN "degraded" ELSE status
  IN  IF next = "degraded" /\ failures >= 2 * MinerDegradeThreshold
      THEN "jailed" ELSE next

\* What a missed proof costs: the bonus first, then all the account has locked.
SlashFromBonus(a) == Min({SlashPerMissedProof, mn.LockedBonus[a]})

SlashFromStake(a) ==
  Min({SlashPerMissedProof - SlashFromBonus(a), st.LockedStake[a]})

\* The miner after a missed proof; its Stake becomes the account's LockedStake.
afterMiss(a) ==
  LET m        == mn.Miners[a]
      failures == m.ConsecutiveFailures + 1
      locked   == st.LockedStake[a] - SlashFromStake(a)
      depleted == /\ mn.LockedBonus[a] = SlashFromBonus(a)
                  /\ locked = 0
                  /\ SlashFromBonus(a) + SlashFromStake(a) > 0
  IN  [m EXCEPT !.ProofFailure = @ + 1,
                !.ConsecutiveFailures = failures,
                !.Stake = locked,
                !.Status = IF depleted THEN "exiting" ELSE Demoted(@, failures),
                !.ExitedAt = IF depleted THEN mn.deadline + UnbondingPeriodSeconds ELSE @]

\* rotateValidatorsLocked: as many active validators as there may be, fewer when
\* some are less available than they should be.  Which ones is any choice, as power
\* is weighed with availability.
Rotations(s) ==
  LET active == {a \in Address : s.Validators[a].Status = "active"}
      least  == Min({MinConsensusValidators, MaxConsensusValidators, Cardinality(active)})
  IN  IF active = {} THEN {s.ConsensusValidators}
      ELSE {S \in SUBSET active : Cardinality(S) \in least..MaxConsensusValidators}

\* finalizeEpochLocked: every miner that owes a proof is charged, whatever its
\* status has become, and the validator set is chosen again.
FinalizeEpoch ==
  LET missed == mn.challenged
      fines  == [a \in Address |->
                   IF a \in missed THEN SlashFromBonus(a) + SlashFromStake(a) ELSE 0]
  IN  /\ mn.deadline >= 0
      /\ mn' = [mn EXCEPT
           !.deadline = -1,
           !.challenged = {},
           !.LockedBonus = [a \in Address |->
              IF a \in missed THEN @[a] - SlashFromBonus(a) ELSE @[a]],
           !.Miners = [a \in Address |-> IF a \in missed THEN afterMiss(a) ELSE @[a]]]
      /\ LET s == [st EXCEPT
                     !.LockedStake = [a \in Address |->
                        IF a \in missed THEN @[a] - SlashFromStake(a) ELSE @[a]],
                     !.PermanentFund = @ + Total(fines)]
         IN  \E S \in Rotations(s) : st' = [s EXCEPT !.ConsensusValidators = S]
      /\ UNCHANGED <<doubleVotes, now>>

-----------------------------------------------------------------------------
(***************************************************************************)
(* Block housekeeping, with miners                                         *)
(***************************************************************************)
\* expireInactiveMinersLocked: no proof within the activation window.
Inactive(m) ==
  {a \in Registered(m) :
     /\ m.Miners[a].ProofSuccess = 0
     /\ ~m.Miners[a].BonusReleased /\ ~m.Miners[a].BonusExpired
     /\ m.Miners[a].RegisteredAt >= 0
     /\ now - m.Miners[a].RegisteredAt > ActivationWindowSeconds}

\* expireMinerBonusesLocked: the bonus was not earned in time.
Overdue(m) == {a \in Miner : BonusPending(m, a) /\ PastDeadline(m, a)}

\* finalizeExitingMinersLocked: the time of leaving has come.
Leaving(m) ==
  {a \in Miner : m.Miners[a].Status = "exiting" /\ now >= m.Miners[a].ExitedAt}

\* The bonuses of S go back to the pool.
bonusesReturned(m, S) ==
  LET held == {a \in S : m.LockedBonus[a] > 0}
  IN  [m EXCEPT
         !.StorageRemaining = @ + SumFunctionOnSet(m.LockedBonus, held),
         !.LockedBonus = [a \in Address |-> IF a \in S THEN 0 ELSE @[a]],
         !.BonusGrantedCount = Minus(@, Cardinality(held))]

expireInactiveMiners(m) ==
  [bonusesReturned(m, Inactive(m)) EXCEPT
     !.Miners = [a \in Address |->
        IF a \in Inactive(m)
        THEN [@[a] EXCEPT !.BonusExpired = TRUE, !.Status = "exiting",
                          !.ExitedAt = now + UnbondingPeriodSeconds]
        ELSE @[a]]]

expireMinerBonuses(m) ==
  [bonusesReturned(m, Overdue(m)) EXCEPT
     !.Miners = [a \in Address |->
        IF a \in Overdue(m) THEN [@[a] EXCEPT !.BonusExpired = TRUE] ELSE @[a]]]

\* Mutated: the bonus of a leaving miner is paid back and kept.
finalizeExitingMiners_keepsBonus(m) ==
  [m EXCEPT
     !.StorageRemaining = @ + SumFunctionOnSet(m.LockedBonus, Leaving(m)),
     !.Miners = [a \in Address |->
        IF a \in Leaving(m) THEN [@[a] EXCEPT !.Status = "exited", !.Stake = 0]
        ELSE @[a]]]

finalizeExitingMiners(m) ==
  [bonusesReturned(m, Leaving(m)) EXCEPT
     !.Miners = [a \in Address |->
        IF a \in Leaving(m) THEN [@[a] EXCEPT !.Status = "exited", !.Stake = 0]
        ELSE @[a]]]

\* What leaving miners get back, as far as the account has it.
minerStakeReturned(s, m) ==
  LET release(a) == IF a \in Leaving(m)
                    THEN Min({m.Miners[a].Stake, s.LockedStake[a]}) ELSE 0
      entries == {[delegator |-> a, validator |-> a, kind |-> "miner", at |-> now,
                   seq |-> 0, amount |-> release(a)] :
                  a \in {b \in Address : release(b) > 0}}
  IN  [s EXCEPT
         !.LockedStake = [a \in Address |-> @[a] - release(a)],
         !.UnbondingBalance = [a \in Address |-> @[a] + release(a)],
         !.UnbondingEntries = {e \in @ : \A f \in entries :
                                 [e EXCEPT !.amount = f.amount] # f} \cup entries]

\* applyMinerRegistrationLocked asks that the miner is not on its way out; one that
\* is registered gets the bonus again.
canReplayRegisterMiner(b, a, c, x) ==
  /\ b.mn.Miners[a].Status \in {"none", "active", "degraded"}
  /\ b.st.Balance[a] >= Minus(x, b.mn.Miners[a].Stake)
  /\ b.st.LockedStake[a] + Minus(x, b.mn.Miners[a].Stake) + b.mn.LockedBonus[a]
       + ReplayBonus(b.mn, a) >= RequiredStakeForCapacity(c)

minerRegistered(b, a, c, x) ==
  LET old  == b.mn.Miners[a]
      more == Minus(x, old.Stake)
      info == [old EXCEPT !.Status = "active", !.Stake = x, !.CapacityBytes = c,
                          !.RegisteredAt = IF @ = -1 THEN now ELSE @]
  IN  [st |-> [b.st EXCEPT !.Balance[a] = @ - more, !.LockedStake[a] = @ + more],
       mn |-> [(IF ReplayBonus(b.mn, a) > 0 THEN granted(b.mn) ELSE b.mn) EXCEPT
                 !.LockedBonus[a] = @ + ReplayBonus(b.mn, a), !.Miners[a] = info]]

\* The end of housekeeping in a block, once inactive miners and bonuses have expired:
\* validators, miners, and then what has matured.
Housekept(m) ==
  LET s == minerStakeReturned(finalizeExitingValidators(st), m)
  IN  [st |-> processMaturedUnbondingEntries(s), mn |-> finalizeExitingMiners(m)]

\* The registrations a block may hold after the housekeeping h.
Replayable(h) ==
  {r \in Miner \X Capacity \X MinerStake : canReplayRegisterMiner(h, r[1], r[2], r[3])}

\* A block: housekeeping, then no transaction or the registration of a miner.  What
\* miners ask for otherwise is replayed as it was executed.
MinerBlock(p) ==
  /\ p \in consensusValidators(st)
  /\ \E active \in {expireInactiveMiners(mn)} :
       \E m \in {expireMinerBonuses(active)} :
         \E h \in {Housekept(m)} :
           \E b \in {h} \cup {minerRegistered(h, r[1], r[2], r[3]) : r \in Replayable(h)} :
             /\ st' = [b.st EXCEPT !.Validators[p].Status = "active"]
             /\ mn' = b.mn
  /\ UNCHANGED <<doubleVotes, now>>

MinerStep(a) ==
  \/ RegisterMiner(a)
  \/ AdjustCapacity(a)
  \/ DeregisterMiner(a)
  \/ FinalizeDeal(a)
  \/ SubmitProof(a)

MNext ==
  \/ \E a \in Miner : MinerStep(a)
  \/ StartEpoch
  \/ FinalizeEpoch
  \/ \E a \in Owner :
       \/ MinerBlock(a)
       \/ RegisterValidator(a) /\ UNCHANGED mn
       \/ DeregisterValidator(a) /\ UNCHANGED mn
  \/ Tick /\ UNCHANGED mn

MSpec == MInit /\ [][MNext]_mvars

-----------------------------------------------------------------------------
(***************************************************************************)
(* Properties                                                              *)
(***************************************************************************)
\* Every variable has its type: no amount, no pool and no count goes below zero.
MTypeOK == TypeOK /\ mn \in MiningState

\* Bonuses, slashes and exits never make tokens: no unsigned amount or count is carried
\* below zero, and what accounts, entries, bonuses, the fund and the storage pool hold
\* is no more than there was at genesis.
MNoMinting ==
  /\ MTypeOK
  /\ Total(st.Balance) + Total(st.LockedStake) + Total([a \in Address |-> Owed(a)])
       + st.PermanentFund + Total(mn.LockedBonus) + mn.StorageRemaining
       <= Total(GenesisBalance) + StoragePool

\* A bonus takes up a place as long as it is held and for good once it is paid, so
\* no more than MaxBonusAddresses miners ever hold or keep one.
BonusWithinCap ==
  LET holders == {a \in Miner : mn.LockedBonus[a] > 0 \/ mn.Miners[a].BonusReleased}
  IN  /\ Cardinality(holders) <= mn.BonusGrantedCount
      /\ mn.BonusGrantedCount <= MaxBonusAddresses
=============================================================================
