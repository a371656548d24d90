------------------------------ MODULE DealEnd -------------------------------
(***************************************************************************)
(* What happens to a deal once it is made: miners are paid for proofs out  *)
(* of its escrow or its permanent fund, its owner changes access to it or  *)
(* terminates it, governance moderates it, miners delete it.               *)
(*                                                                         *)
(* Source: internal/chain/{storage_payments,storage_fee_pool,              *)
(* permanent_fund,lifecycle,state}.go.                                     *)
(***************************************************************************)
EXTENDS Deals

CONSTANTS
  Reward,           \* of a storage proof
  RepairReward      \* computeRepairReward of a shard

ASSUME RewardAssumption == {Reward, RepairReward} \subseteq Nat \ {0}

-----------------------------------------------------------------------------
\* An escrow accrues over the time from its start to the end of the deal.
finiteDealEscrowAccrued(x) ==
  LET start == IF x.StartAt = None THEN CreatedAt(x) ELSE x.StartAt
      duration == IF x.ExpiresAt > start THEN x.ExpiresAt - start ELSE x.Policy.Duration
  IN  IF now <= start THEN 0
      ELSE IF now - start >= duration THEN x.LockedFee
      ELSE (x.LockedFee * (now - start)) \div duration

finiteDealEscrowAvailable(x) == Minus(finiteDealEscrowAccrued(x), x.PaidFee)

\* What fees can pay for a deal: bounded by what its owner has locked in all.
spendFiniteStorageFee(i, amount) ==
  Least({amount, lockedStorage[Owner], finiteDealEscrowAvailable(intents[i]),
         remainingIntentEscrow(intents[i])})

spendPermanentFund(i, amount) ==
  LET fund == ensurePermanentFund(i, intents[i])
  IN  Least({amount, lockedStorage[Owner], IF fund.Closed THEN 0 ELSE fund.Balance})

fromFees(i, amount) ==
  IF isPermanentIntent(intents[i]) THEN spendPermanentFund(i, amount)
  ELSE spendFiniteStorageFee(i, amount)

\* The platform covers what a fund cannot pay, once the fund is old enough.
permanentFundSubsidy(i, shortfall) ==
  LET fund == ensurePermanentFund(i, intents[i])
  IN  IF /\ isPermanentIntent(intents[i]) /\ TakeoverTime > 0 /\ ~fund.Closed
         /\ now - fund.CreatedAt >= TakeoverTime
      THEN Least({shortfall, subsidyPool}) ELSE 0

\* payableStorageReward asks for the same amounts that paying then takes.
payableStorageReward(i, reward) ==
  fromFees(i, reward) + permanentFundSubsidy(i, reward - fromFees(i, reward))

\* Mutated: the tokens stay locked for their owner.
payReward_unlocked(i, m, source, reward) ==
  LET paid == fromFees(i, reward)
  IN  /\ intents' = [intents EXCEPT ![i].PaidFee = @ + paid]
      /\ feePool' = [feePool EXCEPT !.Paid = @ + paid]
      /\ vested' = [vested EXCEPT ![m][source] = @ + paid]
      /\ UNCHANGED <<lockedStorage, funds, subsidyPool>>

\* spendFiniteStorageFee, spendPermanentFund and the subsidy, vested to the miner.
payReward(i, m, source, reward) ==
  LET paid == fromFees(i, reward)
      subsidy == permanentFundSubsidy(i, reward - paid)
  IN  /\ lockedStorage' = [lockedStorage EXCEPT ![Owner] = @ - paid]
      /\ intents' = [intents EXCEPT ![i].PaidFee = @ + paid]
      /\ funds' = IF isPermanentIntent(intents[i]) /\ paid > 0
                  THEN [funds EXCEPT ![i] = [ensurePermanentFund(i, intents[i]) EXCEPT
                                               !.Balance = @ - paid, !.Paid = @ + paid]]
                  ELSE funds
      /\ feePool' = [feePool EXCEPT !.Paid = @ + paid]
      /\ subsidyPool' = subsidyPool - subsidy
      /\ vested' = [vested EXCEPT ![m][source] = @ + paid + subsidy]

intentAllowsStorageProof(x) == x.Status = "finalized" /\ x.StorageStatus = "active"

\* generateChallenges: active deals are challenged, at the miners of their receipts.
CreateChallenge(i, s) ==
  LET x == intents[i]
      c == storageChallengeForReceipt(i, s, x.Receipts[s], FALSE)
  IN  /\ Exists(i) /\ intentAllowsStorageProof(x)
      /\ x.Receipts[s] # None
      /\ ~ \E d \in challenges : d.Intent = i /\ d.Shard = s /\ ~d.Repair
      /\ challenges' = challenges \cup {c}
      /\ UNCHANGED <<accountVars, intents, funds, feePool, subsidyPool, used, reserved, repairTasks,
                     misses, deleteVars, blacklist, vested, storageRewards, late>>

\* clearPendingShardRepairs: a miner that proves something is back, so the repairs
\* waiting to replace it are cancelled.
clearPendingShardRepairs(m, tasks) ==
  LET cancelled == {t \in tasks : t.Old = m /\ t.Status = "pending"}
  IN  /\ repairTasks' = tasks \ cancelled
      /\ reserved' = [n \in Miner |-> Minus(reserved[n], Cardinality({t \in cancelled : t.Miner = n}))]
      /\ misses' = Restrict(misses, {k \in DOMAIN misses : k[3] # m})

\* Mutated: the repair stays open after its proof, and the challenge too.
SubmitProof_open(c) ==
  /\ c.Repair /\ now <= c.ExpiresAt
  /\ payReward(c.Intent, c.Miner, "repair", RepairReward)
  /\ UNCHANGED <<balance, nonce, now, shardVars, deleteVars, blacklist, storageRewards, late>>

\* completeRepairTaskAfterProof: the repairs the proof of c completes.
completeRepairTaskAfterProof(c) ==
  {t \in repairTasks : /\ c.Repair /\ t.Status = "proof_pending"
                       /\ t.Intent = c.Intent /\ t.Shard = c.Shard /\ t.Miner = c.Miner}

\* SubmitProof, once for each challenge, whatever became of the deal.  The proof of a
\* repaired shard is not paid by itself: it completes the repair, which is.
SubmitProof(c) ==
  LET repaired == completeRepairTaskAfterProof(c)
      payable == payableStorageReward(c.Intent, Reward)
  IN  /\ ~c.Proved /\ now <= c.ExpiresAt
      /\ challenges' = (challenges \ {c}) \cup {[c EXCEPT !.Proved = TRUE]}
      /\ clearPendingShardRepairs(c.Miner,
           (repairTasks \ repaired) \cup {[t EXCEPT !.Status = "completed"] : t \in repaired})
      /\ IF c.Repair
         THEN /\ payReward(c.Intent, c.Miner, "repair", IF repaired = {} THEN 0 ELSE RepairReward)
              /\ UNCHANGED storageRewards
         ELSE /\ payReward(c.Intent, c.Miner, "proof", payable)
              /\ storageRewards' = [storageRewards EXCEPT ![c.Miner] = @ + payable]
      /\ UNCHANGED <<balance, nonce, now, used, deleteVars, blacklist, late>>

-----------------------------------------------------------------------------
\* The deals that need the same bytes on the same miner.
activeShardReferences(i, s) ==
  {j \in IntentID \ {i} :
     /\ Exists(j)
     /\ LET y == expireGovernanceAction(intents[j])
        IN  /\ y.Status = "finalized" /\ y.StorageStatus = "active" /\ y.AccessStatus # "blocked"
            /\ \E t \in Shards(j) : HashOf[j][t] = HashOf[i][s] /\ y.Receipts[t] = intents[i].Receipts[s]}

\* ensureDeleteTasks: one task for each receipt, made or brought up to date; without
\* receipts the intent is deleted at once.
ensureDeleteTasks(i, x) ==
  LET stored == {s \in Shards(i) : x.Receipts[s] # None}
      old(s) == {t \in deleteTasks : t.Intent = i /\ t.Hash = HashOf[i][s] /\ t.Miner = x.Receipts[s]}
      task(s) == [Intent |-> i, Hash |-> HashOf[i][s], Miner |-> x.Receipts[s],
                  Pending |-> \A t \in old(s) : t.Pending,
                  Retain |-> activeShardReferences(i, s) # {}]
  IN  /\ deleteTasks' = (deleteTasks \ UNION {old(s) : s \in stored}) \cup {task(s) : s \in stored}
      /\ intents' = [j \in IntentID |->
           IF j = i THEN [x EXCEPT !.DeleteTaskCount = Cardinality(stored),
                                   !.StorageStatus = IF stored = {} THEN "deleted" ELSE @,
                                   !.Status = IF stored = {} THEN "deleted" ELSE @]
           ELSE IF Exists(j) /\ stored # {} THEN expireGovernanceAction(intents[j])
           ELSE intents[j]]

\* closePermanentFund: what is left is burned.
closedFund(i, x) ==
  LET fund == ensurePermanentFund(i, x)
      burn == IF fund.Closed THEN 0 ELSE Least({fund.Balance, lockedStorage[Owner]})
  IN  [Burn |-> burn,
       Fund |-> IF fund.Closed THEN fund
                ELSE [fund EXCEPT !.Balance = 0, !.Burned = @ + burn, !.Closed = TRUE]]

\* TerminateDeal: the rest of the escrow is burned, not returned.
TerminateDeal(i) ==
  LET x == expireGovernanceAction(intents[i])
      permanent == isPermanentIntent(x)
      burn == IF permanent THEN closedFund(i, x).Burn
              ELSE Least({remainingIntentEscrow(x), lockedStorage[Owner]})
      y == [x EXCEPT !.StorageStatus = "terminating", !.AccessStatus = "blocked",
                     !.BurnedFee = @ + burn]
  IN  /\ Exists(i) /\ x.StorageStatus # "deleted"
      /\ consumeAccountNonce(Owner)
      /\ reserved' = releaseUncommitted(i)
      /\ lockedStorage' = [lockedStorage EXCEPT ![Owner] = @ - burn]
      /\ recordStorageFeeBurn(burn)
      /\ funds' = IF permanent THEN [funds EXCEPT ![i] = closedFund(i, x).Fund] ELSE funds
      /\ IF x.Policy.DeletionPolicy = "retain"
         THEN intents' = [intents EXCEPT ![i] = y] /\ UNCHANGED deleteTasks
         ELSE ensureDeleteTasks(i, y)
      /\ UNCHANGED <<balance, now, subsidyPool, used, repairTasks, challenges, misses, deleteReceipts,
                     blacklist, vested, storageRewards, late>>

SetAccessPolicy(i, status) ==
  /\ Exists(i)
  /\ consumeAccountNonce(Owner)
  /\ intents' = [intents EXCEPT ![i] =
       [expireGovernanceAction(@) EXCEPT !.AccessStatus = status]]
  /\ UNCHANGED <<now, moneyVars, shardVars, deleteVars, blacklist, late>>

-----------------------------------------------------------------------------
hashesOf(i) == {HashOf[i][s] : s \in {t \in Shards(i) : t[1] >= 0}}

\* Mutated: an entry that is there already is kept, with its end.
addBlacklistForIntent_kept(i, expires) ==
  blacklist' = [h \in Hash |-> IF h \in hashesOf(i) /\ blacklist[h] = None THEN expires ELSE blacklist[h]]

addBlacklistForIntent(i, expires) ==
  blacklist' = [h \in Hash |-> IF h \in hashesOf(i) THEN expires ELSE blacklist[h]]

removeBlacklistForIntent(i) ==
  blacklist' = [h \in Hash |-> IF h \in hashesOf(i) THEN None ELSE blacklist[h]]

Freeze(i, until) ==
  /\ Exists(i) /\ until > now
  /\ intents' = [intents EXCEPT ![i] = [@ EXCEPT !.AccessStatus = "suspended",
                   !.ModerationStatus = "frozen", !.ModerationExpires = until]]
  /\ addBlacklistForIntent(i, until)
  /\ UNCHANGED <<accountVars, funds, feePool, subsidyPool, shardVars, deleteVars, vested,
                 storageRewards, late>>

\* A block that does not preserve the storage burns a permanent fund and deletes;
\* the escrow of a finite deal is left where it is.
Block(i, preserve) ==
  LET x == [expireGovernanceAction(intents[i]) EXCEPT !.AccessStatus = "blocked",
              !.ModerationStatus = "blocked", !.ModerationExpires = 0]
      burn == IF isPermanentIntent(x) THEN closedFund(i, x).Burn ELSE 0
  IN  /\ Exists(i)
      /\ addBlacklistForIntent(i, 0)
      /\ IF preserve
         THEN /\ intents' = [intents EXCEPT ![i] = x]
              /\ UNCHANGED <<lockedStorage, feePool, funds, deleteTasks>>
         ELSE /\ ensureDeleteTasks(i, [x EXCEPT !.StorageStatus = "terminating", !.BurnedFee = @ + burn])
              /\ lockedStorage' = [lockedStorage EXCEPT ![Owner] = @ - burn]
              /\ recordStorageFeeBurn(burn)
              /\ funds' = IF isPermanentIntent(x)
                          THEN [funds EXCEPT ![i] = closedFund(i, x).Fund] ELSE funds
      /\ UNCHANGED <<balance, nonce, now, subsidyPool, shardVars, deleteReceipts, vested,
                     storageRewards, late>>

LegalHold(i) ==
  /\ Exists(i)
  /\ intents' = [intents EXCEPT ![i] = [@ EXCEPT !.AccessStatus = "blocked",
       !.ModerationStatus = "legal_hold", !.StorageStatus = "active", !.ModerationExpires = 0]]
  /\ addBlacklistForIntent(i, 0)
  /\ UNCHANGED <<accountVars, funds, feePool, subsidyPool, shardVars, deleteVars, vested,
                 storageRewards, late>>

Appeal(i) ==
  /\ Exists(i)
  /\ intents' = [intents EXCEPT ![i] = [expireGovernanceAction(@) EXCEPT
       !.ModerationStatus = "appealed", !.ModerationExpires = 0]]
  /\ removeBlacklistForIntent(i)
  /\ UNCHANGED <<accountVars, funds, feePool, subsidyPool, shardVars, deleteVars, vested,
                 storageRewards, late>>

\* IsShardBlacklisted: entries without an end, and those whose end has not passed.
IsShardBlacklisted(h) == blacklist[h] # None /\ (blacklist[h] = 0 \/ blacklist[h] >= now)

-----------------------------------------------------------------------------
\* Mutated: the intent is deleted with the first receipt.
SubmitDeleteReceipt_first(t) ==
  LET i == t.Intent
      key == <<i, t.Hash, t.Miner>>
      x == expireGovernanceAction(intents[i])
      fresh == IF key \in deleteReceipts THEN 0 ELSE 1
  IN  /\ x.StorageStatus \in {"terminating", "deleted"}
      /\ \E s \in Shards(i) : HashOf[i][s] = t.Hash /\ x.Receipts[s] = t.Miner
      /\ t.Pending
      /\ deleteReceipts' = deleteReceipts \cup {key}
      /\ used' = [used EXCEPT ![t.Miner] = Minus(@, fresh)]
      /\ deleteTasks' = (deleteTasks \ {t}) \cup {[t EXCEPT !.Pending = fresh = 0]}
      /\ intents' = [intents EXCEPT ![i] = [x EXCEPT !.DeleteReceiptCount = @ + fresh,
               !.StorageStatus = "deleted", !.Status = "deleted"]]
      /\ UNCHANGED <<accountVars, funds, feePool, subsidyPool, reserved, repairTasks, challenges,
                     misses, blacklist, vested, storageRewards, late>>

\* SubmitDeleteReceipt: the miner has deleted the bytes a task names; after the last
\* task the intent is deleted.  A receipt that exists already changes no count.
SubmitDeleteReceipt(t) ==
  LET i == t.Intent
      key == <<i, t.Hash, t.Miner>>
      x == expireGovernanceAction(intents[i])
      fresh == IF key \in deleteReceipts THEN 0 ELSE 1
      done == x.DeleteTaskCount > 0 /\ x.DeleteReceiptCount + fresh >= x.DeleteTaskCount
  IN  /\ x.StorageStatus \in {"terminating", "deleted"}
      /\ \E s \in Shards(i) : HashOf[i][s] = t.Hash /\ x.Receipts[s] = t.Miner
      /\ t.Pending
      /\ deleteReceipts' = deleteReceipts \cup {key}
      /\ used' = [used EXCEPT ![t.Miner] = Minus(@, fresh)]
      /\ deleteTasks' = (deleteTasks \ {t}) \cup {[t EXCEPT !.Pending = fresh = 0]}
      /\ intents' = [intents EXCEPT ![i] = [x EXCEPT !.DeleteReceiptCount = @ + fresh,
               !.StorageStatus = IF done THEN "deleted" ELSE @, !.Status = IF done THEN "deleted" ELSE @]]
      /\ UNCHANGED <<accountVars, funds, feePool, subsidyPool, reserved, repairTasks, challenges,
                     misses, blacklist, vested, storageRewards, late>>

-----------------------------------------------------------------------------
Live == {i \in IntentID : Exists(i)}

\* Every token is somewhere: with its owner, locked, burned, or vested to a miner -
\* unless a file was finalized whose escrow had been returned, burned or paid out.
SupplyAccounted ==
  /\ AccountsTypeOK /\ DealsTypeOK
  /\ ~late => Tokens + feePool.Burned + feePool.Paid = GenesisSupply

\* What deals still owe (settlement, burning, payments) is locked - with the same
\* exception.
LocksCoverEscrows ==
  ~late => lockedStorage[Owner] >= SumFunctionOnSet([i \in Live |-> remainingIntentEscrow(intents[i])], Live)

\* A permanent fund that is open holds no more than is left of its deal's escrow.
FundWithinEscrow ==
  ~late => \A i \in Live : funds[i] # None /\ ~funds[i].Closed =>
                             funds[i].Balance = remainingIntentEscrow(intents[i])

\* The three counts of what a deal still owes agree: its owner's lock, its escrow and,
\* for a permanent deal, its fund.
EscrowBacked == LocksCoverEscrows /\ FundWithinEscrow

\* A repair is paid once.
RepairPaidOnce ==
  \A m \in Miner : vested[m].repair <=
    RepairReward * Cardinality({t \in repairTasks : t.Miner = m /\ t.Status = "completed"})

\* A miner's statistics promise exactly what was vested to it for storage proofs
\* (the platform's subsidy included).
RewardsPaid == \A m \in Miner : storageRewards[m] = vested[m].proof

\* The bytes a miner counts as used are those of the shards it holds a receipt for and
\* has not deleted.
UsedMatches ==
  \A m \in Miner :
    used[m] = Cardinality({p \in UNION {{i} \X Shards(i) : i \in Live} :
                             /\ intents[p[1]].Receipts[p[2]] = m
                             /\ <<p[1], HashOf[p[1]][p[2]], m>> \notin deleteReceipts})

\* While governance blocks or holds a deal, its shards are on the blacklist; while it
\* freezes it, until the freeze is over - whatever the owner does meanwhile.  Of two
\* deals that have content in common the last action on either decides.
ModerationHolds ==
  \A i \in Live : (\A j \in Live \ {i} : hashesOf(j) \cap hashesOf(i) = {}) =>
    \/ intents[i].ModerationStatus \in {"none", "appealed"}
    \/ intents[i].ModerationStatus = "frozen" /\ now > intents[i].ModerationExpires
    \/ \A h \in hashesOf(i) : IsShardBlacklisted(h)

\* A deal is only deleted when no miner holds a shard of it any more - unless more of
\* it was uploaded after its end.
DeletedEverywhere ==
  ~late => \A i \in Live : intents[i].Status = "deleted" =>
    \A s \in Shards(i) : intents[i].Receipts[s] # None =>
      <<i, HashOf[i][s], intents[i].Receipts[s]>> \in deleteReceipts
=============================================================================
