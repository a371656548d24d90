------------------------------- MODULE Deals --------------------------------
(***************************************************************************)
(* Storage deals on one node: an intent locks a fee and reserves space,    *)
(* miners' receipts commit its shards, finalizing makes it a deal and      *)
(* splits the fee, and settlement, renewal, termination, moderation and    *)
(* deletion end it.                                                        *)
(*                                                                         *)
(* Source: internal/chain/{state,storage_assignment,storage_fee_pool,      *)
(* storage_payments,permanent_fund,renewal,lifecycle}.go.                  *)
(*                                                                         *)
(* Data abstraction.  A shard is <<segment, index>>, of size 1; segment    *)
(* numbers below 0 are the parity of a repair pool.  A batch has one       *)
(* receipt (a larger one is validated and stored receipt by receipt).      *)
(* Requests are signed by the account (agents are in AgentKey).  Events,   *)
(* the audit log and texts are left out.  Every miner stays active: their  *)
(* states are in Mining.                                                   *)
(***************************************************************************)
EXTENDS Accounts

CONSTANTS
  IntentID, Miner, Hash,
  Layout,           \* [IntentID -> [Roots, Pools, Data, Total]]
  HashOf,           \* [IntentID -> [shards -> Hash]]
  Policies,         \* [IntentID -> set of storage policies]
  Owner,            \* the user of every intent
  Retrieval, Foundation,
  Capacity,         \* bytes of each miner
  Fee, RenewPrice,  \* quotes
  ShareBPS, Whole,  \* defaultStorage{Burn,Retrieval,Foundation}BPS of 10000
  UploadTime, Grace, FreezeTime, TakeoverTime,
  SubsidyPool       \* RewardPools.PermanentFundRemaining at the start

ASSUME DealAssumption ==
  /\ Owner \in Client /\ {Retrieval, Foundation} \subseteq Account \ Client
  /\ \A x \in {Capacity, Fee, RenewPrice, Whole, Grace, FreezeTime} : x \in Nat \ {0}
  /\ ShareBPS \in Nat /\ 4 * ShareBPS <= Whole   \* the burned one counts twice in an intent
  /\ UploadTime \in Nat /\ TakeoverTime \in Nat /\ SubsidyPool \in Nat

VARIABLES
  intents, funds, feePool, subsidyPool,
  used, reserved,   \* UsedBytes and ReservedBytes of the miners
  repairTasks, challenges,
  misses,           \* PendingShardRepairs: proofs missed in a row
  deleteTasks, deleteReceipts, blacklist,
  vested, storageRewards, \* what miners were given, and what their statistics say
  late              \* history: its owner went on uploading a file after it had ended, or its
                    \* fee was split or returned when repairs had been paid out of it

dealVars == <<intents, funds, feePool, subsidyPool, used, reserved, repairTasks, challenges,
              misses, deleteTasks, deleteReceipts, blacklist, vested, storageRewards, late>>
moneyVars == <<balance, lockedStorage, funds, feePool, subsidyPool, vested, storageRewards>>
shardVars == <<used, reserved, repairTasks, challenges, misses>>
deleteVars == <<deleteTasks, deleteReceipts>>

-----------------------------------------------------------------------------
Parity(p) == -(p + 1)
Segments(i) == Layout[i].Roots \cup {Parity(p) : p \in DOMAIN Layout[i].Pools}
Shards(i) == Segments(i) \X (0 .. Layout[i].Total - 1)

Policy == [Duration : Nat, Renewable : BOOLEAN, AutoRenew : BOOLEAN,
           DeletionPolicy : {"grace", "immediate", "retain"}]

\* A pool has the numbers of two segments (RepairPool.SegmentIDs), of the file it is for.
ASSUME FileAssumption ==
  /\ IsFiniteSet(IntentID) /\ IsFiniteSet(Miner) /\ None \notin Miner
  /\ \A i \in IntentID :
       /\ Layout[i].Roots \subseteq Nat /\ IsFiniteSet(Layout[i].Roots)
       /\ DOMAIN Layout[i].Pools \subseteq Nat /\ IsFiniteSet(DOMAIN Layout[i].Pools)
       /\ \A p \in DOMAIN Layout[i].Pools :
            \E g, h \in Layout[i].Roots : g # h /\ Layout[i].Pools[p] = {g, h}
       /\ Layout[i].Data \in Nat /\ Layout[i].Total \in Nat
       /\ HashOf[i] \in [Shards(i) -> Hash]
       /\ Policies[i] \subseteq Policy

Intent(i) ==
  [Policy : Policy, LockedFee : Nat, PaidFee : Nat, RefundedFee : Nat, BurnedFee : Nat,
   BurnDeferred : BOOLEAN,
   Status : {"uploading", "partial", "finalized", "expired", "deleted"},
   StorageStatus : {"pending", "active", "expired", "terminating", "deleted"},
   AccessStatus : {"public", "private", "suspended", "blocked"},
   ModerationStatus : {"none", "frozen", "blocked", "legal_hold", "appealed"},
   ModerationExpires : Nat, Deadline : {t \in Nat : t >= UploadTime}, ExpiresAt : Nat,
   StartAt : Nat \cup {None},  \* DealEscrow.StartAtUnix
   Assignments : [Shards(i) -> Miner \cup {None}],
   Receipts : [Shards(i) -> Miner \cup {None}],
   DeleteTaskCount : Nat, DeleteReceiptCount : Nat]

\* DealEscrow repeats the fees of the intent, which dealEscrowLocked copies into it
\* whenever it is read; StorageFeePool adds them up.
StorageFeePool == [Locked : Nat, Paid : Nat, Refunded : Nat, Burned : Nat]

PermanentStorageFund == [Balance : Nat, Paid : Nat, Burned : Nat, Closed : BOOLEAN, CreatedAt : Nat]

RepairTask ==
  [Intent : IntentID, Shard : Int \X Nat, Old : Miner \cup {None}, Miner : Miner,
   Status : {"pending", "proof_pending", "completed"},
   Mode : {"rs", "cross_parity", "cross_parity_rebuild"}, Sources : SUBSET Miner]

StorageChallenge ==
  [Intent : IntentID, Shard : Int \X Nat, Miner : Miner, Repair : BOOLEAN,
   ExpiresAt : Nat, Proved : BOOLEAN]

DeleteTask ==
  [Intent : IntentID, Hash : Hash, Miner : Miner, Pending : BOOLEAN, Retain : BOOLEAN]

ASSUME DealNone ==
  None \notin Nat \cup PermanentStorageFund /\ \A i \in IntentID : None \notin Intent(i)

DealsTypeOK ==
  /\ \A i \in IntentID : intents[i] \in Intent(i) \cup {None}
  /\ funds \in [IntentID -> PermanentStorageFund \cup {None}]
  /\ feePool \in StorageFeePool /\ subsidyPool \in Nat
  /\ used \in [Miner -> Nat] /\ reserved \in [Miner -> Nat]
  /\ repairTasks \subseteq RepairTask
  /\ challenges \subseteq StorageChallenge
  /\ \A k \in DOMAIN misses : misses[k] \in Nat
  /\ deleteTasks \subseteq DeleteTask
  /\ deleteReceipts \subseteq IntentID \X Hash \X Miner
  /\ blacklist \in [Hash -> Nat \cup {None}]
  /\ vested \in [Miner -> [proof : Nat, repair : Nat]] /\ storageRewards \in [Miner -> Nat]
  /\ late \in BOOLEAN

DealsInit ==
  /\ intents = [i \in IntentID |-> None]
  /\ funds = [i \in IntentID |-> None]
  /\ feePool = [Locked |-> 0, Paid |-> 0, Refunded |-> 0, Burned |-> 0]
  /\ subsidyPool = SubsidyPool
  /\ used = [m \in Miner |-> 0] /\ reserved = [m \in Miner |-> 0]
  /\ repairTasks = {} /\ challenges = {} /\ misses = <<>> /\ deleteTasks = {} /\ deleteReceipts = {}
  /\ blacklist = [h \in Hash |-> None]
  /\ vested = [m \in Miner |-> [proof |-> 0, repair |-> 0]] /\ storageRewards = [m \in Miner |-> 0]
  /\ late = FALSE

-----------------------------------------------------------------------------
Exists(i) == intents[i] # None

Least(S) == CHOOSE x \in S : \A y \in S : x <= y

\* A subtraction that stops at 0.
Minus(x, y) == IF x < y THEN 0 ELSE x - y

remainingIntentEscrow(x) == Minus(x.LockedFee, x.PaidFee + x.RefundedFee + x.BurnedFee)

isPermanentIntent(x) == x.Policy.Duration = 0

\* The upload's deadline is UploadTime after the intent was made.
CreatedAt(x) == x.Deadline - UploadTime

\* defaultAccessStatus: what access becomes when a freeze ends.
defaultAccessStatus(x) == IF x.StorageStatus = "active" THEN "public" ELSE x.AccessStatus

\* A freeze that is over is lifted, and access is what it is by default.
expireGovernanceAction(x) ==
  IF x.ModerationStatus = "frozen" /\ x.ModerationExpires # 0 /\ now >= x.ModerationExpires
  THEN [x EXCEPT !.ModerationStatus = "none", !.ModerationExpires = 0,
                 !.AccessStatus = defaultAccessStatus(x)]
  ELSE x

minerAvailableBytes(m) == Minus(Capacity, used[m] + reserved[m])

\* The shards an assignment is made for before s: the parity of the pools comes last.
AssignedBefore(i, s) ==
  {t \in Shards(i) :
     IF s[1] < 0 THEN t[1] >= 0 \/ t[1] > s[1] \/ (t[1] = s[1] /\ t[2] < s[2])
                 ELSE t[1] >= 0 /\ (t[1] < s[1] \/ (t[1] = s[1] /\ t[2] < s[2]))}

\* The shards s should not share a miner with: those of its segment, and for a
\* parity shard those it is the parity of.
KeptApart(i, s) ==
  IF s[1] < 0
  THEN {t \in Shards(i) : t[2] = s[2] /\ \E p \in DOMAIN Layout[i].Pools :
                             Parity(p) = s[1] /\ t[1] \in Layout[i].Pools[p]}
  ELSE {t \in AssignedBefore(i, s) : t[1] = s[1]}

\* chooseAssignmentMiner: a miner with room that is not used yet, or else any miner
\* with room.  Where the search starts depends on a hash: any miner may be found.
chooseAssignmentMiner(m, taken, room) ==
  /\ room[m] >= 1
  /\ m \in taken => \A n \in Miner \ taken : room[n] < 1

buildStorageAssignments(i) ==
  LET assignable == {m \in Miner : minerAvailableBytes(m) > 0}
  IN  IF assignable = {} THEN {[s \in Shards(i) |-> None]}
      ELSE {f \in [Shards(i) -> assignable] : \A s \in Shards(i) :
              chooseAssignmentMiner(f[s], {f[t] : t \in KeptApart(i, s)},
                [m \in Miner |-> Minus(minerAvailableBytes(m),
                                   Cardinality({t \in AssignedBefore(i, s) : f[t] = m}))])}

\* Bytes of f (a function from shards) at each miner.
BytesAt(f, m) == Cardinality({s \in DOMAIN f : f[s] = m})

releaseUncommitted(i) ==
  [m \in Miner |-> Minus(reserved[m],
     Cardinality({s \in Shards(i) : /\ intents[i].Assignments[s] = m
                                    /\ intents[i].Receipts[s] = None}))]

-----------------------------------------------------------------------------
CreateIntent(i) ==
  /\ ~Exists(i)
  /\ balance[Owner] >= Fee
  /\ consumeAccountNonce(Owner)
  /\ balance' = [balance EXCEPT ![Owner] = @ - Fee]
  /\ lockedStorage' = [lockedStorage EXCEPT ![Owner] = @ + Fee]
  /\ \E f \in buildStorageAssignments(i), p \in Policies[i] :
       /\ intents' = [intents EXCEPT ![i] =
            [Policy |-> p, LockedFee |-> Fee, PaidFee |-> 0, RefundedFee |-> 0, BurnedFee |-> 0,
             BurnDeferred |-> TRUE, Status |-> "uploading", StorageStatus |-> "pending",
             AccessStatus |-> "public", ModerationStatus |-> "none", ModerationExpires |-> 0,
             Deadline |-> now + UploadTime, ExpiresAt |-> 0, StartAt |-> None,
             Assignments |-> f, Receipts |-> [s \in Shards(i) |-> None],
             DeleteTaskCount |-> 0, DeleteReceiptCount |-> 0]]
       /\ reserved' = [m \in Miner |-> reserved[m] + BytesAt(f, m)]
  /\ UNCHANGED <<now, funds, feePool, subsidyPool, used, repairTasks, challenges, misses, deleteVars,
                 blacklist, vested, storageRewards, late>>

\* addDealEscrowFunds, recordStorageFeeRefund, recordStorageFeeBurn: the pool's totals.
addDealEscrowFunds(amount) == feePool' = [feePool EXCEPT !.Locked = @ + amount]

recordStorageFeeRefund(amount) == feePool' = [feePool EXCEPT !.Refunded = @ + amount]

recordStorageFeeBurn(amount) == feePool' = [feePool EXCEPT !.Burned = @ + amount]

\* Settled, terminated or being deleted.
Ended(x) == x.StorageStatus \in {"expired", "terminating", "deleted"} \/ x.DeleteTaskCount > 0
            \/ (x.BurnDeferred /\ x.RefundedFee + x.BurnedFee > 0)

pendingRepairTask(i, s, m) ==
  {t \in repairTasks : t.Intent = i /\ t.Shard = s /\ t.Miner = m /\ t.Status = "pending"}

\* validateReceiptAssignment: the miner holds the assignment or a repair of the shard.
validateReceiptAssignment(i, s, m) ==
  intents[i].Assignments[s] = m \/ pendingRepairTask(i, s, m) # {}

\* A receipt is for a shard of the file; the miner's space has to do for it.
validateReceipt(i, s) == Exists(i) /\ s \in Shards(i)

validateBatchCommitCapacity(i, s, m) ==
  /\ validateReceipt(i, s)
  /\ validateReceiptAssignment(i, s, m)
  /\ intents[i].Receipts[s] # m => used[m] < Capacity

storageChallengeForReceipt(i, s, m, repair) ==
  [Intent |-> i, Shard |-> s, Miner |-> m, Repair |-> repair, ExpiresAt |-> now + 1, Proved |-> FALSE]

\* A repaired shard has to be proved before its repair is paid.
requireRepairProof(tasks) ==
  /\ repairTasks' = (repairTasks \ tasks) \cup {[t EXCEPT !.Status = "proof_pending"] : t \in tasks}
  /\ challenges' = challenges \cup
       {storageChallengeForReceipt(t.Intent, t.Shard, t.Miner, TRUE) : t \in tasks}

\* Mutated: the reservation is kept although the shard is there.
BatchCommit_keeps(i, s, m) ==
  LET x     == intents[i]
      tasks == IF x.Receipts[s] = m THEN {} ELSE pendingRepairTask(i, s, m)
      fresh == IF x.Receipts[s] = m THEN 0 ELSE 1
  IN  /\ Exists(i) /\ x.Status # "finalized" /\ now <= x.Deadline
      /\ validateBatchCommitCapacity(i, s, m)
      /\ consumeAccountNonce(Owner)
      /\ used' = [n \in Miner |-> IF n = m THEN used[n] + fresh
                                  ELSE IF n = x.Receipts[s] THEN Minus(used[n], 1) ELSE used[n]]
      /\ reserved' = reserved
      /\ requireRepairProof(tasks)
      /\ intents' = [intents EXCEPT ![i].Receipts[s] = m, ![i].Status = "partial",
                                    ![i].Assignments[s] = IF tasks = {} THEN @ ELSE m]
      /\ late' = (late \/ Ended(x))
      /\ UNCHANGED <<now, moneyVars, misses, deleteVars, blacklist>>

\* BatchCommit: the receipt replaces an older one; the bytes move from the
\* reservations of the assignment and of the repair to the miner's used bytes.
BatchCommit(i, s, m) ==
  LET x     == intents[i]
      tasks == IF x.Receipts[s] = m THEN {} ELSE pendingRepairTask(i, s, m)
      fresh == IF x.Receipts[s] = m THEN 0 ELSE 1
      freed(n) == (IF x.Receipts[s] = None /\ x.Assignments[s] = n THEN 1 ELSE 0)
                + (IF tasks # {} /\ n = m THEN 1 ELSE 0)
  IN  /\ Exists(i) /\ x.Status # "finalized" /\ now <= x.Deadline
      /\ validateBatchCommitCapacity(i, s, m)
      /\ consumeAccountNonce(Owner)
      /\ used' = [n \in Miner |-> IF n = m THEN used[n] + fresh
                                  ELSE IF n = x.Receipts[s] THEN Minus(used[n], 1) ELSE used[n]]
      /\ reserved' = [n \in Miner |-> Minus(reserved[n], freed(n))]
      /\ requireRepairProof(tasks)
      /\ intents' = [intents EXCEPT ![i].Receipts[s] = m, ![i].Status = "partial",
                                    ![i].Assignments[s] = IF tasks = {} THEN @ ELSE m]
      /\ late' = (late \/ Ended(x))
      /\ UNCHANGED <<now, moneyVars, misses, deleteVars, blacklist>>

\* A commit after the deadline is refused, and marks the intent expired.
BatchCommitLate(i) ==
  /\ Exists(i) /\ intents[i].Status # "finalized" /\ now > intents[i].Deadline
  /\ intents' = [intents EXCEPT ![i].Status = "expired"]
  /\ UNCHANGED <<accountVars, funds, feePool, subsidyPool, shardVars, deleteVars, blacklist,
                 vested, storageRewards, late>>

\* A segment counts once Data of its shards are committed; parity segments count too.
committedSegments(i) ==
  Cardinality({g \in Segments(i) :
    Cardinality({s \in Shards(i) : s[1] = g /\ intents[i].Receipts[s] # None}) >= Layout[i].Data})

\* ensurePermanentFund: a fund not made yet holds what is left of the escrow.
ensurePermanentFund(i, x) ==
  IF funds[i] # None THEN funds[i]
  ELSE [Balance |-> remainingIntentEscrow(x), Paid |-> x.PaidFee, Burned |-> 0,
        Closed |-> FALSE, CreatedAt |-> CreatedAt(x)]

Share(fee) == (fee * ShareBPS) \div Whole

\* executeDeferredBurn: the shares leave the fee, as far as the owner has locked tokens.
executeDeferredBurn(i, x) ==
  LET share == Share(x.LockedFee)
      y == [x EXCEPT !.LockedFee = @ - 3 * share, !.BurnedFee = share, !.BurnDeferred = FALSE]
  IN  IF x.BurnDeferred
      THEN /\ lockedStorage' = [lockedStorage EXCEPT ![Owner] = Minus(@, 3 * share)]
           /\ balance' = [b \in Account |-> balance[b] + (IF b = Retrieval THEN share ELSE 0)
                                                       + (IF b = Foundation THEN share ELSE 0)]
           /\ feePool' = [feePool EXCEPT !.Locked = @ + y.LockedFee, !.Burned = @ + share]
           /\ funds' = IF isPermanentIntent(x)
                       THEN [funds EXCEPT ![i] = ensurePermanentFund(i, y)] ELSE funds
           /\ intents' = [intents EXCEPT ![i] = y]
      ELSE /\ intents' = [intents EXCEPT ![i] = x]
           /\ UNCHANGED <<lockedStorage, balance, feePool, funds>>

\* Repairs of a file that is not finalized are paid out of the fee before it is split:
\* too little may be left for the shares, or the rest be in a fund already.
SpentEarly(i, x) ==
  x.BurnDeferred /\ (remainingIntentEscrow(x) < 4 * Share(x.LockedFee) \/ funds[i] # None)

Finalize(i) ==
  LET x == intents[i]
  IN  /\ Exists(i) /\ x.Status # "finalized"
      /\ committedSegments(i) = Cardinality(Layout[i].Roots)
      /\ consumeAccountNonce(Owner)
      /\ executeDeferredBurn(i,
           [x EXCEPT !.Status = "finalized", !.StorageStatus = "active", !.ModerationStatus = "none",
                     !.ExpiresAt = IF isPermanentIntent(x) THEN @ ELSE now + x.Policy.Duration,
                     !.StartAt = IF @ = None THEN now ELSE @])
      /\ late' = (late \/ Ended(x) \/ SpentEarly(i, x))
      /\ UNCHANGED <<now, subsidyPool, shardVars, deleteVars, blacklist, vested, storageRewards>>

-----------------------------------------------------------------------------
\* What settleIntent makes of the intent, and None where it refuses.
Settled(x) ==
  CASE x.Status \in {"uploading", "partial"} /\ now > x.Deadline ->
         [x EXCEPT !.Status = "expired", !.StorageStatus = "expired", !.AccessStatus = "suspended"]
    [] x.Status = "finalized" /\ ~isPermanentIntent(x) /\ now >= x.ExpiresAt + Grace ->
         IF x.Policy.DeletionPolicy = "retain" THEN [x EXCEPT !.AccessStatus = "suspended"]
         ELSE [x EXCEPT !.Status = "expired", !.StorageStatus = "expired", !.AccessStatus = "suspended"]
    [] x.Status = "expired" -> x
    [] OTHER -> None

\* Mutated: the refund is not written down in the intent.
settleIntent_unrecorded(i) ==
  LET x == Settled(intents[i])
      refund == Least({remainingIntentEscrow(x), lockedStorage[Owner]})
  IN  /\ x # None
      /\ x.Status # "finalized"
      /\ intents' = [intents EXCEPT ![i] = x]
      /\ reserved' = releaseUncommitted(i)
      /\ lockedStorage' = [lockedStorage EXCEPT ![Owner] = @ - refund]
      /\ balance' = [balance EXCEPT ![Owner] = @ + refund]
      /\ recordStorageFeeRefund(refund)
      /\ UNCHANGED <<now, funds, subsidyPool, used, repairTasks, challenges, misses, deleteVars,
                     blacklist, vested, storageRewards, late>>

\* settleIntent: space not used is released and what is left of the escrow returned,
\* unless the deal is retained.
settleIntent(i) ==
  LET x == Settled(intents[i])
      refund == Least({remainingIntentEscrow(x), lockedStorage[Owner]})
  IN  /\ x # None
      /\ IF x.Status = "finalized"
         THEN /\ intents' = [intents EXCEPT ![i] = x]
              /\ UNCHANGED <<balance, lockedStorage, feePool, reserved, late>>
         ELSE /\ late' = (late \/ (refund > 0 /\ funds[i] # None))
              /\ intents' = [intents EXCEPT ![i] = [x EXCEPT !.RefundedFee = @ + refund]]
              /\ reserved' = releaseUncommitted(i)
              /\ lockedStorage' = [lockedStorage EXCEPT ![Owner] = @ - refund]
              /\ balance' = [balance EXCEPT ![Owner] = @ + refund]
              /\ recordStorageFeeRefund(refund)
      /\ UNCHANGED <<now, funds, subsidyPool, used, repairTasks, challenges, misses, deleteVars, blacklist,
                     vested, storageRewards>>

SettleIntent(i) ==
  /\ Exists(i)
  /\ settleIntent(i)
  /\ consumeAccountNonce(Owner)

intentSettlementDue(x) ==
  /\ remainingIntentEscrow(x) # 0
  /\ \/ x.Status \in {"uploading", "partial"} /\ now > x.Deadline
     \/ /\ x.Status = "finalized" /\ ~isPermanentIntent(x)
        /\ now >= x.ExpiresAt + (IF x.Policy.DeletionPolicy = "immediate" THEN 0 ELSE Grace)

\* SettleExpiredIntents: the node settles what is due, one intent after the other.
SettleExpiredIntents(i) ==
  /\ Exists(i) /\ intentSettlementDue(intents[i])
  /\ settleIntent(i)
  /\ UNCHANGED nonce

-----------------------------------------------------------------------------
\* RenewDeal: while the deal runs, or in its grace time, expired or not.
Renewed(x) ==
  LET running == x.Status = "finalized" /\ x.ExpiresAt > now
      inGrace == x.Status \in {"finalized", "expired"} /\ now <= x.ExpiresAt + Grace
  IN  IF x.ExpiresAt = 0 \/ ~x.Policy.Renewable \/ ~(running \/ inGrace) THEN None
      ELSE IF running THEN x ELSE [x EXCEPT !.Status = "finalized", !.StorageStatus = "active"]

RenewDeal(i) ==
  LET x == Renewed(expireGovernanceAction(intents[i]))
  IN  /\ Exists(i) /\ x # None
      /\ balance[Owner] >= RenewPrice
      /\ consumeAccountNonce(Owner)
      /\ balance' = [balance EXCEPT ![Owner] = @ - RenewPrice]
      /\ lockedStorage' = [lockedStorage EXCEPT ![Owner] = @ + RenewPrice]
      /\ addDealEscrowFunds(RenewPrice)
      /\ intents' = [intents EXCEPT ![i] =
           [x EXCEPT !.LockedFee = @ + RenewPrice, !.ExpiresAt = now + x.Policy.Duration]]
      /\ UNCHANGED <<now, funds, subsidyPool, shardVars, deleteVars, blacklist, vested,
                     storageRewards, late>>

\* A renewal refused because it is too long, or for want of balance, has made the
\* deal active all the same.
RenewRefused(i) ==
  LET x == Renewed(expireGovernanceAction(intents[i]))
  IN  /\ Exists(i) /\ x # None
      /\ intents' = [intents EXCEPT ![i] = x]
      /\ UNCHANGED <<accountVars, funds, feePool, subsidyPool, shardVars, deleteVars, blacklist,
                     vested, storageRewards, late>>

autoRenewDue(x) ==
  /\ x.Policy.AutoRenew /\ x.Policy.Renewable
  /\ x.Status = "finalized" /\ x.StorageStatus = "active"
  /\ x.ExpiresAt # 0 /\ x.ExpiresAt <= now /\ now <= x.ExpiresAt + Grace

\* autoRenewDeals: the producer of a block renews what is due, while the balance lasts.
autoRenewDeals ==
  LET due == {i \in IntentID : Exists(i) /\ autoRenewDue(intents[i])}
      affordable == Least({Cardinality(due), balance[Owner] \div RenewPrice})
  IN  \E S \in SUBSET due :
        /\ Cardinality(S) = affordable /\ S # {}
        /\ balance' = [balance EXCEPT ![Owner] = @ - RenewPrice * affordable]
        /\ lockedStorage' = [lockedStorage EXCEPT ![Owner] = @ + RenewPrice * affordable]
        /\ addDealEscrowFunds(RenewPrice * affordable)
        /\ intents' = [i \in IntentID |->
             IF i \in S THEN [intents[i] EXCEPT !.LockedFee = @ + RenewPrice,
                                                !.ExpiresAt = now + intents[i].Policy.Duration]
             ELSE intents[i]]
        /\ UNCHANGED <<nonce, now, funds, subsidyPool, shardVars, deleteVars, blacklist, vested,
                       storageRewards, late>>

\* TopUpPermanentFund, which also opens a closed fund again.
TopUpPermanentFund(i, a) ==
  LET x == intents[i]
      fund == ensurePermanentFund(i, x)
  IN  /\ Exists(i) /\ isPermanentIntent(x) /\ ~x.BurnDeferred
      /\ balance[Owner] >= a
      /\ consumeAccountNonce(Owner)
      /\ balance' = [balance EXCEPT ![Owner] = @ - a]
      /\ lockedStorage' = [lockedStorage EXCEPT ![Owner] = @ + a]
      /\ funds' = [funds EXCEPT ![i] = [fund EXCEPT !.Balance = @ + a, !.Closed = FALSE]]
      /\ addDealEscrowFunds(a)
      /\ intents' = [intents EXCEPT ![i].LockedFee = @ + a]
      /\ UNCHANGED <<now, subsidyPool, shardVars, deleteVars, blacklist, vested, storageRewards, late>>
=============================================================================
