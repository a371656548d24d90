----------------------------- MODULE DealProofs -----------------------------
(***************************************************************************)
(* What holds of storage deals, their moderation and repair, and of the    *)
(* committee that decides about them.                                      *)
(***************************************************************************)
EXTENDS Governance, Lemmas

-----------------------------------------------------------------------------
(***************************************************************************)
(* The model's operators                                                   *)
(***************************************************************************)
LEMMA ImageFinite ==
  ASSUME NEW S, IsFiniteSet(S), NEW f
  PROVE  /\ IsFiniteSet({f[x] : x \in S})
         /\ Cardinality({f[x] : x \in S}) <= Cardinality(S)
<1> DEFINE T == {f[x] : x \in S}
           g == [x \in S |-> f[x]]
<1>1. g \in Surjection(S, T)
  BY DEF Surjection
<1> HIDE DEF g, T
<1>2. IsFiniteSet(T) /\ Cardinality(T) <= Cardinality(S)
  BY <1>1, FS_Surjection
<1> QED
  BY <1>2 DEF T

LEMMA FewFinite ==
  ASSUME NEW a, NEW b, NEW c, NEW d
  PROVE  IsFiniteSet({a, b}) /\ IsFiniteSet({a, b, c}) /\ IsFiniteSet({a, b, c, d})
<1>1. IsFiniteSet({a})
  BY FS_Singleton
<1>2. IsFiniteSet({b}) /\ IsFiniteSet({c}) /\ IsFiniteSet({d})
  BY FS_Singleton
<1>3. IsFiniteSet({a} \cup {b}) /\ {a} \cup {b} = {a, b}
  BY <1>1, <1>2, FS_Union
<1>4. IsFiniteSet({a, b} \cup {c}) /\ {a, b} \cup {c} = {a, b, c}
  BY <1>2, <1>3, FS_Union
<1>5. IsFiniteSet({a, b, c} \cup {d}) /\ {a, b, c} \cup {d} = {a, b, c, d}
  BY <1>2, <1>4, FS_Union
<1> QED
  BY <1>3, <1>4, <1>5

\* The least of some numbers is one of them.
LEMMA LeastIsLeast ==
  ASSUME NEW S \in SUBSET Nat, IsFiniteSet(S), S # {}
  PROVE  /\ Least(S) \in Nat
         /\ Least(S) \in S
         /\ \A y \in S : Least(S) <= y
<1>1. Min(S) \in S /\ \A y \in S : Min(S) <= y
  BY MinimumExists
<1>2. Least(S) \in S /\ \A y \in S : Least(S) <= y
  BY <1>1 DEF Least
<1> QED
  BY <1>2

LEMMA LeastOfTwo ==
  ASSUME NEW a \in Nat, NEW b \in Nat
  PROVE  /\ Least({a, b}) \in Nat /\ Least({a, b}) <= a /\ Least({a, b}) <= b
         /\ Least({a, b}) = a \/ Least({a, b}) = b
<1>1. IsFiniteSet({a, b})
  BY FewFinite
<1> QED
  BY <1>1, LeastIsLeast

LEMMA LeastOfThree ==
  ASSUME NEW a \in Nat, NEW b \in Nat, NEW c \in Nat
  PROVE  /\ Least({a, b, c}) \in Nat
         /\ Least({a, b, c}) <= a /\ Least({a, b, c}) <= b /\ Least({a, b, c}) <= c
         /\ Least({a, b, c}) \in {a, b, c}
<1>1. IsFiniteSet({a, b, c})
  BY FewFinite
<1> QED
  BY <1>1, LeastIsLeast

LEMMA LeastOfFour ==
  ASSUME NEW a \in Nat, NEW b \in Nat, NEW c \in Nat, NEW d \in Nat
  PROVE  /\ Least({a, b, c, d}) \in Nat
         /\ Least({a, b, c, d}) <= a /\ Least({a, b, c, d}) <= b
         /\ Least({a, b, c, d}) <= c /\ Least({a, b, c, d}) <= d
         /\ Least({a, b, c, d}) \in {a, b, c, d}
<1>1. IsFiniteSet({a, b, c, d})
  BY FewFinite
<1> QED
  BY <1>1, LeastIsLeast

LEMMA MinusNat ==
  ASSUME NEW a \in Nat, NEW b \in Nat
  PROVE  Minus(a, b) \in Nat /\ Minus(a, b) <= a
  BY DEF Minus

\* Four shares are no more than the fee.
LEMMA ShareSmall ==
  ASSUME NEW fee \in Nat
  PROVE  Share(fee) \in Nat /\ 4 * Share(fee) <= fee
<1> DEFINE q == (fee * ShareBPS) \div Whole
<1>1. ShareBPS \in Nat /\ 4 * ShareBPS <= Whole /\ Whole \in Nat \ {0}
  BY DealAssumption
<1>2. fee * ShareBPS \in Nat
  BY <1>1
<1>3. q \in Nat /\ q * Whole <= fee * ShareBPS
  <2> DEFINE p == fee * ShareBPS
  <2>1. p \in Nat
    BY <1>2
  <2> HIDE DEF p
  <2>2. p \div Whole \in Nat /\ (p \div Whole) * Whole <= p
    BY <1>1, <2>1
  <2> QED
    BY <2>2 DEF p
<1>4. 4 * (fee * ShareBPS) = fee * (4 * ShareBPS)
  BY <1>1
<1>5. fee * (4 * ShareBPS) <= fee * Whole
  BY <1>1
<1>6. (4 * q) * Whole <= fee * Whole
  <2> DEFINE p == fee * ShareBPS
             w == fee * Whole
             r == q * Whole
  <2>1. r \in Nat /\ p \in Nat /\ w \in Nat /\ r <= p /\ 4 * p <= w
    BY <1>1, <1>2, <1>3, <1>4, <1>5
  <2>2. (4 * q) * Whole = 4 * r
    BY <1>1, <1>3
  <2> HIDE DEF p, w, r
  <2> QED
    BY <2>1, <2>2 DEF w
<1>7. 4 * q <= fee
  <2> DEFINE t == 4 * q
  <2>1. t \in Nat /\ t * Whole <= fee * Whole
    BY <1>3, <1>6
  <2> HIDE DEF t
  <2>2. CASE t >= fee + 1
    <3>1. t * Whole >= (fee + 1) * Whole
      BY <2>1, <2>2, <1>1
    <3>2. (fee + 1) * Whole = fee * Whole + Whole
      BY <1>1
    <3> QED
      BY <3>1, <3>2, <2>1, <1>1
  <2> QED
    BY <2>1, <2>2 DEF t
<1> QED
  BY <1>3, <1>7 DEF Share

LEMMA ShardsFinite ==
  ASSUME NEW i \in IntentID
  PROVE  /\ IsFiniteSet(Shards(i)) /\ Shards(i) \subseteq Int \X Nat
         /\ \A S \in SUBSET Shards(i) : IsFiniteSet(S) /\ Cardinality(S) \in Nat
<1>1. IsFiniteSet({Parity(p) : p \in DOMAIN Layout[i].Pools})
  <2> DEFINE S == DOMAIN Layout[i].Pools
             f == [p \in S |-> Parity(p)]
  <2>1. IsFiniteSet(S)
    BY FileAssumption
  <2>2. {f[p] : p \in S} = {Parity(p) : p \in S}
    OBVIOUS
  <2> HIDE DEF f, S
  <2>3. IsFiniteSet({f[p] : p \in S})
    BY <2>1, ImageFinite
  <2> QED
    BY <2>2, <2>3 DEF S
<1>2. IsFiniteSet(Segments(i))
  BY <1>1, FileAssumption, FS_Union DEF Segments
<1>3. IsFiniteSet(0 .. Layout[i].Total - 1)
  BY FileAssumption, FS_Interval
<1>4. IsFiniteSet(Shards(i))
  BY <1>2, <1>3, FS_Product DEF Shards
<1>5. Shards(i) \subseteq Int \X Nat
  <2>1. Layout[i].Roots \subseteq Int
    BY FileAssumption
  <2>2. \A p \in DOMAIN Layout[i].Pools : Parity(p) \in Int
    BY FileAssumption DEF Parity
  <2>3. Segments(i) \subseteq Int
    BY <2>1, <2>2 DEF Segments
  <2>4. 0 .. Layout[i].Total - 1 \subseteq Nat
    BY FileAssumption
  <2> QED
    BY <2>3, <2>4 DEF Shards
<1> QED
  BY <1>4, <1>5, FS_Subset, FS_CardinalityType

-----------------------------------------------------------------------------
(***************************************************************************)
(* Deals keep their form                                                   *)
(***************************************************************************)
\* Intents are of the files there are.
IntentsOK ==
  /\ DOMAIN intents = IntentID
  /\ \A i \in IntentID : intents[i] \in Intent(i) \cup {None}

MoneyOK ==
  /\ AccountsTypeOK
  /\ funds \in [IntentID -> PermanentStorageFund \cup {None}]
  /\ feePool \in StorageFeePool /\ subsidyPool \in Nat
  /\ vested \in [Miner -> [proof : Nat, repair : Nat]] /\ storageRewards \in [Miner -> Nat]

\* Shards that are challenged or repaired are shards of a deal there is.
WorkOK ==
  /\ used \in [Miner -> Nat] /\ reserved \in [Miner -> Nat]
  /\ IsFiniteSet(repairTasks)
  /\ \A t \in repairTasks : t \in RepairTask /\ Exists(t.Intent) /\ t.Shard \in Shards(t.Intent)
  /\ \A c \in challenges : c \in StorageChallenge /\ Exists(c.Intent) /\ c.Shard \in Shards(c.Intent)
  /\ \A k \in DOMAIN misses : misses[k] \in Nat

DeletionOK ==
  /\ \A t \in deleteTasks : t \in DeleteTask /\ Exists(t.Intent)
  /\ deleteReceipts \subseteq IntentID \X Hash \X Miner
  /\ blacklist \in [Hash -> Nat \cup {None}]
  /\ late \in BOOLEAN

WellFormed == IntentsOK /\ MoneyOK /\ WorkOK /\ DeletionOK

LEMMA FormTypes == WellFormed => AccountsTypeOK /\ DealsTypeOK
BY DEF WellFormed, IntentsOK, MoneyOK, WorkOK, DeletionOK, DealsTypeOK

\* No intent is ever forgotten.
Lasting == \A j \in IntentID : Exists(j) => intents'[j] # None

LEMMA SameMoney ==
  ASSUME MoneyOK, UNCHANGED <<now, nonce, moneyVars>>
  PROVE  MoneyOK'
BY DEF MoneyOK, moneyVars, AccountsTypeOK

LEMMA SameWork ==
  ASSUME WorkOK, UNCHANGED shardVars, Lasting
  PROVE  WorkOK'
<1>1. \A t \in repairTasks : t.Intent \in IntentID
  BY DEF WorkOK, RepairTask
<1>2. \A c \in challenges : c.Intent \in IntentID
  BY DEF WorkOK, StorageChallenge
<1> QED
  BY <1>1, <1>2 DEF WorkOK, shardVars, Lasting, Exists

LEMMA SameDeletion ==
  ASSUME DeletionOK, UNCHANGED <<deleteVars, blacklist>>, late' \in BOOLEAN, Lasting
  PROVE  DeletionOK'
<1>1. \A t \in deleteTasks : t.Intent \in IntentID
  BY DEF DeletionOK, DeleteTask
<1> QED
  BY <1>1 DEF DeletionOK, deleteVars, Lasting, Exists

LEMMA IntentSet ==
  ASSUME IntentsOK, NEW i \in IntentID, NEW y \in Intent(i), intents' = [intents EXCEPT ![i] = y]
  PROVE  /\ IntentsOK' /\ Lasting
         /\ intents'[i] = y /\ y # None
         /\ \A j \in IntentID \ {i} : intents'[j] = intents[j]
<1>1. y # None
  BY DealNone
<1>2. intents'[i] = y /\ \A j \in IntentID \ {i} : intents'[j] = intents[j]
  BY DEF IntentsOK
<1>3. DOMAIN intents' = IntentID
  BY DEF IntentsOK
<1>4. IntentsOK'
  BY <1>2, <1>3 DEF IntentsOK
<1>5. Lasting
  BY <1>1, <1>2 DEF Lasting, Exists
<1> QED
  BY <1>1, <1>2, <1>4, <1>5

LEMMA IntentsSame ==
  ASSUME IntentsOK, UNCHANGED intents
  PROVE  IntentsOK' /\ Lasting
BY DEF IntentsOK, Lasting, Exists

LEMMA IntentExists ==
  ASSUME IntentsOK, NEW i \in IntentID, Exists(i)
  PROVE  intents[i] \in Intent(i)
BY DEF IntentsOK, Exists

\* What the operators on an intent return.
LEMMA EscrowNat ==
  ASSUME NEW i \in IntentID, NEW x \in Intent(i)
  PROVE  remainingIntentEscrow(x) \in Nat
<1>1. x.LockedFee \in Nat /\ x.PaidFee + x.RefundedFee + x.BurnedFee \in Nat
  BY DEF Intent
<1> QED
  BY <1>1, MinusNat DEF remainingIntentEscrow

LEMMA ExpireKeeps ==
  ASSUME NEW i \in IntentID, NEW x \in Intent(i)
  PROVE  /\ expireGovernanceAction(x) \in Intent(i)
         /\ LET y == expireGovernanceAction(x)
            IN  /\ y.Policy = x.Policy /\ y.LockedFee = x.LockedFee /\ y.PaidFee = x.PaidFee
                /\ y.RefundedFee = x.RefundedFee /\ y.BurnedFee = x.BurnedFee
                /\ y.BurnDeferred = x.BurnDeferred /\ y.Status = x.Status
                /\ y.StorageStatus = x.StorageStatus /\ y.Deadline = x.Deadline
                /\ y.ExpiresAt = x.ExpiresAt /\ y.StartAt = x.StartAt
                /\ y.Assignments = x.Assignments /\ y.Receipts = x.Receipts
                /\ y.DeleteTaskCount = x.DeleteTaskCount /\ y.DeleteReceiptCount = x.DeleteReceiptCount
<1> DEFINE d == defaultAccessStatus(x)
<1>1. d \in {"public", "private", "suspended", "blocked"}
  BY DEF defaultAccessStatus, Intent
<1> HIDE DEF d
<1>2. [x EXCEPT !.ModerationStatus = "none", !.ModerationExpires = 0, !.AccessStatus = d] \in Intent(i)
  BY <1>1 DEF Intent
<1>3. expireGovernanceAction(x) = x
      \/ expireGovernanceAction(x)
           = [x EXCEPT !.ModerationStatus = "none", !.ModerationExpires = 0, !.AccessStatus = d]
  BY DEF expireGovernanceAction, d
<1>4. expireGovernanceAction(x) \in Intent(i)
  BY <1>2, <1>3
<1> DEFINE y == expireGovernanceAction(x)
<1>5. CASE y = x
  BY <1>4, <1>5
<1>6. CASE y = [x EXCEPT !.ModerationStatus = "none", !.ModerationExpires = 0, !.AccessStatus = d]
  <2> HIDE DEF y
  <2>1. /\ y.Policy = x.Policy /\ y.LockedFee = x.LockedFee /\ y.PaidFee = x.PaidFee
        /\ y.RefundedFee = x.RefundedFee /\ y.BurnedFee = x.BurnedFee
        /\ y.BurnDeferred = x.BurnDeferred /\ y.Status = x.Status
        /\ y.StorageStatus = x.StorageStatus /\ y.Deadline = x.Deadline
        /\ y.ExpiresAt = x.ExpiresAt /\ y.StartAt = x.StartAt
        /\ y.Assignments = x.Assignments /\ y.Receipts = x.Receipts
        /\ y.DeleteTaskCount = x.DeleteTaskCount /\ y.DeleteReceiptCount = x.DeleteReceiptCount
    BY <1>6 DEF Intent
  <2> QED
    BY <1>4, <2>1 DEF y
<1> QED
  BY <1>3, <1>5, <1>6

LEMMA FundTyped ==
  ASSUME WellFormed, NEW i \in IntentID, NEW x \in Intent(i)
  PROVE  ensurePermanentFund(i, x) \in PermanentStorageFund
<1>1. remainingIntentEscrow(x) \in Nat /\ x.PaidFee \in Nat /\ CreatedAt(x) \in Nat
  <2>1. UploadTime \in Nat
    BY DealAssumption
  <2>2. CreatedAt(x) \in Nat
    BY <2>1 DEF CreatedAt, Intent
  <2> QED
    BY <2>2, EscrowNat DEF Intent
<1>2. funds[i] # None => funds[i] \in PermanentStorageFund
  BY DEF WellFormed, MoneyOK
<1> QED
  BY <1>1, <1>2 DEF ensurePermanentFund, PermanentStorageFund

LEMMA OwnerKnown == Owner \in Account /\ Retrieval \in Account /\ Foundation \in Account
BY DealAssumption, AccountAssumption

LEMMA BuildTyped ==
  ASSUME NEW i \in IntentID, NEW f \in buildStorageAssignments(i)
  PROVE  f \in [Shards(i) -> Miner \cup {None}]
<1> DEFINE assignable == {m \in Miner : minerAvailableBytes(m) > 0}
<1>1. f = [s \in Shards(i) |-> None] \/ f \in [Shards(i) -> assignable]
  BY DEF buildStorageAssignments
<1> QED
  BY <1>1

LEMMA BytesNat ==
  ASSUME NEW i \in IntentID, NEW f \in [Shards(i) -> Miner \cup {None}], NEW m
  PROVE  BytesAt(f, m) \in Nat
<1>1. {s \in DOMAIN f : f[s] = m} \in SUBSET Shards(i)
  OBVIOUS
<1> QED
  BY <1>1, ShardsFinite DEF BytesAt

\* A new intent.
NewIntent(i, f, p) ==
  [Policy |-> p, LockedFee |-> Fee, PaidFee |-> 0, RefundedFee |-> 0, BurnedFee |-> 0,
   BurnDeferred |-> TRUE, Status |-> "uploading", StorageStatus |-> "pending",
   AccessStatus |-> "public", ModerationStatus |-> "none", ModerationExpires |-> 0,
   Deadline |-> now + UploadTime, ExpiresAt |-> 0, StartAt |-> None,
   Assignments |-> f, Receipts |-> [s \in Shards(i) |-> None],
   DeleteTaskCount |-> 0, DeleteReceiptCount |-> 0]

LEMMA NewTyped ==
  ASSUME WellFormed, NEW i \in IntentID, NEW f \in buildStorageAssignments(i), NEW p \in Policies[i]
  PROVE  NewIntent(i, f, p) \in Intent(i)
<1>1. f \in [Shards(i) -> Miner \cup {None}]
  BY BuildTyped
<1>2. p \in Policy /\ Fee \in Nat /\ now + UploadTime \in Nat /\ now + UploadTime >= UploadTime
  BY FileAssumption, DealAssumption, AccountAssumption DEF WellFormed, MoneyOK, AccountsTypeOK
<1> QED
  BY <1>1, <1>2 DEF Intent, NewIntent

LEMMA CreateMeans ==
  ASSUME NEW i \in IntentID, CreateIntent(i)
  PROVE  \E f \in buildStorageAssignments(i), p \in Policies[i] :
           /\ intents' = [intents EXCEPT ![i] = NewIntent(i, f, p)]
           /\ reserved' = [m \in Miner |-> reserved[m] + BytesAt(f, m)]
BY DEF CreateIntent, NewIntent

LEMMA CreateIntentForm ==
  ASSUME WellFormed, NEW i \in IntentID, CreateIntent(i)
  PROVE  WellFormed' /\ Lasting
<1> USE DEF WellFormed
<1>1. PICK f \in buildStorageAssignments(i), p \in Policies[i] :
       /\ intents' = [intents EXCEPT ![i] = NewIntent(i, f, p)]
       /\ reserved' = [m \in Miner |-> reserved[m] + BytesAt(f, m)]
  BY CreateMeans
<1> DEFINE y == NewIntent(i, f, p)
<1>2. f \in [Shards(i) -> Miner \cup {None}]
  BY BuildTyped
<1>3. y \in Intent(i)
  BY NewTyped
<1>4. intents' = [intents EXCEPT ![i] = y]
  BY <1>1
<1> HIDE DEF y
<1>5. IntentsOK' /\ Lasting
  BY <1>3, <1>4, IntentSet
<1>6. MoneyOK'
  <2>1. /\ balance' = [balance EXCEPT ![Owner] = @ - Fee] /\ balance[Owner] >= Fee
        /\ lockedStorage' = [lockedStorage EXCEPT ![Owner] = @ + Fee]
        /\ nonce' = [nonce EXCEPT ![Owner] = @ + 1] /\ nonce[Owner] < MaxNonce
        /\ UNCHANGED <<now, funds, feePool, subsidyPool, vested, storageRewards>>
    BY DEF CreateIntent, consumeAccountNonce
  <2>2. Fee \in Nat /\ MaxNonce \in Nat
    BY DealAssumption, AccountAssumption
  <2>3. balance' \in [Account -> Nat] /\ lockedStorage' \in [Account -> Nat]
    BY <2>1, <2>2, OwnerKnown DEF MoneyOK, AccountsTypeOK
  <2>4. nonce' \in [Account -> 0..MaxNonce]
    BY <2>1, <2>2, OwnerKnown DEF MoneyOK, AccountsTypeOK
  <2> QED
    BY <2>1, <2>3, <2>4 DEF MoneyOK, AccountsTypeOK
<1>7. WorkOK'
  <2>1. reserved' \in [Miner -> Nat]
    <3>1. \A m \in Miner : reserved[m] + BytesAt(f, m) \in Nat
      BY <1>2, BytesNat DEF WorkOK
    <3> QED
      BY <1>1, <3>1
  <2>2. UNCHANGED <<used, repairTasks, challenges, misses>>
    BY DEF CreateIntent
  <2>3. \A t \in repairTasks : t.Intent \in IntentID
    BY DEF WorkOK, RepairTask
  <2>4. \A c \in challenges : c.Intent \in IntentID
    BY DEF WorkOK, StorageChallenge
  <2> QED
    BY <1>5, <2>1, <2>2, <2>3, <2>4 DEF WorkOK, Lasting, Exists
<1>8. DeletionOK'
  BY <1>5, SameDeletion DEF CreateIntent, DeletionOK
<1> QED
  BY <1>5, <1>6, <1>7, <1>8

\* A request uses up a nonce.
LEMMA NonceTyped ==
  ASSUME MoneyOK, NEW a \in Account, consumeAccountNonce(a)
  PROVE  nonce' \in [Account -> 0..MaxNonce]
BY AccountAssumption DEF MoneyOK, AccountsTypeOK, consumeAccountNonce

LEMMA ReceiptTyped ==
  ASSUME NEW i \in IntentID, NEW x \in Intent(i), NEW s \in Shards(i), NEW m \in Miner,
         NEW n \in Miner \cup {None}
  PROVE  [x EXCEPT !.Receipts[s] = m, !.Status = "partial", !.Assignments[s] = n] \in Intent(i)
BY DEF Intent

LEMMA BatchCommitForm ==
  ASSUME WellFormed, NEW i \in IntentID, NEW s \in Shards(i), NEW m \in Miner, BatchCommit(i, s, m)
  PROVE  WellFormed' /\ Lasting
<1> USE DEF WellFormed
<1> DEFINE x == intents[i]
           tasks == IF x.Receipts[s] = m THEN {} ELSE pendingRepairTask(i, s, m)
           fresh == IF x.Receipts[s] = m THEN 0 ELSE 1
           freed(n) == (IF x.Receipts[s] = None /\ x.Assignments[s] = n THEN 1 ELSE 0)
                     + (IF tasks # {} /\ n = m THEN 1 ELSE 0)
           holder == IF tasks = {} THEN x.Assignments[s] ELSE m
           y == [x EXCEPT !.Receipts[s] = m, !.Status = "partial", !.Assignments[s] = holder]
<1>1. x \in Intent(i)
  BY IntentExists DEF BatchCommit
<1>2. holder \in Miner \cup {None}
  BY <1>1 DEF Intent
<1>3. y \in Intent(i)
  <2> HIDE DEF x, holder
  <2> QED
    BY <1>1, <1>2, ReceiptTyped
<1>4. intents' = [intents EXCEPT ![i] = y]
  BY DEF BatchCommit
<1> HIDE DEF y
<1>5. IntentsOK' /\ Lasting
  BY <1>3, <1>4, IntentSet
<1>6. MoneyOK'
  <2>1. nonce' \in [Account -> 0..MaxNonce] /\ UNCHANGED <<now, moneyVars>>
    BY OwnerKnown, NonceTyped DEF BatchCommit
  <2> QED
    BY <2>1 DEF MoneyOK, AccountsTypeOK, moneyVars
<1>7. WorkOK'
  <2>1. used' \in [Miner -> Nat]
    <3>1. used' = [n \in Miner |-> IF n = m THEN used[n] + fresh
                                   ELSE IF n = x.Receipts[s] THEN Minus(used[n], 1) ELSE used[n]]
      BY DEF BatchCommit
    <3>2. fresh \in Nat /\ \A n \in Miner : used[n] \in Nat
      BY DEF WorkOK
    <3> HIDE DEF fresh
    <3>3. \A n \in Miner : used[n] + fresh \in Nat
      BY <3>2
    <3>4. \A n \in Miner : Minus(used[n], 1) \in Nat
      BY <3>2, MinusNat
    <3> QED
      BY <3>1, <3>2, <3>3, <3>4
  <2>2. reserved' \in [Miner -> Nat]
    <3>1. reserved' = [n \in Miner |-> Minus(reserved[n], freed(n))]
      BY DEF BatchCommit
    <3>2. \A n \in Miner : freed(n) \in Nat /\ reserved[n] \in Nat
      BY DEF WorkOK
    <3>3. \A n \in Miner : Minus(reserved[n], freed(n)) \in Nat
      <4> HIDE DEF freed
      <4> QED
        BY <3>2, MinusNat
    <3> QED
      BY <3>1, <3>3
  <2>3. tasks \subseteq repairTasks
    BY DEF pendingRepairTask
  <2>4. /\ repairTasks' = (repairTasks \ tasks) \cup {[t EXCEPT !.Status = "proof_pending"] : t \in tasks}
        /\ challenges' = challenges \cup
             {storageChallengeForReceipt(t.Intent, t.Shard, t.Miner, TRUE) : t \in tasks}
        /\ UNCHANGED misses
    BY DEF BatchCommit, requireRepairProof
  <2> HIDE DEF tasks
  <2>5. \A t \in repairTasks : t.Intent \in IntentID /\ intents'[t.Intent] # None /\ t.Shard \in Shards(t.Intent)
    BY <1>5 DEF WorkOK, RepairTask, Lasting
  <2>6. \A c \in challenges : c.Intent \in IntentID /\ intents'[c.Intent] # None /\ c.Shard \in Shards(c.Intent)
    BY <1>5 DEF WorkOK, StorageChallenge, Lasting
  <2>7. ASSUME NEW t \in tasks
        PROVE  /\ [t EXCEPT !.Status = "proof_pending"] \in RepairTask
               /\ [t EXCEPT !.Status = "proof_pending"].Intent = t.Intent
               /\ [t EXCEPT !.Status = "proof_pending"].Shard = t.Shard
    <3>1. t \in RepairTask
      BY <2>3 DEF WorkOK
    <3> QED
      BY <3>1 DEF RepairTask
  <2>8. \A t \in repairTasks' : t \in RepairTask /\ Exists(t.Intent)' /\ t.Shard \in Shards(t.Intent)
    <3> SUFFICES ASSUME NEW t \in repairTasks'
                 PROVE  t \in RepairTask /\ intents'[t.Intent] # None /\ t.Shard \in Shards(t.Intent)
      BY DEF Exists
    <3>1. CASE t \in repairTasks
      BY <3>1, <2>5 DEF WorkOK
    <3>2. CASE t \notin repairTasks
      <4>1. PICK u \in tasks : t = [u EXCEPT !.Status = "proof_pending"]
        BY <2>4, <3>2
      <4> QED
        BY <4>1, <2>3, <2>5, <2>7
    <3> QED
      BY <3>1, <3>2
  <2>9. \A c \in challenges' : c \in StorageChallenge /\ Exists(c.Intent)' /\ c.Shard \in Shards(c.Intent)
    <3> SUFFICES ASSUME NEW c \in challenges'
                 PROVE  c \in StorageChallenge /\ intents'[c.Intent] # None /\ c.Shard \in Shards(c.Intent)
      BY DEF Exists
    <3>1. CASE c \in challenges
      BY <3>1, <2>6 DEF WorkOK
    <3>2. CASE c \notin challenges
      <4>1. PICK t \in tasks : c = storageChallengeForReceipt(t.Intent, t.Shard, t.Miner, TRUE)
        BY <2>4, <3>2
      <4>2. t \in RepairTask /\ t \in repairTasks
        BY <2>3 DEF WorkOK
      <4>3. now + 1 \in Nat
        BY AccountAssumption DEF MoneyOK, AccountsTypeOK
      <4>4. c.Intent = t.Intent /\ c.Shard = t.Shard /\ c \in StorageChallenge
        BY <4>1, <4>2, <4>3 DEF storageChallengeForReceipt, StorageChallenge, RepairTask
      <4> QED
        BY <4>2, <4>4, <2>5
    <3> QED
      BY <3>1, <3>2
  <2>10. IsFiniteSet(repairTasks')
    <3>1. IsFiniteSet(tasks) /\ IsFiniteSet(repairTasks \ tasks)
      BY <2>3, FS_Subset DEF WorkOK
    <3> DEFINE g == [t \in tasks |-> [t EXCEPT !.Status = "proof_pending"]]
    <3>2. {g[t] : t \in tasks} = {[t EXCEPT !.Status = "proof_pending"] : t \in tasks}
      OBVIOUS
    <3> HIDE DEF g
    <3>3. IsFiniteSet({g[t] : t \in tasks})
      BY <3>1, ImageFinite
    <3> QED
      BY <2>4, <3>1, <3>2, <3>3, FS_Union
  <2> QED
    BY <2>1, <2>2, <2>4, <2>8, <2>9, <2>10 DEF WorkOK
<1>8. DeletionOK'
  <2>1. late' \in BOOLEAN
    BY DEF BatchCommit
  <2> QED
    BY <1>5, <2>1, SameDeletion DEF BatchCommit
<1> QED
  BY <1>5, <1>6, <1>7, <1>8

LEMMA BatchCommitLateForm ==
  ASSUME WellFormed, NEW i \in IntentID, BatchCommitLate(i)
  PROVE  WellFormed' /\ Lasting
<1> USE DEF WellFormed
<1> DEFINE x == intents[i]
           y == [x EXCEPT !.Status = "expired"]
<1>1. x \in Intent(i)
  BY IntentExists DEF BatchCommitLate
<1>2. y \in Intent(i)
  BY <1>1 DEF Intent
<1>3. intents' = [intents EXCEPT ![i] = y]
  BY DEF BatchCommitLate
<1> HIDE DEF y
<1>4. IntentsOK' /\ Lasting
  BY <1>2, <1>3, IntentSet
<1>5. UNCHANGED <<accountVars, funds, feePool, subsidyPool, shardVars, deleteVars, blacklist,
                  vested, storageRewards, late>>
  BY DEF BatchCommitLate
<1>6. MoneyOK'
  BY <1>5, SameMoney DEF accountVars, moneyVars
<1>7. WorkOK'
  BY <1>4, <1>5, SameWork
<1>8. DeletionOK'
  BY <1>4, <1>5, SameDeletion DEF DeletionOK
<1> QED
  BY <1>4, <1>6, <1>7, <1>8

\* The split of the fee: three shares leave it, one of them burned.
SplitOf(x) == [x EXCEPT !.LockedFee = x.LockedFee - 3 * Share(x.LockedFee),
                        !.BurnedFee = Share(x.LockedFee), !.BurnDeferred = FALSE]

LEMMA SplitTyped ==
  ASSUME NEW i \in IntentID, NEW x \in Intent(i)
  PROVE  SplitOf(x) \in Intent(i)
<1> DEFINE n == x.LockedFee - 3 * Share(x.LockedFee)
           k == Share(x.LockedFee)
<1>1. n \in Nat /\ k \in Nat
  <2>1. x.LockedFee \in Nat
    BY DEF Intent
  <2> QED
    BY <2>1, ShareSmall
<1> HIDE DEF n, k
<1>2. [x EXCEPT !.LockedFee = n, !.BurnedFee = k, !.BurnDeferred = FALSE] \in Intent(i)
  BY <1>1 DEF Intent
<1> QED
  BY <1>2 DEF SplitOf, n, k

LEMMA DeferredBurnForm ==
  ASSUME WellFormed, NEW i \in IntentID, NEW x \in Intent(i), executeDeferredBurn(i, x),
         UNCHANGED <<now, subsidyPool, vested, storageRewards>>, nonce' \in [Account -> 0..MaxNonce]
  PROVE  MoneyOK' /\ IntentsOK' /\ Lasting
<1> USE DEF WellFormed
<1> DEFINE share == Share(x.LockedFee)
           y == SplitOf(x)
<1>1. y \in Intent(i) /\ x.LockedFee \in Nat
  BY SplitTyped DEF Intent
<1>2. share \in Nat /\ 3 * share \in Nat
  BY <1>1, ShareSmall
<1>3. CASE ~x.BurnDeferred
  <2>1. intents' = [intents EXCEPT ![i] = x] /\ UNCHANGED <<lockedStorage, balance, feePool, funds>>
    BY <1>3 DEF executeDeferredBurn
  <2>2. IntentsOK' /\ Lasting
    BY <2>1, IntentSet
  <2>3. MoneyOK'
    BY <2>1 DEF MoneyOK, AccountsTypeOK
  <2> QED
    BY <2>2, <2>3
<1>4. CASE x.BurnDeferred
  <2>1. /\ lockedStorage' = [lockedStorage EXCEPT ![Owner] = Minus(@, 3 * share)]
        /\ balance' = [b \in Account |-> balance[b] + (IF b = Retrieval THEN share ELSE 0)
                                                    + (IF b = Foundation THEN share ELSE 0)]
        /\ feePool' = [feePool EXCEPT !.Locked = @ + y.LockedFee, !.Burned = @ + share]
        /\ funds' = IF isPermanentIntent(x)
                    THEN [funds EXCEPT ![i] = ensurePermanentFund(i, y)] ELSE funds
        /\ intents' = [intents EXCEPT ![i] = y]
    BY <1>4 DEF executeDeferredBurn, SplitOf
  <2> HIDE DEF y, share
  <2>2. IntentsOK' /\ Lasting
    BY <2>1, <1>1, IntentSet
  <2>3. funds' \in [IntentID -> PermanentStorageFund \cup {None}]
    <3>1. ensurePermanentFund(i, y) \in PermanentStorageFund
      BY <1>1, FundTyped
    <3> QED
      BY <2>1, <3>1 DEF MoneyOK
  <2>4. balance' \in [Account -> Nat]
    <3>1. \A b \in Account : balance[b] + (IF b = Retrieval THEN share ELSE 0)
                                        + (IF b = Foundation THEN share ELSE 0) \in Nat
      BY <1>2 DEF MoneyOK, AccountsTypeOK
    <3> QED
      BY <2>1, <3>1
  <2>5. lockedStorage' \in [Account -> Nat]
    <3>1. Minus(lockedStorage[Owner], 3 * share) \in Nat
      BY <1>2, MinusNat, OwnerKnown DEF MoneyOK, AccountsTypeOK
    <3> QED
      BY <2>1, <3>1 DEF MoneyOK, AccountsTypeOK
  <2>6. feePool' \in StorageFeePool
    <3>1. y.LockedFee \in Nat
      BY <1>1 DEF Intent
    <3> DEFINE k == feePool.Locked + y.LockedFee
               l == feePool.Burned + share
    <3>2. k \in Nat /\ l \in Nat
      BY <3>1, <1>2 DEF MoneyOK, StorageFeePool
    <3>3. feePool' = [feePool EXCEPT !.Locked = k, !.Burned = l]
      BY <2>1
    <3> HIDE DEF k, l
    <3> QED
      BY <3>2, <3>3 DEF MoneyOK, StorageFeePool
  <2>7. MoneyOK'
    BY <2>3, <2>4, <2>5, <2>6 DEF MoneyOK, AccountsTypeOK
  <2> QED
    BY <2>2, <2>7
<1> QED
  BY <1>3, <1>4

\* What Finalize makes of the intent before the fee is split.
Made(x) ==
  [x EXCEPT !.Status = "finalized", !.StorageStatus = "active", !.ModerationStatus = "none",
            !.ExpiresAt = IF isPermanentIntent(x) THEN @ ELSE now + x.Policy.Duration,
            !.StartAt = IF @ = None THEN now ELSE @]

LEMMA MadeTyped ==
  ASSUME WellFormed, NEW i \in IntentID, NEW x \in Intent(i)
  PROVE  Made(x) \in Intent(i)
<1> DEFINE k == IF isPermanentIntent(x) THEN x.ExpiresAt ELSE now + x.Policy.Duration
           j == IF x.StartAt = None THEN now ELSE x.StartAt
<1>1. k \in Nat /\ j \in Nat
  BY AccountAssumption DEF Intent, Policy, WellFormed, MoneyOK, AccountsTypeOK
<1> HIDE DEF k, j
<1>2. [x EXCEPT !.Status = "finalized", !.StorageStatus = "active", !.ModerationStatus = "none",
                !.ExpiresAt = k, !.StartAt = j] \in Intent(i)
  BY <1>1 DEF Intent
<1> QED
  BY <1>2 DEF Made, k, j

LEMMA FinalizeForm ==
  ASSUME WellFormed, NEW i \in IntentID, Finalize(i)
  PROVE  WellFormed' /\ Lasting
<1> USE DEF WellFormed
<1> DEFINE x == intents[i]
<1>1. x \in Intent(i)
  BY IntentExists DEF Finalize
<1>2. executeDeferredBurn(i, Made(x))
  BY DEF Finalize, Made
<1>3. nonce' \in [Account -> 0..MaxNonce]
  BY OwnerKnown, NonceTyped DEF Finalize
<1>4. UNCHANGED <<now, subsidyPool, shardVars, deleteVars, blacklist, vested, storageRewards>>
      /\ late' \in BOOLEAN
  BY DEF Finalize
<1> HIDE DEF x
<1>5. MoneyOK' /\ IntentsOK' /\ Lasting
  BY <1>1, <1>2, <1>3, <1>4, MadeTyped, DeferredBurnForm
<1>6. WorkOK'
  BY <1>4, <1>5, SameWork
<1>7. DeletionOK'
  BY <1>4, <1>5, SameDeletion
<1> QED
  BY <1>5, <1>6, <1>7

\* What two records of a deal may have in common: its fees, its shards.
SameFees(x, y) ==
  /\ y.Policy = x.Policy /\ y.BurnDeferred = x.BurnDeferred
  /\ y.LockedFee = x.LockedFee /\ y.PaidFee = x.PaidFee
  /\ y.RefundedFee = x.RefundedFee /\ y.BurnedFee = x.BurnedFee

SameShards(x, y) ==
  /\ y.Assignments = x.Assignments /\ y.Receipts = x.Receipts
  /\ y.DeleteTaskCount = x.DeleteTaskCount /\ y.DeleteReceiptCount = x.DeleteReceiptCount

LEMMA FeePoolTyped ==
  ASSUME MoneyOK, NEW amount \in Nat,
         addDealEscrowFunds(amount) \/ recordStorageFeeRefund(amount) \/ recordStorageFeeBurn(amount)
  PROVE  feePool' \in StorageFeePool
BY DEF MoneyOK, StorageFeePool, addDealEscrowFunds, recordStorageFeeRefund, recordStorageFeeBurn

LEMMA ReleaseTyped ==
  ASSUME WellFormed, NEW i \in IntentID
  PROVE  releaseUncommitted(i) \in [Miner -> Nat]
<1> DEFINE S(m) == {s \in Shards(i) : intents[i].Assignments[s] = m /\ intents[i].Receipts[s] = None}
<1>1. ASSUME NEW m \in Miner
      PROVE  Minus(reserved[m], Cardinality(S(m))) \in Nat
  <2>1. Cardinality(S(m)) \in Nat
    BY ShardsFinite
  <2>2. reserved[m] \in Nat
    BY DEF WellFormed, WorkOK
  <2> HIDE DEF S
  <2> QED
    BY <2>1, <2>2, MinusNat
<1> QED
  BY <1>1 DEF releaseUncommitted

LEMMA SettledTyped ==
  ASSUME NEW i \in IntentID, NEW x \in Intent(i), Settled(x) # None
  PROVE  /\ Settled(x) \in Intent(i)
         /\ SameFees(x, Settled(x)) /\ SameShards(x, Settled(x))
         /\ Settled(x).ExpiresAt = x.ExpiresAt
         /\ Settled(x).Status = "finalized" \/ Settled(x).Status = "expired"
         /\ Settled(x).Status = "finalized" => x.Status = "finalized"
<1> DEFINE y1 == [x EXCEPT !.Status = "expired", !.StorageStatus = "expired", !.AccessStatus = "suspended"]
           y2 == [x EXCEPT !.AccessStatus = "suspended"]
<1>1. /\ y1 \in Intent(i) /\ SameFees(x, y1) /\ SameShards(x, y1) /\ y1.Status = "expired"
      /\ y1.ExpiresAt = x.ExpiresAt
  BY DEF Intent, SameFees, SameShards
<1>2. /\ y2 \in Intent(i) /\ SameFees(x, y2) /\ SameShards(x, y2) /\ y2.Status = x.Status
      /\ y2.ExpiresAt = x.ExpiresAt
  BY DEF Intent, SameFees, SameShards
<1>3. \/ Settled(x) = y1
      \/ Settled(x) = y2 /\ x.Status = "finalized"
      \/ Settled(x) = x /\ x.Status = "expired"
  BY DEF Settled
<1>4. SameFees(x, x) /\ SameShards(x, x)
  BY DEF SameFees, SameShards
<1> HIDE DEF y1, y2
<1> QED
  BY <1>1, <1>2, <1>3, <1>4

LEMMA SettleForm ==
  ASSUME WellFormed, NEW i \in IntentID, Exists(i), settleIntent(i), nonce' \in [Account -> 0..MaxNonce]
  PROVE  WellFormed' /\ Lasting
<1> USE DEF WellFormed
<1> DEFINE x == Settled(intents[i])
           e == remainingIntentEscrow(x)
           refund == Least({e, lockedStorage[Owner]})
<1>1. x \in Intent(i)
  BY IntentExists, SettledTyped DEF settleIntent
<1>2. lockedStorage[Owner] \in Nat /\ balance[Owner] \in Nat
  BY OwnerKnown DEF MoneyOK, AccountsTypeOK
<1>3. refund \in Nat /\ refund <= lockedStorage[Owner]
  <2>1. e \in Nat
    BY <1>1, EscrowNat
  <2> HIDE DEF e
  <2> QED
    BY <1>2, <2>1, LeastOfTwo
<1>4. UNCHANGED <<now, funds, subsidyPool, used, repairTasks, challenges, misses, deleteVars, blacklist,
                  vested, storageRewards>>
  BY DEF settleIntent
<1>5. CASE x.Status = "finalized"
  <2>1. intents' = [intents EXCEPT ![i] = x] /\ UNCHANGED <<balance, lockedStorage, feePool, reserved, late>>
    BY <1>5 DEF settleIntent
  <2> HIDE DEF x
  <2>2. IntentsOK' /\ Lasting
    BY <1>1, <2>1, IntentSet
  <2>3. MoneyOK'
    BY <1>4, <2>1 DEF MoneyOK, AccountsTypeOK
  <2>4. WorkOK'
    BY <1>4, <2>1, <2>2, SameWork DEF shardVars
  <2>5. DeletionOK'
    BY <1>4, <2>1, <2>2, SameDeletion DEF DeletionOK
  <2> QED
    BY <2>2, <2>3, <2>4, <2>5
<1>6. CASE x.Status # "finalized"
  <2> DEFINE y == [x EXCEPT !.RefundedFee = @ + refund]
  <2>1. /\ intents' = [intents EXCEPT ![i] = y]
        /\ reserved' = releaseUncommitted(i)
        /\ lockedStorage' = [lockedStorage EXCEPT ![Owner] = @ - refund]
        /\ balance' = [balance EXCEPT ![Owner] = @ + refund]
        /\ recordStorageFeeRefund(refund)
        /\ late' \in BOOLEAN
    BY <1>6 DEF settleIntent
  <2> HIDE DEF x, refund
  <2>2. y \in Intent(i)
    BY <1>1, <1>3 DEF Intent
  <2> HIDE DEF y
  <2>3. IntentsOK' /\ Lasting
    BY <2>1, <2>2, IntentSet
  <2>4. MoneyOK'
    <3>1. feePool' \in StorageFeePool
      BY <1>3, <2>1, FeePoolTyped
    <3>2. lockedStorage[Owner] - refund \in Nat /\ balance[Owner] + refund \in Nat
      BY <1>2, <1>3
    <3>3. lockedStorage' \in [Account -> Nat] /\ balance' \in [Account -> Nat]
      BY <2>1, <3>2 DEF MoneyOK, AccountsTypeOK
    <3> QED
      BY <1>4, <3>1, <3>3 DEF MoneyOK, AccountsTypeOK
  <2>5. WorkOK'
    <3>1. reserved' \in [Miner -> Nat]
      BY <2>1, ReleaseTyped
    <3>2. \A t \in repairTasks : t.Intent \in IntentID
      BY DEF WorkOK, RepairTask
    <3>3. \A c \in challenges : c.Intent \in IntentID
      BY DEF WorkOK, StorageChallenge
    <3> QED
      BY <1>4, <2>3, <3>1, <3>2, <3>3 DEF WorkOK, Lasting, Exists
  <2>6. DeletionOK'
    BY <1>4, <2>1, <2>3, SameDeletion
  <2> QED
    BY <2>3, <2>4, <2>5, <2>6
<1> QED
  BY <1>5, <1>6

LEMMA RenewedTyped ==
  ASSUME NEW i \in IntentID, NEW x \in Intent(i), Renewed(x) # None
  PROVE  /\ Renewed(x) \in Intent(i)
         /\ SameFees(x, Renewed(x)) /\ SameShards(x, Renewed(x))
         /\ Renewed(x).ExpiresAt = x.ExpiresAt /\ x.ExpiresAt # 0
         /\ Renewed(x).Status = "finalized"
         /\ Renewed(x).ModerationStatus = x.ModerationStatus
<1> DEFINE y == [x EXCEPT !.Status = "finalized", !.StorageStatus = "active"]
<1>1. /\ y \in Intent(i) /\ SameFees(x, y) /\ SameShards(x, y) /\ y.ExpiresAt = x.ExpiresAt
      /\ y.Status = "finalized" /\ y.ModerationStatus = x.ModerationStatus
  BY DEF Intent, SameFees, SameShards
<1>2. x.ExpiresAt # 0 /\ (Renewed(x) = y \/ (Renewed(x) = x /\ x.Status = "finalized"))
  <2> DEFINE running == x.Status = "finalized" /\ x.ExpiresAt > now
             inGrace == x.Status \in {"finalized", "expired"} /\ now <= x.ExpiresAt + Grace
             none == x.ExpiresAt = 0 \/ ~x.Policy.Renewable \/ ~(running \/ inGrace)
  <2>1. Renewed(x) = IF none THEN None ELSE IF running THEN x ELSE y
    BY DEF Renewed
  <2>2. none \/ (x.ExpiresAt # 0 /\ (running => x.Status = "finalized"))
    OBVIOUS
  <2> HIDE DEF none, running, inGrace, y
  <2> QED
    BY <2>1, <2>2
<1>3. SameFees(x, x) /\ SameShards(x, x)
  BY DEF SameFees, SameShards
<1> HIDE DEF y
<1> QED
  BY <1>1, <1>2, <1>3

LEMMA DurationNat ==
  ASSUME WellFormed, NEW i \in IntentID, NEW x \in Intent(i)
  PROVE  now + x.Policy.Duration \in Nat
BY AccountAssumption DEF WellFormed, MoneyOK, AccountsTypeOK, Intent, Policy

LEMMA RenewDealForm ==
  ASSUME WellFormed, NEW i \in IntentID, RenewDeal(i)
  PROVE  WellFormed' /\ Lasting
<1> USE DEF WellFormed
<1> DEFINE x == Renewed(expireGovernanceAction(intents[i]))
           n == x.LockedFee + RenewPrice
           k == now + x.Policy.Duration
           y == [x EXCEPT !.LockedFee = n, !.ExpiresAt = k]
<1>1. x \in Intent(i)
  BY IntentExists, ExpireKeeps, RenewedTyped DEF RenewDeal
<1>2. /\ intents' = [intents EXCEPT ![i] = y]
      /\ balance[Owner] >= RenewPrice /\ consumeAccountNonce(Owner)
      /\ balance' = [balance EXCEPT ![Owner] = @ - RenewPrice]
      /\ lockedStorage' = [lockedStorage EXCEPT ![Owner] = @ + RenewPrice]
      /\ addDealEscrowFunds(RenewPrice)
      /\ UNCHANGED <<now, funds, subsidyPool, shardVars, deleteVars, blacklist, vested,
                     storageRewards, late>>
  BY DEF RenewDeal
<1>3. RenewPrice \in Nat
  BY DealAssumption
<1> HIDE DEF x
<1>4. n \in Nat /\ k \in Nat
  <2>1. x.LockedFee \in Nat
    BY <1>1 DEF Intent
  <2> QED
    BY <1>1, <1>3, <2>1, DurationNat
<1> HIDE DEF n, k
<1>5. y \in Intent(i)
  BY <1>1, <1>4 DEF Intent
<1> HIDE DEF y
<1>6. IntentsOK' /\ Lasting
  BY <1>2, <1>5, IntentSet
<1>7. MoneyOK'
  <2>1. feePool' \in StorageFeePool
    BY <1>2, <1>3, FeePoolTyped
  <2>2. nonce' \in [Account -> 0..MaxNonce]
    BY <1>2, OwnerKnown, NonceTyped
  <2>3. lockedStorage' \in [Account -> Nat] /\ balance' \in [Account -> Nat]
    BY <1>2, <1>3, OwnerKnown DEF MoneyOK, AccountsTypeOK
  <2> QED
    BY <1>2, <2>1, <2>2, <2>3 DEF MoneyOK, AccountsTypeOK
<1>8. WorkOK'
  BY <1>2, <1>6, SameWork
<1>9. DeletionOK'
  BY <1>2, <1>6, SameDeletion DEF DeletionOK
<1> QED
  BY <1>6, <1>7, <1>8, <1>9

\* An action that only changes what one intent says of its status.
LEMMA QuietForm ==
  ASSUME WellFormed, NEW i \in IntentID, NEW y \in Intent(i), intents' = [intents EXCEPT ![i] = y],
         UNCHANGED <<now, moneyVars, shardVars, deleteVars, late>>,
         nonce' \in [Account -> 0..MaxNonce], blacklist' \in [Hash -> Nat \cup {None}]
  PROVE  WellFormed' /\ Lasting
<1> USE DEF WellFormed
<1>1. IntentsOK' /\ Lasting
  BY IntentSet
<1>2. MoneyOK'
  BY DEF MoneyOK, moneyVars, AccountsTypeOK
<1>3. WorkOK'
  BY <1>1, SameWork
<1>4. DeletionOK'
  <2>1. \A t \in deleteTasks : t.Intent \in IntentID
    BY DEF DeletionOK, DeleteTask
  <2> QED
    BY <1>1, <2>1 DEF DeletionOK, deleteVars, Lasting, Exists
<1> QED
  BY <1>1, <1>2, <1>3, <1>4

LEMMA NonceSame ==
  ASSUME WellFormed, UNCHANGED nonce
  PROVE  nonce' \in [Account -> 0..MaxNonce]
BY DEF WellFormed, MoneyOK, AccountsTypeOK

LEMMA BlacklistSame ==
  ASSUME WellFormed, UNCHANGED blacklist
  PROVE  blacklist' \in [Hash -> Nat \cup {None}]
BY DEF WellFormed, DeletionOK

LEMMA RenewRefusedForm ==
  ASSUME WellFormed, NEW i \in IntentID, RenewRefused(i)
  PROVE  WellFormed' /\ Lasting
<1> DEFINE x == Renewed(expireGovernanceAction(intents[i]))
<1>1. x \in Intent(i)
  BY IntentExists, ExpireKeeps, RenewedTyped DEF RenewRefused, WellFormed
<1>2. /\ intents' = [intents EXCEPT ![i] = x]
      /\ UNCHANGED <<accountVars, funds, feePool, subsidyPool, shardVars, deleteVars, blacklist,
                     vested, storageRewards, late>>
  BY DEF RenewRefused
<1> HIDE DEF x
<1> QED
  BY <1>1, <1>2, QuietForm, NonceSame, BlacklistSame DEF accountVars, moneyVars

LEMMA SetAccessForm ==
  ASSUME WellFormed, NEW i \in IntentID, NEW status \in AccessStatus, SetAccessPolicy(i, status)
  PROVE  WellFormed' /\ Lasting
<1> DEFINE x == expireGovernanceAction(intents[i])
           y == [x EXCEPT !.AccessStatus = status]
<1>1. x \in Intent(i)
  BY IntentExists, ExpireKeeps DEF SetAccessPolicy, WellFormed
<1>2. intents' = [intents EXCEPT ![i] = y] /\ nonce' \in [Account -> 0..MaxNonce]
      /\ UNCHANGED <<now, moneyVars, shardVars, deleteVars, blacklist, late>>
  BY OwnerKnown, NonceTyped DEF SetAccessPolicy, WellFormed
<1> HIDE DEF x
<1>3. y \in Intent(i)
  BY <1>1 DEF Intent, AccessStatus
<1> HIDE DEF y
<1> QED
  BY <1>2, <1>3, QuietForm, BlacklistSame

\* A request that is signed, or the node's own settlement.
LEMMA SettleIntentForm ==
  ASSUME WellFormed, NEW i \in IntentID, SettleIntent(i) \/ SettleExpiredIntents(i)
  PROVE  WellFormed' /\ Lasting
<1>1. nonce' \in [Account -> 0..MaxNonce]
  BY OwnerKnown, NonceTyped, NonceSame DEF SettleIntent, SettleExpiredIntents, WellFormed
<1>2. Exists(i) /\ settleIntent(i)
  BY DEF SettleIntent, SettleExpiredIntents
<1> QED
  BY <1>1, <1>2, SettleForm

\* What the owner pays in renewals is no more than it has.
LEMMA Affordable ==
  ASSUME NEW n \in Nat, NEW money \in Nat
  PROVE  LET k == Least({n, money \div RenewPrice})
         IN  k \in Nat /\ k <= n /\ RenewPrice * k \in Nat /\ RenewPrice * k <= money
<1> DEFINE q == money \div RenewPrice
           k == Least({n, q})
<1>1. RenewPrice \in Nat \ {0}
  BY DealAssumption
<1>2. q \in Nat /\ q * RenewPrice <= money
  BY <1>1
<1> HIDE DEF q
<1>3. k \in Nat /\ k <= n /\ k <= q
  BY <1>2, LeastOfTwo
<1> HIDE DEF k
<1>4. RenewPrice * k \in Nat /\ RenewPrice * k <= q * RenewPrice
  BY <1>1, <1>2, <1>3
<1> DEFINE p == RenewPrice * k
           r == q * RenewPrice
<1>5. p \in Nat /\ p <= r /\ r <= money /\ r \in Int
  BY <1>1, <1>2, <1>4
<1> HIDE DEF p, r
<1>6. p \in Nat /\ p <= money
  BY <1>5
<1> QED
  BY <1>3, <1>6 DEF k, q, p

AutoRenewed(S) ==
  [i \in IntentID |->
     IF i \in S THEN [intents[i] EXCEPT !.LockedFee = @ + RenewPrice,
                                        !.ExpiresAt = now + intents[i].Policy.Duration]
     ELSE intents[i]]

LEMMA AutoRenewForm ==
  ASSUME WellFormed, autoRenewDeals
  PROVE  WellFormed' /\ Lasting
<1> USE DEF WellFormed
<1> DEFINE due == {i \in IntentID : Exists(i) /\ autoRenewDue(intents[i])}
           affordable == Least({Cardinality(due), balance[Owner] \div RenewPrice})
           cost == RenewPrice * affordable
<1>1. PICK S \in SUBSET due :
        /\ balance' = [balance EXCEPT ![Owner] = @ - cost]
        /\ lockedStorage' = [lockedStorage EXCEPT ![Owner] = @ + cost]
        /\ addDealEscrowFunds(cost)
        /\ intents' = AutoRenewed(S)
        /\ UNCHANGED <<nonce, now, funds, subsidyPool, shardVars, deleteVars, blacklist, vested,
                       storageRewards, late>>
  BY DEF autoRenewDeals, AutoRenewed
<1>2. Cardinality(due) \in Nat
  BY FileAssumption, FS_Subset, FS_CardinalityType
<1>3. balance[Owner] \in Nat /\ lockedStorage[Owner] \in Nat
  BY OwnerKnown DEF MoneyOK, AccountsTypeOK
<1>4. cost \in Nat /\ cost <= balance[Owner]
  <2> HIDE DEF due
  <2> QED
    BY <1>2, <1>3, Affordable
<1>5. \A i \in S : i \in IntentID /\ Exists(i)
  OBVIOUS
<1> HIDE DEF due, affordable, cost
<1>6. MoneyOK'
  <2>1. feePool' \in StorageFeePool
    BY <1>1, <1>4, FeePoolTyped
  <2>2. balance[Owner] - cost \in Nat /\ lockedStorage[Owner] + cost \in Nat
    BY <1>3, <1>4
  <2>3. lockedStorage' \in [Account -> Nat] /\ balance' \in [Account -> Nat]
    BY <1>1, <2>2 DEF MoneyOK, AccountsTypeOK
  <2> QED
    BY <1>1, <2>1, <2>3 DEF MoneyOK, AccountsTypeOK
<1>7. ASSUME NEW i \in S
      PROVE  [intents[i] EXCEPT !.LockedFee = @ + RenewPrice,
                !.ExpiresAt = now + intents[i].Policy.Duration] \in Intent(i)
  <2> DEFINE x == intents[i]
             n == x.LockedFee + RenewPrice
             k == now + x.Policy.Duration
  <2>1. x \in Intent(i)
    BY <1>5, IntentExists
  <2>2. n \in Nat /\ k \in Nat
    <3>1. x.LockedFee \in Nat /\ RenewPrice \in Nat
      BY <2>1, DealAssumption DEF Intent
    <3>2. k \in Nat
      BY <2>1, <1>5, DurationNat
    <3> QED
      BY <3>1, <3>2
  <2> HIDE DEF x, n, k
  <2>3. [x EXCEPT !.LockedFee = n, !.ExpiresAt = k] \in Intent(i)
    BY <2>1, <2>2 DEF Intent
  <2> QED
    BY <2>3 DEF n, k, x
<1>8. IntentsOK' /\ Lasting
  <2>1. DOMAIN intents' = IntentID
    BY <1>1 DEF AutoRenewed
  <2>2. ASSUME NEW i \in IntentID
        PROVE  /\ intents'[i] \in Intent(i) \cup {None}
               /\ Exists(i) => intents'[i] # None
    <3>1. CASE i \in S
      BY <1>1, <1>7, <3>1, DealNone DEF AutoRenewed
    <3>2. CASE i \notin S
      BY <1>1, <3>2 DEF AutoRenewed, IntentsOK, Exists
    <3> QED
      BY <3>1, <3>2
  <2> QED
    BY <2>1, <2>2 DEF IntentsOK, Lasting
<1>9. WorkOK'
  BY <1>1, <1>8, SameWork
<1>10. DeletionOK'
  BY <1>1, <1>8, SameDeletion DEF DeletionOK
<1> QED
  BY <1>6, <1>8, <1>9, <1>10

LEMMA TopUpForm ==
  ASSUME WellFormed, NEW i \in IntentID, NEW amount \in Nat, TopUpPermanentFund(i, amount)
  PROVE  WellFormed' /\ Lasting
<1> USE DEF WellFormed
<1> DEFINE x == intents[i]
           fund == ensurePermanentFund(i, x)
           y == [x EXCEPT !.LockedFee = @ + amount]
           b == fund.Balance + amount
           g == [fund EXCEPT !.Balance = b, !.Closed = FALSE]
<1>1. /\ balance[Owner] >= amount /\ consumeAccountNonce(Owner)
      /\ balance' = [balance EXCEPT ![Owner] = @ - amount]
      /\ lockedStorage' = [lockedStorage EXCEPT ![Owner] = @ + amount]
      /\ funds' = [funds EXCEPT ![i] = g]
      /\ addDealEscrowFunds(amount)
      /\ intents' = [intents EXCEPT ![i] = y]
      /\ UNCHANGED <<now, subsidyPool, shardVars, deleteVars, blacklist, vested, storageRewards, late>>
  BY DEF TopUpPermanentFund
<1>2. x \in Intent(i)
  BY IntentExists DEF TopUpPermanentFund
<1>3. y \in Intent(i)
  BY <1>2 DEF Intent
<1>4. fund \in PermanentStorageFund
  <2> HIDE DEF x
  <2> QED
    BY <1>2, FundTyped
<1> HIDE DEF x, y, fund
<1>5. g \in PermanentStorageFund
  <2>1. b \in Nat
    BY <1>4 DEF PermanentStorageFund
  <2> HIDE DEF b
  <2> QED
    BY <1>4, <2>1 DEF PermanentStorageFund
<1> HIDE DEF g
<1>6. IntentsOK' /\ Lasting
  BY <1>1, <1>3, IntentSet
<1>7. MoneyOK'
  <2>1. feePool' \in StorageFeePool
    BY <1>1, FeePoolTyped
  <2>2. nonce' \in [Account -> 0..MaxNonce]
    BY <1>1, OwnerKnown, NonceTyped
  <2>3. lockedStorage' \in [Account -> Nat] /\ balance' \in [Account -> Nat]
    BY <1>1, OwnerKnown DEF MoneyOK, AccountsTypeOK
  <2>4. funds' \in [IntentID -> PermanentStorageFund \cup {None}]
    BY <1>1, <1>5 DEF MoneyOK
  <2> QED
    BY <1>1, <2>1, <2>2, <2>3, <2>4 DEF MoneyOK, AccountsTypeOK
<1>8. WorkOK'
  BY <1>1, <1>6, SameWork
<1>9. DeletionOK'
  BY <1>1, <1>6, SameDeletion DEF DeletionOK
<1> QED
  BY <1>6, <1>7, <1>8, <1>9

LEMMA AccruedNat ==
  ASSUME WellFormed, NEW i \in IntentID, NEW x \in Intent(i)
  PROVE  finiteDealEscrowAccrued(x) \in Nat
<1> DEFINE start == IF x.StartAt = None THEN CreatedAt(x) ELSE x.StartAt
           duration == IF x.ExpiresAt > start THEN x.ExpiresAt - start ELSE x.Policy.Duration
<1>1. start \in Nat /\ now \in Nat /\ x.LockedFee \in Nat
  <2>1. UploadTime \in Nat
    BY DealAssumption
  <2>2. CreatedAt(x) \in Nat
    BY <2>1 DEF CreatedAt, Intent
  <2> QED
    BY <2>2, AccountAssumption DEF Intent, WellFormed, MoneyOK, AccountsTypeOK
<1>2. x.ExpiresAt \in Nat /\ x.Policy.Duration \in Nat
  BY DEF Intent, Policy
<1> HIDE DEF start
<1>3. duration \in Nat
  BY <1>1, <1>2
<1> HIDE DEF duration
<1>4. finiteDealEscrowAccrued(x) = IF now <= start THEN 0
      ELSE IF now - start >= duration THEN x.LockedFee
      ELSE (x.LockedFee * (now - start)) \div duration
  BY DEF finiteDealEscrowAccrued, start, duration
<1>5. CASE now > start /\ now - start < duration
  <2>1. now - start \in Nat /\ now - start <= duration /\ duration \in Nat \ {0}
    BY <1>1, <1>3, <1>5
  <2>2. (x.LockedFee * (now - start)) \div duration \in Nat
    BY <1>1, <2>1, PartOf
  <2> QED
    BY <1>1, <1>3, <1>4, <1>5, <2>2
<1>6. CASE ~(now > start /\ now - start < duration)
  BY <1>1, <1>3, <1>4, <1>6
<1> QED
  BY <1>5, <1>6

\* What can be paid for a deal is there: with its owner, and in its escrow or fund.
LEMMA FeesPayable ==
  ASSUME WellFormed, NEW i \in IntentID, Exists(i), NEW amount \in Nat
  PROVE  /\ fromFees(i, amount) \in Nat /\ fromFees(i, amount) <= amount
         /\ fromFees(i, amount) <= lockedStorage[Owner]
         /\ ~isPermanentIntent(intents[i]) =>
              fromFees(i, amount) <= remainingIntentEscrow(intents[i])
         /\ isPermanentIntent(intents[i]) =>
              /\ fromFees(i, amount) <= ensurePermanentFund(i, intents[i]).Balance
              /\ fromFees(i, amount) > 0 => ~ensurePermanentFund(i, intents[i]).Closed
<1> DEFINE x == intents[i]
           fund == ensurePermanentFund(i, x)
           lock == lockedStorage[Owner]
           rest == remainingIntentEscrow(x)
           due == finiteDealEscrowAvailable(x)
<1>1. x \in Intent(i)
  BY IntentExists DEF WellFormed
<1>2. lock \in Nat
  BY OwnerKnown DEF WellFormed, MoneyOK, AccountsTypeOK
<1>3. CASE isPermanentIntent(x)
  <2> DEFINE held == IF fund.Closed THEN 0 ELSE fund.Balance
  <2>1. fund \in PermanentStorageFund
    BY <1>1, FundTyped
  <2> HIDE DEF fund, x, lock
  <2>2. held \in Nat /\ held <= fund.Balance /\ (held > 0 => ~fund.Closed)
    BY <2>1 DEF PermanentStorageFund
  <2>3. fromFees(i, amount) = Least({amount, lock, held})
    BY <1>3 DEF fromFees, spendPermanentFund, x, fund, lock
  <2> HIDE DEF held
  <2> DEFINE k == Least({amount, lock, held})
  <2>4. k \in Nat /\ k <= amount /\ k <= lock /\ k <= held
    BY <1>2, <2>2, LeastOfThree
  <2> HIDE DEF k
  <2>5. fund.Balance \in Nat
    BY <2>1 DEF PermanentStorageFund
  <2>6. k <= fund.Balance /\ (k > 0 => ~fund.Closed)
    BY <2>2, <2>4, <2>5
  <2> QED
    BY <1>3, <2>3, <2>4, <2>6 DEF k, fund, x, lock
<1>4. CASE ~isPermanentIntent(x)
  <2>1. rest \in Nat
    BY <1>1, EscrowNat
  <2>2. due \in Nat
    <3>1. finiteDealEscrowAccrued(x) \in Nat /\ x.PaidFee \in Nat
      BY <1>1, AccruedNat DEF Intent
    <3> QED
      BY <3>1, MinusNat DEF finiteDealEscrowAvailable
  <2>3. fromFees(i, amount) = Least({amount, lock, due, rest})
    BY <1>4 DEF fromFees, spendFiniteStorageFee
  <2> HIDE DEF lock, due, rest
  <2> DEFINE k == Least({amount, lock, due, rest})
  <2>4. k \in Nat /\ k <= amount /\ k <= lock /\ k <= rest
    BY <1>2, <2>1, <2>2, LeastOfFour
  <2> HIDE DEF k, x
  <2> QED
    BY <1>4, <2>3, <2>4 DEF k, rest, lock, x
<1> QED
  BY <1>3, <1>4

LEMMA SubsidyPayable ==
  ASSUME WellFormed, NEW i \in IntentID, Exists(i), NEW shortfall \in Nat
  PROVE  /\ permanentFundSubsidy(i, shortfall) \in Nat
         /\ permanentFundSubsidy(i, shortfall) <= subsidyPool
         /\ permanentFundSubsidy(i, shortfall) <= shortfall
<1>1. subsidyPool \in Nat
  BY DEF WellFormed, MoneyOK
<1>2. permanentFundSubsidy(i, shortfall) \in {0, Least({shortfall, subsidyPool})}
  BY DEF permanentFundSubsidy
<1> QED
  BY <1>1, <1>2, LeastOfTwo

\* Paying for a deal.
LEMMA PayForm ==
  ASSUME WellFormed, NEW i \in IntentID, Exists(i), NEW m \in Miner, NEW source \in {"proof", "repair"},
         NEW reward \in Nat, payReward(i, m, source, reward), UNCHANGED <<balance, nonce, now>>,
         storageRewards' \in [Miner -> Nat]
  PROVE  MoneyOK' /\ IntentsOK' /\ Lasting
<1> USE DEF WellFormed
<1> DEFINE x == intents[i]
           paid == fromFees(i, reward)
           subsidy == permanentFundSubsidy(i, reward - paid)
           fund == ensurePermanentFund(i, x)
           y == [x EXCEPT !.PaidFee = @ + paid]
<1>1. x \in Intent(i)
  BY IntentExists
<1>2. /\ paid \in Nat /\ paid <= reward /\ paid <= lockedStorage[Owner]
      /\ isPermanentIntent(x) => paid <= fund.Balance
  BY FeesPayable
<1>3. subsidy \in Nat /\ subsidy <= subsidyPool
  <2>1. reward - paid \in Nat
    BY <1>2
  <2> HIDE DEF paid
  <2> QED
    BY <2>1, SubsidyPayable
<1>4. fund \in PermanentStorageFund
  BY <1>1, FundTyped
<1>5. /\ lockedStorage' = [lockedStorage EXCEPT ![Owner] = @ - paid]
      /\ intents' = [intents EXCEPT ![i] = y]
      /\ funds' = IF isPermanentIntent(x) /\ paid > 0
                  THEN [funds EXCEPT ![i] = [fund EXCEPT !.Balance = @ - paid, !.Paid = @ + paid]]
                  ELSE funds
      /\ feePool' = [feePool EXCEPT !.Paid = @ + paid]
      /\ subsidyPool' = subsidyPool - subsidy
      /\ vested' = [vested EXCEPT ![m][source] = @ + paid + subsidy]
  BY DEF payReward
<1> HIDE DEF paid, subsidy, fund
<1>6. y \in Intent(i)
  BY <1>1, <1>2 DEF Intent
<1> HIDE DEF y
<1>7. IntentsOK' /\ Lasting
  BY <1>5, <1>6, IntentSet
<1>8. funds' \in [IntentID -> PermanentStorageFund \cup {None}]
  <2> DEFINE b == fund.Balance - paid
             p == fund.Paid + paid
             g == [fund EXCEPT !.Balance = b, !.Paid = p]
  <2>1. CASE isPermanentIntent(x) /\ paid > 0
    <3>1. b \in Nat /\ p \in Nat
      BY <1>2, <1>4, <2>1 DEF PermanentStorageFund
    <3>2. funds' = [funds EXCEPT ![i] = g]
      BY <1>5, <2>1
    <3> HIDE DEF b, p
    <3>3. g \in PermanentStorageFund
      BY <3>1, <1>4 DEF PermanentStorageFund
    <3> HIDE DEF g
    <3> QED
      BY <3>2, <3>3 DEF MoneyOK
  <2>2. CASE ~(isPermanentIntent(x) /\ paid > 0)
    BY <2>2, <1>5 DEF MoneyOK
  <2> QED
    BY <2>1, <2>2
<1>9. lockedStorage' \in [Account -> Nat]
  <2>1. lockedStorage[Owner] - paid \in Nat
    BY <1>2, OwnerKnown DEF MoneyOK, AccountsTypeOK
  <2> QED
    BY <1>5, <2>1 DEF MoneyOK, AccountsTypeOK
<1>10. feePool' \in StorageFeePool
  BY <1>2, <1>5 DEF MoneyOK, StorageFeePool
<1>11. subsidyPool' \in Nat
  BY <1>3, <1>5 DEF MoneyOK
<1>12. vested' \in [Miner -> [proof : Nat, repair : Nat]]
  <2> DEFINE k == vested[m][source] + paid + subsidy
  <2>1. vested' = [vested EXCEPT ![m] = [vested[m] EXCEPT ![source] = k]]
    BY <1>5
  <2>2. vested[m] \in [proof : Nat, repair : Nat] /\ k \in Nat
    <3>1. vested[m] \in [proof : Nat, repair : Nat]
      BY DEF MoneyOK
    <3>2. vested[m][source] \in Nat
      BY <3>1
    <3> QED
      BY <3>1, <3>2, <1>2, <1>3
  <2> HIDE DEF k
  <2>3. [vested[m] EXCEPT ![source] = k] \in [proof : Nat, repair : Nat]
    BY <2>2
  <2> QED
    BY <2>1, <2>3 DEF MoneyOK
<1> QED
  BY <1>5, <1>7, <1>8, <1>9, <1>10, <1>11, <1>12 DEF MoneyOK, AccountsTypeOK

-----------------------------------------------------------------------------
LEMMA CreateChallengeForm ==
  ASSUME WellFormed, NEW i \in IntentID, NEW s \in Shards(i), CreateChallenge(i, s)
  PROVE  WellFormed' /\ Lasting
<1> USE DEF WellFormed
<1> DEFINE x == intents[i]
           c == storageChallengeForReceipt(i, s, x.Receipts[s], FALSE)
<1>1. x \in Intent(i) /\ x.Receipts[s] \in Miner /\ Exists(i)
  <2>1. x \in Intent(i) /\ x.Receipts[s] # None /\ Exists(i)
    BY IntentExists DEF CreateChallenge
  <2> QED
    BY <2>1 DEF Intent
<1>2. /\ challenges' = challenges \cup {c}
      /\ UNCHANGED <<accountVars, intents, funds, feePool, subsidyPool, used, reserved, repairTasks,
                     misses, deleteVars, blacklist, vested, storageRewards, late>>
  BY DEF CreateChallenge
<1>3. IntentsOK' /\ Lasting
  BY <1>2, IntentsSame
<1>4. MoneyOK'
  BY <1>2, SameMoney DEF accountVars, moneyVars
<1>5. WorkOK'
  <2>1. now + 1 \in Nat
    BY AccountAssumption DEF MoneyOK, AccountsTypeOK
  <2>2. s \in Int \X Nat
    BY ShardsFinite
  <2>3. c \in StorageChallenge /\ c.Intent = i /\ c.Shard = s
    <3> HIDE DEF x
    <3> QED
      BY <1>1, <2>1, <2>2 DEF storageChallengeForReceipt, StorageChallenge
  <2> HIDE DEF c
  <2> QED
    BY <1>1, <1>2, <2>3 DEF WorkOK, Exists
<1>6. DeletionOK'
  BY <1>2, <1>3, SameDeletion DEF DeletionOK
<1> QED
  BY <1>3, <1>4, <1>5, <1>6

\* The tasks a proof leaves: those it completes, and none of the others is made up.
LEMMA ClearForm ==
  ASSUME WellFormed, NEW m \in Miner, NEW tasks, IsFiniteSet(tasks), tasks \subseteq RepairTask,
         clearPendingShardRepairs(m, tasks)
  PROVE  /\ repairTasks' \subseteq tasks /\ IsFiniteSet(repairTasks')
         /\ reserved' \in [Miner -> Nat]
         /\ \A k \in DOMAIN misses' : misses'[k] \in Nat
<1> DEFINE cancelled == {t \in tasks : t.Old = m /\ t.Status = "pending"}
           off(n) == {t \in cancelled : t.Miner = n}
<1>1. /\ repairTasks' = tasks \ cancelled
      /\ reserved' = [n \in Miner |-> Minus(reserved[n], Cardinality(off(n)))]
      /\ misses' = Restrict(misses, {k \in DOMAIN misses : k[3] # m})
  BY DEF clearPendingShardRepairs
<1>2. IsFiniteSet(repairTasks')
  BY <1>1, FS_Subset
<1>3. ASSUME NEW n \in Miner
      PROVE  Minus(reserved[n], Cardinality(off(n))) \in Nat
  <2>1. off(n) \subseteq tasks
    OBVIOUS
  <2> HIDE DEF off, cancelled
  <2>2. Cardinality(off(n)) \in Nat
    BY <2>1, FS_Subset, FS_CardinalityType
  <2>3. reserved[n] \in Nat
    BY DEF WellFormed, WorkOK
  <2> QED
    BY <2>2, <2>3, MinusNat
<1>4. reserved' \in [Miner -> Nat]
  BY <1>1, <1>3
<1>5. \A k \in DOMAIN misses' : misses'[k] \in Nat
  BY <1>1 DEF WellFormed, WorkOK, Restrict
<1> QED
  BY <1>1, <1>2, <1>4, <1>5

\* Completed, a repair is one all the same.
Done(S) == {[t EXCEPT !.Status = "completed"] : t \in S}

LEMMA DoneTasks ==
  ASSUME NEW S, IsFiniteSet(S), S \subseteq RepairTask
  PROVE  /\ IsFiniteSet(Done(S)) /\ Done(S) \subseteq RepairTask
         /\ \A t \in Done(S) : \E u \in S : /\ t.Intent = u.Intent /\ t.Shard = u.Shard
                                            /\ t.Miner = u.Miner /\ t.Old = u.Old
                                            /\ t.Status = "completed"
         /\ \A u \in S : \E t \in Done(S) : /\ t.Intent = u.Intent /\ t.Shard = u.Shard
                                            /\ t.Miner = u.Miner /\ t.Status = "completed"
<1> DEFINE g == [t \in S |-> [t EXCEPT !.Status = "completed"]]
<1>1. {g[t] : t \in S} = Done(S)
  BY DEF Done
<1> HIDE DEF g
<1>2. IsFiniteSet(Done(S))
  BY <1>1, ImageFinite
<1>3. ASSUME NEW u \in S
      PROVE  LET t == [u EXCEPT !.Status = "completed"]
             IN  /\ t \in RepairTask /\ t.Intent = u.Intent /\ t.Shard = u.Shard
                 /\ t.Miner = u.Miner /\ t.Old = u.Old /\ t.Status = "completed" /\ t \in Done(S)
  BY DEF RepairTask, Done
<1>4. \A t \in Done(S) : \E u \in S : t = [u EXCEPT !.Status = "completed"]
  BY DEF Done
<1>5. Done(S) \subseteq RepairTask
  BY <1>3, <1>4
<1>6. \A t \in Done(S) : \E u \in S : /\ t.Intent = u.Intent /\ t.Shard = u.Shard
                                      /\ t.Miner = u.Miner /\ t.Old = u.Old
                                      /\ t.Status = "completed"
  <2> SUFFICES ASSUME NEW t \in Done(S)
               PROVE  \E u \in S : /\ t.Intent = u.Intent /\ t.Shard = u.Shard
                                   /\ t.Miner = u.Miner /\ t.Old = u.Old
                                   /\ t.Status = "completed"
    OBVIOUS
  <2>1. PICK u \in S : t = [u EXCEPT !.Status = "completed"]
    BY <1>4
  <2> QED
    BY <1>3, <2>1
<1>7. \A u \in S : \E t \in Done(S) : /\ t.Intent = u.Intent /\ t.Shard = u.Shard
                                      /\ t.Miner = u.Miner /\ t.Status = "completed"
  BY <1>3
<1> QED
  BY <1>2, <1>5, <1>6, <1>7

LEMMA SubmitProofForm ==
  ASSUME WellFormed, NEW c \in challenges, SubmitProof(c)
  PROVE  WellFormed' /\ Lasting
<1> USE DEF WellFormed
<1> DEFINE i == c.Intent
           repaired == completeRepairTaskAfterProof(c)
           tasks == (repairTasks \ repaired) \cup Done(repaired)
           payable == payableStorageReward(i, Reward)
<1>1. c \in StorageChallenge /\ i \in IntentID /\ Exists(i) /\ c.Shard \in Shards(i) /\ c.Miner \in Miner
  BY DEF WorkOK, StorageChallenge
<1>2. repaired \subseteq repairTasks
  BY DEF completeRepairTaskAfterProof
<1>3. /\ challenges' = (challenges \ {c}) \cup {[c EXCEPT !.Proved = TRUE]}
      /\ clearPendingShardRepairs(c.Miner, tasks)
      /\ UNCHANGED <<balance, nonce, now, used, deleteVars, blacklist, late>>
  BY DEF SubmitProof, Done
<1>4. Reward \in Nat /\ RepairReward \in Nat
  BY RewardAssumption
<1>5. payable \in Nat
  <2> DEFINE k == fromFees(i, Reward)
  <2>1. k \in Nat /\ k <= Reward
    BY <1>1, <1>4, FeesPayable
  <2>2. payable = k + permanentFundSubsidy(i, Reward - k)
    BY DEF payableStorageReward
  <2> HIDE DEF k, i
  <2>3. Reward - k \in Nat
    BY <1>4, <2>1
  <2>4. permanentFundSubsidy(i, Reward - k) \in Nat
    BY <1>1, <2>3, SubsidyPayable
  <2> QED
    BY <2>1, <2>2, <2>4
<1>6. MoneyOK' /\ IntentsOK' /\ Lasting
  <2>1. CASE c.Repair
    <3> DEFINE r == IF repaired = {} THEN 0 ELSE RepairReward
    <3>1. payReward(i, c.Miner, "repair", r) /\ UNCHANGED storageRewards
      BY <2>1 DEF SubmitProof
    <3>2. storageRewards' \in [Miner -> Nat] /\ r \in Nat
      BY <3>1, <1>4 DEF MoneyOK
    <3> HIDE DEF r, i
    <3> QED
      BY <1>1, <1>3, <3>1, <3>2, PayForm
  <2>2. CASE ~c.Repair
    <3>1. /\ payReward(i, c.Miner, "proof", payable)
          /\ storageRewards' = [storageRewards EXCEPT ![c.Miner] = @ + payable]
      BY <2>2 DEF SubmitProof
    <3> HIDE DEF payable, i
    <3>2. storageRewards' \in [Miner -> Nat]
      BY <3>1, <1>1, <1>5 DEF MoneyOK
    <3> QED
      BY <1>1, <1>3, <1>5, <3>1, <3>2, PayForm
  <2> QED
    BY <2>1, <2>2
<1> HIDE DEF payable, repaired
<1>7. IsFiniteSet(repaired) /\ repaired \subseteq RepairTask
  BY <1>2, FS_Subset DEF WorkOK
<1>8. ASSUME NEW t \in tasks
      PROVE  t \in RepairTask /\ intents'[t.Intent] # None /\ t.Shard \in Shards(t.Intent)
  <2>1. \A u \in repairTasks : u \in RepairTask /\ u.Intent \in IntentID /\ intents'[u.Intent] # None
                               /\ u.Shard \in Shards(u.Intent)
    BY <1>6 DEF WorkOK, RepairTask, Lasting
  <2>2. CASE t \in repairTasks
    BY <2>1, <2>2
  <2>3. CASE t \in Done(repaired)
    <3>1. t \in RepairTask /\ \E u \in repaired : t.Intent = u.Intent /\ t.Shard = u.Shard
      BY <2>3, <1>7, DoneTasks
    <3> QED
      BY <3>1, <2>1, <1>2
  <2> QED
    BY <2>2, <2>3
<1>9. IsFiniteSet(tasks)
  <2>1. IsFiniteSet(repairTasks \ repaired) /\ IsFiniteSet(Done(repaired))
    BY <1>7, DoneTasks, FS_Subset DEF WorkOK
  <2> QED
    BY <2>1, FS_Union
<1> HIDE DEF tasks
<1>10. /\ repairTasks' \subseteq tasks /\ IsFiniteSet(repairTasks')
       /\ reserved' \in [Miner -> Nat]
       /\ \A k \in DOMAIN misses' : misses'[k] \in Nat
  BY <1>1, <1>3, <1>8, <1>9, ClearForm
<1>11. ASSUME NEW d \in challenges'
       PROVE  d \in StorageChallenge /\ intents'[d.Intent] # None /\ d.Shard \in Shards(d.Intent)
  <2>1. \A e \in challenges : e \in StorageChallenge /\ e.Intent \in IntentID /\ intents'[e.Intent] # None
                              /\ e.Shard \in Shards(e.Intent)
    BY <1>6 DEF WorkOK, StorageChallenge, Lasting
  <2>2. CASE d \in challenges
    BY <2>1, <2>2
  <2>3. CASE d = [c EXCEPT !.Proved = TRUE]
    <3>1. d \in StorageChallenge /\ d.Intent = i /\ d.Shard = c.Shard
      BY <1>1, <2>3 DEF StorageChallenge
    <3> QED
      BY <3>1, <2>1
  <2> QED
    BY <1>3, <2>2, <2>3
<1>12. WorkOK'
  <2>1. used' \in [Miner -> Nat]
    BY <1>3 DEF WorkOK
  <2> QED
    BY <2>1, <1>8, <1>10, <1>11 DEF WorkOK, Exists
<1>13. DeletionOK'
  BY <1>3, <1>6, SameDeletion DEF DeletionOK
<1> QED
  BY <1>6, <1>12, <1>13

-----------------------------------------------------------------------------
\* The shards of an intent that a miner holds.
Stored(i, x) == {s \in Shards(i) : x.Receipts[s] # None}

\* What marking an intent for deletion makes of it.
Marked(i, x) ==
  [x EXCEPT !.DeleteTaskCount = Cardinality(Stored(i, x)),
            !.StorageStatus = IF Stored(i, x) = {} THEN "deleted" ELSE @,
            !.Status = IF Stored(i, x) = {} THEN "deleted" ELSE @]

LEMMA MarkedTyped ==
  ASSUME NEW i \in IntentID, NEW x \in Intent(i)
  PROVE  /\ Marked(i, x) \in Intent(i)
         /\ SameFees(x, Marked(i, x))
         /\ LET y == Marked(i, x)
            IN  /\ y.Assignments = x.Assignments /\ y.Receipts = x.Receipts
                /\ y.DeleteReceiptCount = x.DeleteReceiptCount
                /\ y.DeleteTaskCount = Cardinality(Stored(i, x))
                /\ y.ModerationStatus = x.ModerationStatus /\ y.AccessStatus = x.AccessStatus
                /\ y.ModerationExpires = x.ModerationExpires
                /\ y.ExpiresAt = x.ExpiresAt /\ y.StartAt = x.StartAt /\ y.Deadline = x.Deadline
                /\ y.StorageStatus = x.StorageStatus \/ y.StorageStatus = "deleted"
                /\ y.Status = x.Status \/ y.Status = "deleted"
                /\ Stored(i, x) # {} => y.Status = x.Status /\ y.StorageStatus = x.StorageStatus
<1> DEFINE n == Cardinality(Stored(i, x))
           a == IF Stored(i, x) = {} THEN "deleted" ELSE x.StorageStatus
           b == IF Stored(i, x) = {} THEN "deleted" ELSE x.Status
<1>1. n \in Nat
  BY ShardsFinite DEF Stored
<1>2. /\ a \in {"pending", "active", "expired", "terminating", "deleted"}
      /\ b \in {"uploading", "partial", "finalized", "expired", "deleted"}
      /\ a = x.StorageStatus \/ a = "deleted"
      /\ b = x.Status \/ b = "deleted"
      /\ Stored(i, x) # {} => b = x.Status /\ a = x.StorageStatus
  BY DEF Intent
<1>3. Marked(i, x) = [x EXCEPT !.DeleteTaskCount = n, !.StorageStatus = a, !.Status = b]
  BY DEF Marked
<1>4. n = Cardinality(Stored(i, x))
  OBVIOUS
<1> HIDE DEF n, a, b
<1> DEFINE y == [x EXCEPT !.DeleteTaskCount = n, !.StorageStatus = a, !.Status = b]
<1>5. y \in Intent(i) /\ SameFees(x, y)
  BY <1>1, <1>2 DEF Intent, SameFees
<1>6. /\ y.Assignments = x.Assignments /\ y.Receipts = x.Receipts
      /\ y.DeleteReceiptCount = x.DeleteReceiptCount /\ y.DeleteTaskCount = n
      /\ y.ModerationStatus = x.ModerationStatus /\ y.AccessStatus = x.AccessStatus
      /\ y.ModerationExpires = x.ModerationExpires
      /\ y.ExpiresAt = x.ExpiresAt /\ y.StartAt = x.StartAt /\ y.Deadline = x.Deadline
      /\ y.StorageStatus = a /\ y.Status = b
  BY DEF Intent
<1> HIDE DEF y
<1>7. Marked(i, x) = y
  BY <1>3 DEF y
<1> QED
  BY <1>2, <1>4, <1>5, <1>6, <1>7

\* A step that touches other deals at most by lifting freezes that are over.
OthersLifted(i) ==
  \A j \in IntentID \ {i} :
    intents'[j] = intents[j] \/ (Exists(j) /\ intents'[j] = expireGovernanceAction(intents[j]))

LEMMA LiftedOrSame ==
  ASSUME IntentsOK, NEW i \in IntentID, Exists(i), NEW y \in Intent(i), intents'[i] = y,
         DOMAIN intents' = IntentID, OthersLifted(i)
  PROVE  IntentsOK' /\ Lasting
<1>1. ASSUME NEW j \in IntentID
      PROVE  /\ intents'[j] \in Intent(j) \cup {None}
             /\ Exists(j) => intents'[j] # None
  <2>1. CASE j = i
    BY <2>1, DealNone
  <2>2. CASE j # i /\ intents'[j] = intents[j]
    BY <2>2 DEF IntentsOK, Exists
  <2>3. CASE j # i /\ Exists(j) /\ intents'[j] = expireGovernanceAction(intents[j])
    BY <2>3, IntentExists, ExpireKeeps, DealNone
  <2> QED
    BY <2>1, <2>2, <2>3 DEF OthersLifted
<1> QED
  BY <1>1 DEF IntentsOK, Lasting

LEMMA EnsureForm ==
  ASSUME WellFormed, NEW i \in IntentID, Exists(i), NEW x \in Intent(i), ensureDeleteTasks(i, x)
  PROVE  /\ IntentsOK' /\ Lasting
         /\ intents'[i] = Marked(i, x) /\ OthersLifted(i)
         /\ \A t \in deleteTasks' : t \in DeleteTask /\ Exists(t.Intent)'
         /\ \A t \in deleteTasks' :
              t \in deleteTasks \/ (t.Intent = i /\ \E s \in Stored(i, x) :
                                      t.Hash = HashOf[i][s] /\ t.Miner = x.Receipts[s])
<1> USE DEF WellFormed
<1> DEFINE stored == Stored(i, x)
           old(s) == {t \in deleteTasks : t.Intent = i /\ t.Hash = HashOf[i][s] /\ t.Miner = x.Receipts[s]}
           pending(s) == \A t \in old(s) : t.Pending
           retain(s) == activeShardReferences(i, s) # {}
           task(s) == [Intent |-> i, Hash |-> HashOf[i][s], Miner |-> x.Receipts[s],
                       Pending |-> pending(s), Retain |-> retain(s)]
<1>1. deleteTasks' = (deleteTasks \ UNION {old(s) : s \in stored}) \cup {task(s) : s \in stored}
  BY DEF ensureDeleteTasks, Stored
<1>2. /\ DOMAIN intents' = IntentID
      /\ \A j \in IntentID : intents'[j] =
           IF j = i THEN Marked(i, x)
           ELSE IF Exists(j) /\ stored # {} THEN expireGovernanceAction(intents[j])
           ELSE intents[j]
  <2>1. intents' = [j \in IntentID |->
           IF j = i THEN Marked(i, x)
           ELSE IF Exists(j) /\ stored # {} THEN expireGovernanceAction(intents[j])
           ELSE intents[j]]
    BY DEF ensureDeleteTasks, Stored, Marked
  <2> HIDE DEF stored
  <2> QED
    BY <2>1
<1>3. intents'[i] = Marked(i, x) /\ OthersLifted(i)
  BY <1>2 DEF OthersLifted
<1>4. IntentsOK' /\ Lasting
  BY <1>2, <1>3, MarkedTyped, LiftedOrSame
<1>5. ASSUME NEW s \in stored
      PROVE  /\ task(s) \in DeleteTask /\ task(s).Intent = i
             /\ task(s).Hash = HashOf[i][s] /\ task(s).Miner = x.Receipts[s]
  <2>1. HashOf[i][s] \in Hash /\ x.Receipts[s] \in Miner
    BY FileAssumption DEF Stored, Intent
  <2>2. pending(s) \in BOOLEAN /\ retain(s) \in BOOLEAN
    OBVIOUS
  <2> HIDE DEF pending, retain
  <2> QED
    BY <2>1, <2>2 DEF DeleteTask
<1>6. ASSUME NEW t \in deleteTasks'
      PROVE  /\ t \in DeleteTask /\ intents'[t.Intent] # None
             /\ t \in deleteTasks \/ (t.Intent = i /\ \E s \in stored :
                                      t.Hash = HashOf[i][s] /\ t.Miner = x.Receipts[s])
  <2>1. CASE t \in deleteTasks
    BY <1>4, <2>1 DEF DeletionOK, Lasting, Exists, DeleteTask
  <2>2. CASE t \in {task(s) : s \in stored}
    <3>1. PICK s \in stored : t = task(s)
      BY <2>2
    <3> HIDE DEF task, stored
    <3> QED
      BY <1>3, <1>4, <1>5, <3>1 DEF Lasting
  <2> QED
    BY <1>1, <2>1, <2>2
<1> QED
  BY <1>3, <1>4, <1>6 DEF Exists

\* Closing a fund burns what is in it, as far as its owner has locked tokens.
LEMMA ClosedTyped ==
  ASSUME WellFormed, NEW i \in IntentID, NEW x \in Intent(i)
  PROVE  /\ closedFund(i, x).Burn \in Nat /\ closedFund(i, x).Burn <= lockedStorage[Owner]
         /\ closedFund(i, x).Fund \in PermanentStorageFund /\ closedFund(i, x).Fund.Closed
         /\ LET fund == ensurePermanentFund(i, x)
            IN  /\ fund.Closed => closedFund(i, x).Burn = 0 /\ closedFund(i, x).Fund = fund
                /\ ~fund.Closed => /\ closedFund(i, x).Burn = Least({fund.Balance, lockedStorage[Owner]})
                                   /\ closedFund(i, x).Fund.Balance = 0
<1> DEFINE fund == ensurePermanentFund(i, x)
           lock == lockedStorage[Owner]
           burn == IF fund.Closed THEN 0 ELSE Least({fund.Balance, lock})
           k == fund.Burned + burn
<1>1. fund \in PermanentStorageFund
  BY FundTyped
<1>2. lock \in Nat
  BY OwnerKnown DEF WellFormed, MoneyOK, AccountsTypeOK
<1> HIDE DEF fund, lock
<1>3. burn \in Nat /\ burn <= lock
  <2>1. fund.Balance \in Nat
    BY <1>1 DEF PermanentStorageFund
  <2> QED
    BY <1>2, <2>1, LeastOfTwo
<1>4. (fund.Closed => burn = 0) /\ (~fund.Closed => burn = Least({fund.Balance, lock}))
  OBVIOUS
<1> HIDE DEF burn
<1>5. k \in Nat
  BY <1>1, <1>3 DEF PermanentStorageFund
<1> HIDE DEF k
<1> DEFINE g == IF fund.Closed THEN fund
                ELSE [fund EXCEPT !.Balance = 0, !.Burned = k, !.Closed = TRUE]
<1>6. /\ g \in PermanentStorageFund /\ g.Closed /\ (fund.Closed => g = fund)
      /\ (~fund.Closed => g.Balance = 0)
  BY <1>1, <1>5 DEF PermanentStorageFund
<1>7. closedFund(i, x) = [Burn |-> burn, Fund |-> g]
  BY DEF closedFund, fund, lock, burn, k
<1> HIDE DEF g
<1>8. closedFund(i, x).Burn = burn /\ closedFund(i, x).Fund = g
  BY <1>7
<1> QED
  BY <1>3, <1>4, <1>6, <1>8 DEF fund, lock

\* What is burned of an escrow leaves the owner's lock; its fund is closed.
LEMMA BurnForm ==
  ASSUME WellFormed, NEW i \in IntentID, NEW x \in Intent(i), NEW burn \in Nat,
         burn <= lockedStorage[Owner],
         lockedStorage' = [lockedStorage EXCEPT ![Owner] = @ - burn], recordStorageFeeBurn(burn),
         funds' = IF isPermanentIntent(x) THEN [funds EXCEPT ![i] = closedFund(i, x).Fund] ELSE funds,
         UNCHANGED <<balance, now, subsidyPool, vested, storageRewards>>,
         nonce' \in [Account -> 0..MaxNonce]
  PROVE  MoneyOK'
<1> USE DEF WellFormed
<1>1. feePool' \in StorageFeePool
  BY FeePoolTyped
<1>2. lockedStorage[Owner] - burn \in Nat
  BY OwnerKnown DEF MoneyOK, AccountsTypeOK
<1>3. lockedStorage' \in [Account -> Nat]
  BY <1>2 DEF MoneyOK, AccountsTypeOK
<1>4. funds' \in [IntentID -> PermanentStorageFund \cup {None}]
  <2>1. closedFund(i, x).Fund \in PermanentStorageFund
    BY ClosedTyped
  <2> DEFINE g == closedFund(i, x).Fund
  <2> HIDE DEF g
  <2>2. funds' = funds \/ funds' = [funds EXCEPT ![i] = g]
    BY DEF g
  <2>3. g \in PermanentStorageFund
    BY <2>1 DEF g
  <2> QED
    BY <2>2, <2>3 DEF MoneyOK
<1> QED
  BY <1>1, <1>3, <1>4 DEF MoneyOK, AccountsTypeOK

\* The space that shards not committed had is given back.
LEMMA ReleaseForm ==
  ASSUME WellFormed, NEW i \in IntentID, reserved' \in [Miner -> Nat],
         UNCHANGED <<used, repairTasks, challenges, misses>>, Lasting
  PROVE  WorkOK'
<1>1. \A t \in repairTasks : t.Intent \in IntentID
  BY DEF WellFormed, WorkOK, RepairTask
<1>2. \A c \in challenges : c.Intent \in IntentID
  BY DEF WellFormed, WorkOK, StorageChallenge
<1> QED
  BY <1>1, <1>2 DEF WellFormed, WorkOK, Lasting, Exists

\* An intent that ends, with what is burned of its fee.
EndedWith(x, burn) ==
  [x EXCEPT !.StorageStatus = "terminating", !.AccessStatus = "blocked", !.BurnedFee = @ + burn]

TerminateBurn(i, x) ==
  IF isPermanentIntent(x) THEN closedFund(i, x).Burn
  ELSE Least({remainingIntentEscrow(x), lockedStorage[Owner]})

LEMMA TerminateBurnTyped ==
  ASSUME WellFormed, NEW i \in IntentID, NEW x \in Intent(i)
  PROVE  TerminateBurn(i, x) \in Nat /\ TerminateBurn(i, x) <= lockedStorage[Owner]
<1> DEFINE e == remainingIntentEscrow(x)
           lock == lockedStorage[Owner]
<1>1. e \in Nat /\ lock \in Nat
  BY EscrowNat, OwnerKnown DEF WellFormed, MoneyOK, AccountsTypeOK
<1>2. closedFund(i, x).Burn \in Nat /\ closedFund(i, x).Burn <= lock
  BY ClosedTyped
<1> HIDE DEF e, lock
<1>3. Least({e, lock}) \in Nat /\ Least({e, lock}) <= lock
  BY <1>1, LeastOfTwo
<1> QED
  BY <1>2, <1>3 DEF TerminateBurn, e, lock

\* The action, in the names above.
LEMMA TerminateMeans ==
  ASSUME WellFormed, NEW i \in IntentID, TerminateDeal(i)
  PROVE  LET x == expireGovernanceAction(intents[i])
             burn == TerminateBurn(i, x)
             y == EndedWith(x, burn)
         IN  /\ Exists(i) /\ x \in Intent(i) /\ y \in Intent(i)
             /\ consumeAccountNonce(Owner)
             /\ reserved' = releaseUncommitted(i)
             /\ lockedStorage' = [lockedStorage EXCEPT ![Owner] = @ - burn]
             /\ recordStorageFeeBurn(burn)
             /\ funds' = IF isPermanentIntent(x) THEN [funds EXCEPT ![i] = closedFund(i, x).Fund] ELSE funds
             /\ \/ intents' = [intents EXCEPT ![i] = y] /\ UNCHANGED deleteTasks
                \/ ensureDeleteTasks(i, y)
             /\ UNCHANGED <<balance, now, subsidyPool, used, repairTasks, challenges, misses, deleteReceipts,
                            blacklist, vested, storageRewards, late>>
<1> DEFINE x == expireGovernanceAction(intents[i])
           burn == TerminateBurn(i, x)
           y == EndedWith(x, burn)
<1>1. x \in Intent(i) /\ Exists(i)
  BY IntentExists, ExpireKeeps DEF TerminateDeal, WellFormed
<1>2. burn \in Nat
  BY <1>1, TerminateBurnTyped
<1>3. y \in Intent(i)
  <2> DEFINE b == x.BurnedFee + burn
  <2>1. b \in Nat
    BY <1>1, <1>2 DEF Intent
  <2>2. y = [x EXCEPT !.StorageStatus = "terminating", !.AccessStatus = "blocked", !.BurnedFee = b]
    BY DEF EndedWith
  <2> HIDE DEF x, b, y
  <2> QED
    BY <1>1, <2>1, <2>2 DEF Intent
<1>4. /\ consumeAccountNonce(Owner)
      /\ reserved' = releaseUncommitted(i)
      /\ lockedStorage' = [lockedStorage EXCEPT ![Owner] = @ - burn]
      /\ recordStorageFeeBurn(burn)
      /\ funds' = IF isPermanentIntent(x) THEN [funds EXCEPT ![i] = closedFund(i, x).Fund] ELSE funds
      /\ \/ intents' = [intents EXCEPT ![i] = y] /\ UNCHANGED deleteTasks
         \/ ensureDeleteTasks(i, y)
      /\ UNCHANGED <<balance, now, subsidyPool, used, repairTasks, challenges, misses, deleteReceipts,
                     blacklist, vested, storageRewards, late>>
  BY DEF TerminateDeal, TerminateBurn, EndedWith
<1> QED
  BY <1>1, <1>3, <1>4

LEMMA TerminateForm ==
  ASSUME WellFormed, NEW i \in IntentID, TerminateDeal(i)
  PROVE  WellFormed' /\ Lasting
<1> USE DEF WellFormed
<1> DEFINE x == expireGovernanceAction(intents[i])
           burn == TerminateBurn(i, x)
           y == EndedWith(x, burn)
<1>1. /\ Exists(i) /\ x \in Intent(i) /\ y \in Intent(i)
      /\ consumeAccountNonce(Owner)
      /\ reserved' = releaseUncommitted(i)
      /\ lockedStorage' = [lockedStorage EXCEPT ![Owner] = @ - burn]
      /\ recordStorageFeeBurn(burn)
      /\ funds' = IF isPermanentIntent(x) THEN [funds EXCEPT ![i] = closedFund(i, x).Fund] ELSE funds
      /\ \/ intents' = [intents EXCEPT ![i] = y] /\ UNCHANGED deleteTasks
         \/ ensureDeleteTasks(i, y)
      /\ UNCHANGED <<balance, now, subsidyPool, used, repairTasks, challenges, misses, deleteReceipts,
                     blacklist, vested, storageRewards, late>>
  BY TerminateMeans
<1>2. burn \in Nat /\ burn <= lockedStorage[Owner]
  BY <1>1, TerminateBurnTyped
<1> HIDE DEF x, burn, y
<1>3. nonce' \in [Account -> 0..MaxNonce]
  BY <1>1, OwnerKnown, NonceTyped
<1>4. MoneyOK'
  BY <1>1, <1>2, <1>3, BurnForm
<1>5. /\ IntentsOK' /\ Lasting
      /\ \A t \in deleteTasks' : t \in DeleteTask /\ Exists(t.Intent)'
  <2>1. CASE intents' = [intents EXCEPT ![i] = y] /\ UNCHANGED deleteTasks
    <3>1. IntentsOK' /\ Lasting
      BY <1>1, <2>1, IntentSet
    <3> QED
      BY <3>1, <2>1 DEF DeletionOK, DeleteTask, Lasting, Exists
  <2>2. CASE ensureDeleteTasks(i, y)
    BY <1>1, <2>2, EnsureForm
  <2> QED
    BY <1>1, <2>1, <2>2
<1>6. WorkOK'
  BY <1>1, <1>5, ReleaseTyped, ReleaseForm
<1>7. DeletionOK'
  BY <1>1, <1>5 DEF DeletionOK
<1> QED
  BY <1>4, <1>5, <1>6, <1>7

-----------------------------------------------------------------------------
LEMMA BlacklistTyped ==
  ASSUME WellFormed, NEW i \in IntentID, NEW until \in Nat,
         addBlacklistForIntent(i, until) \/ removeBlacklistForIntent(i)
  PROVE  blacklist' \in [Hash -> Nat \cup {None}]
BY DEF WellFormed, DeletionOK, addBlacklistForIntent, removeBlacklistForIntent

\* What a moderation that keeps the storage makes of an intent.
Suspended(x, until) ==
  [x EXCEPT !.AccessStatus = "suspended", !.ModerationStatus = "frozen", !.ModerationExpires = until]

Blocked(x) ==
  [expireGovernanceAction(x) EXCEPT !.AccessStatus = "blocked", !.ModerationStatus = "blocked",
                                    !.ModerationExpires = 0]

Held(x) ==
  [x EXCEPT !.AccessStatus = "blocked", !.ModerationStatus = "legal_hold",
            !.StorageStatus = "active", !.ModerationExpires = 0]

Appealed(x) ==
  [expireGovernanceAction(x) EXCEPT !.ModerationStatus = "appealed", !.ModerationExpires = 0]

LEMMA ModeratedTyped ==
  ASSUME NEW i \in IntentID, NEW x \in Intent(i), NEW until \in Nat
  PROVE  /\ Suspended(x, until) \in Intent(i) /\ SameFees(x, Suspended(x, until))
         /\ SameShards(x, Suspended(x, until))
         /\ Blocked(x) \in Intent(i) /\ SameFees(x, Blocked(x)) /\ SameShards(x, Blocked(x))
         /\ Held(x) \in Intent(i) /\ SameFees(x, Held(x)) /\ SameShards(x, Held(x))
         /\ Appealed(x) \in Intent(i) /\ SameFees(x, Appealed(x)) /\ SameShards(x, Appealed(x))
<1> DEFINE e == expireGovernanceAction(x)
<1>1. e \in Intent(i) /\ SameFees(x, e) /\ SameShards(x, e)
  BY ExpireKeeps DEF SameFees, SameShards
<1> HIDE DEF e
<1>2. Suspended(x, until) \in Intent(i) /\ SameFees(x, Suspended(x, until))
      /\ SameShards(x, Suspended(x, until))
  BY DEF Intent, Suspended, SameFees, SameShards
<1>3. Held(x) \in Intent(i) /\ SameFees(x, Held(x)) /\ SameShards(x, Held(x))
  BY DEF Intent, Held, SameFees, SameShards
<1> DEFINE b == [e EXCEPT !.AccessStatus = "blocked", !.ModerationStatus = "blocked", !.ModerationExpires = 0]
           a == [e EXCEPT !.ModerationStatus = "appealed", !.ModerationExpires = 0]
<1>4. b \in Intent(i) /\ SameFees(x, b) /\ SameShards(x, b)
  <2>1. b \in Intent(i)
    BY <1>1 DEF Intent
  <2>2. SameFees(e, b) /\ SameShards(e, b)
    BY <1>1 DEF Intent, SameFees, SameShards
  <2> HIDE DEF b
  <2> QED
    BY <1>1, <2>1, <2>2 DEF SameFees, SameShards
<1>5. a \in Intent(i) /\ SameFees(x, a) /\ SameShards(x, a)
  <2>1. a \in Intent(i)
    BY <1>1 DEF Intent
  <2>2. SameFees(e, a) /\ SameShards(e, a)
    BY <1>1 DEF Intent, SameFees, SameShards
  <2> HIDE DEF a
  <2> QED
    BY <1>1, <2>1, <2>2 DEF SameFees, SameShards
<1>6. Blocked(x) = b /\ Appealed(x) = a
  BY DEF Blocked, Appealed, e
<1> HIDE DEF a, b
<1> QED
  BY <1>2, <1>3, <1>4, <1>5, <1>6

LEMMA FreezeForm ==
  ASSUME WellFormed, NEW i \in IntentID, NEW until \in Nat, Freeze(i, until)
  PROVE  WellFormed' /\ Lasting
<1> DEFINE y == Suspended(intents[i], until)
<1>1. y \in Intent(i)
  BY IntentExists, ModeratedTyped DEF Freeze, WellFormed
<1>2. /\ intents' = [intents EXCEPT ![i] = y] /\ addBlacklistForIntent(i, until)
      /\ UNCHANGED <<accountVars, funds, feePool, subsidyPool, shardVars, deleteVars, vested,
                     storageRewards, late>>
  BY DEF Freeze, Suspended
<1> HIDE DEF y
<1> QED
  BY <1>1, <1>2, QuietForm, NonceSame, BlacklistTyped DEF accountVars, moneyVars

LEMMA LegalHoldForm ==
  ASSUME WellFormed, NEW i \in IntentID, LegalHold(i)
  PROVE  WellFormed' /\ Lasting
<1> DEFINE y == Held(intents[i])
<1>1. y \in Intent(i)
  BY IntentExists, ModeratedTyped DEF LegalHold, WellFormed
<1>2. /\ intents' = [intents EXCEPT ![i] = y] /\ addBlacklistForIntent(i, 0)
      /\ UNCHANGED <<accountVars, funds, feePool, subsidyPool, shardVars, deleteVars, vested,
                     storageRewards, late>>
  BY DEF LegalHold, Held
<1> HIDE DEF y
<1> QED
  BY <1>1, <1>2, QuietForm, NonceSame, BlacklistTyped DEF accountVars, moneyVars

LEMMA AppealForm ==
  ASSUME WellFormed, NEW i \in IntentID, Appeal(i)
  PROVE  WellFormed' /\ Lasting
<1> DEFINE y == Appealed(intents[i])
<1>1. y \in Intent(i)
  BY IntentExists, ModeratedTyped DEF Appeal, WellFormed
<1>2. /\ intents' = [intents EXCEPT ![i] = y] /\ removeBlacklistForIntent(i)
      /\ UNCHANGED <<accountVars, funds, feePool, subsidyPool, shardVars, deleteVars, vested,
                     storageRewards, late>>
  BY DEF Appeal, Appealed
<1> HIDE DEF y
<1> QED
  BY <1>1, <1>2, QuietForm, NonceSame, BlacklistTyped DEF accountVars, moneyVars

\* A block that deletes, at once or when it is ratified: the fund is burned, a finite
\* deal's escrow stays.
BlockBurn(i, x) == IF isPermanentIntent(x) THEN closedFund(i, x).Burn ELSE 0

Closing(x, burn) == [x EXCEPT !.StorageStatus = "terminating", !.BurnedFee = @ + burn]

Closes(i, x) ==
  /\ ensureDeleteTasks(i, Closing(x, BlockBurn(i, x)))
  /\ lockedStorage' = [lockedStorage EXCEPT ![Owner] = @ - BlockBurn(i, x)]
  /\ recordStorageFeeBurn(BlockBurn(i, x))
  /\ funds' = IF isPermanentIntent(x) THEN [funds EXCEPT ![i] = closedFund(i, x).Fund] ELSE funds
  /\ UNCHANGED <<balance, nonce, now, subsidyPool, shardVars, deleteReceipts, vested,
                 storageRewards, late>>

LEMMA ClosingTyped ==
  ASSUME WellFormed, NEW i \in IntentID, NEW x \in Intent(i)
  PROVE  /\ BlockBurn(i, x) \in Nat /\ BlockBurn(i, x) <= lockedStorage[Owner]
         /\ Closing(x, BlockBurn(i, x)) \in Intent(i)
<1> DEFINE burn == BlockBurn(i, x)
<1>1. burn \in Nat /\ burn <= lockedStorage[Owner]
  <2>1. lockedStorage[Owner] \in Nat
    BY OwnerKnown DEF WellFormed, MoneyOK, AccountsTypeOK
  <2>2. closedFund(i, x).Burn \in Nat /\ closedFund(i, x).Burn <= lockedStorage[Owner]
    BY ClosedTyped
  <2>3. burn = 0 \/ burn = closedFund(i, x).Burn
    BY DEF BlockBurn
  <2> HIDE DEF burn
  <2> QED
    BY <2>1, <2>2, <2>3
<1> HIDE DEF burn
<1> DEFINE b == x.BurnedFee + burn
<1>2. b \in Nat
  BY <1>1 DEF Intent
<1> HIDE DEF b
<1>3. [x EXCEPT !.StorageStatus = "terminating", !.BurnedFee = b] \in Intent(i)
  BY <1>2 DEF Intent
<1> QED
  BY <1>1, <1>3 DEF Closing, b, burn

LEMMA ClosesForm ==
  ASSUME WellFormed, NEW i \in IntentID, Exists(i), NEW x \in Intent(i), Closes(i, x),
         blacklist' \in [Hash -> Nat \cup {None}]
  PROVE  WellFormed' /\ Lasting
<1> USE DEF WellFormed
<1> DEFINE burn == BlockBurn(i, x)
           y == Closing(x, burn)
<1>1. y \in Intent(i) /\ burn \in Nat /\ burn <= lockedStorage[Owner]
  BY ClosingTyped
<1>2. /\ ensureDeleteTasks(i, y)
      /\ lockedStorage' = [lockedStorage EXCEPT ![Owner] = @ - burn]
      /\ recordStorageFeeBurn(burn)
      /\ funds' = IF isPermanentIntent(x) THEN [funds EXCEPT ![i] = closedFund(i, x).Fund] ELSE funds
      /\ UNCHANGED <<balance, nonce, now, subsidyPool, shardVars, deleteReceipts, vested,
                     storageRewards, late>>
  BY DEF Closes
<1> HIDE DEF burn, y
<1>3. MoneyOK'
  BY <1>1, <1>2, NonceSame, BurnForm
<1>4. /\ IntentsOK' /\ Lasting
      /\ \A t \in deleteTasks' : t \in DeleteTask /\ Exists(t.Intent)'
  BY <1>1, <1>2, EnsureForm
<1>5. WorkOK'
  BY <1>2, <1>4, SameWork
<1>6. DeletionOK'
  BY <1>2, <1>4 DEF DeletionOK
<1> QED
  BY <1>3, <1>4, <1>5, <1>6

\* A block preserves the storage, or closes the deal.
LEMMA BlockMeans ==
  ASSUME WellFormed, NEW i \in IntentID, NEW preserve \in BOOLEAN, Block(i, preserve)
  PROVE  /\ Exists(i) /\ Blocked(intents[i]) \in Intent(i) /\ addBlacklistForIntent(i, 0)
         /\ preserve => /\ intents' = [intents EXCEPT ![i] = Blocked(intents[i])]
                        /\ UNCHANGED <<accountVars, funds, feePool, subsidyPool, shardVars,
                                       deleteVars, vested, storageRewards, late>>
         /\ ~preserve => Closes(i, Blocked(intents[i]))
<1>1. Exists(i) /\ Blocked(intents[i]) \in Intent(i)
  BY IntentExists, ModeratedTyped DEF Block, WellFormed
<1>2. addBlacklistForIntent(i, 0)
  BY DEF Block
<1>3. CASE preserve
  BY <1>1, <1>2, <1>3 DEF Block, Blocked, accountVars, deleteVars
<1>4. CASE ~preserve
  BY <1>1, <1>2, <1>4 DEF Block, Blocked, Closes, Closing, BlockBurn
<1> QED
  BY <1>3, <1>4

LEMMA BlockForm ==
  ASSUME WellFormed, NEW i \in IntentID, NEW preserve \in BOOLEAN, Block(i, preserve)
  PROVE  WellFormed' /\ Lasting
<1>1. blacklist' \in [Hash -> Nat \cup {None}]
  BY BlockMeans, BlacklistTyped
<1>2. CASE preserve
  BY <1>1, <1>2, BlockMeans, QuietForm, NonceSame DEF accountVars, moneyVars
<1>3. CASE ~preserve
  BY <1>1, <1>3, BlockMeans, ClosesForm
<1> QED
  BY <1>2, <1>3

-----------------------------------------------------------------------------
\* What a delete receipt makes of the intent.
Deleting(x, fresh) ==
  LET done == x.DeleteTaskCount > 0 /\ x.DeleteReceiptCount + fresh >= x.DeleteTaskCount
  IN  [x EXCEPT !.DeleteReceiptCount = @ + fresh,
                !.StorageStatus = IF done THEN "deleted" ELSE @,
                !.Status = IF done THEN "deleted" ELSE @]

LEMMA DeletingTyped ==
  ASSUME NEW i \in IntentID, NEW x \in Intent(i), NEW fresh \in {0, 1}
  PROVE  LET y == Deleting(x, fresh)
         IN  /\ y \in Intent(i) /\ SameFees(x, y)
             /\ y.Assignments = x.Assignments /\ y.Receipts = x.Receipts
             /\ y.DeleteTaskCount = x.DeleteTaskCount
             /\ y.DeleteReceiptCount = x.DeleteReceiptCount + fresh
             /\ y.ModerationStatus = x.ModerationStatus /\ y.ModerationExpires = x.ModerationExpires
             /\ y.ExpiresAt = x.ExpiresAt
             /\ \/ y.Status = x.Status /\ y.StorageStatus = x.StorageStatus
                \/ /\ x.DeleteTaskCount > 0 /\ x.DeleteReceiptCount + fresh >= x.DeleteTaskCount
                   /\ y.Status = "deleted" /\ y.StorageStatus = "deleted"
<1> DEFINE done == x.DeleteTaskCount > 0 /\ x.DeleteReceiptCount + fresh >= x.DeleteTaskCount
           n == x.DeleteReceiptCount + fresh
           a == IF done THEN "deleted" ELSE x.StorageStatus
           b == IF done THEN "deleted" ELSE x.Status
           y == [x EXCEPT !.DeleteReceiptCount = n, !.StorageStatus = a, !.Status = b]
<1>1. n \in Nat
  BY DEF Intent
<1>2. /\ a \in {"pending", "active", "expired", "terminating", "deleted"}
      /\ b \in {"uploading", "partial", "finalized", "expired", "deleted"}
      /\ (a = x.StorageStatus /\ b = x.Status) \/ (a = "deleted" /\ b = "deleted" /\ done)
  BY DEF Intent
<1>3. Deleting(x, fresh) = y
  BY DEF Deleting
<1> HIDE DEF n, a, b, done
<1>4. y \in Intent(i) /\ SameFees(x, y)
  BY <1>1, <1>2 DEF Intent, SameFees
<1>5. /\ y.Assignments = x.Assignments /\ y.Receipts = x.Receipts
      /\ y.DeleteTaskCount = x.DeleteTaskCount /\ y.DeleteReceiptCount = n
      /\ y.ModerationStatus = x.ModerationStatus /\ y.ModerationExpires = x.ModerationExpires
      /\ y.ExpiresAt = x.ExpiresAt /\ y.StorageStatus = a /\ y.Status = b
  BY DEF Intent
<1> HIDE DEF y
<1> QED
  BY <1>2, <1>3, <1>4, <1>5 DEF n, done

LEMMA DeleteReceiptMeans ==
  ASSUME WellFormed, NEW t \in deleteTasks, SubmitDeleteReceipt(t)
  PROVE  LET i == t.Intent
             key == <<i, t.Hash, t.Miner>>
             x == expireGovernanceAction(intents[i])
             fresh == IF key \in deleteReceipts THEN 0 ELSE 1
         IN  /\ t \in DeleteTask /\ i \in IntentID /\ Exists(i) /\ x \in Intent(i)
             /\ key \in IntentID \X Hash \X Miner
             /\ x.StorageStatus \in {"terminating", "deleted"}
             /\ \E s \in Shards(i) : HashOf[i][s] = t.Hash /\ x.Receipts[s] = t.Miner
             /\ t.Pending
             /\ deleteReceipts' = deleteReceipts \cup {key}
             /\ used' = [used EXCEPT ![t.Miner] = Minus(@, fresh)]
             /\ deleteTasks' = (deleteTasks \ {t}) \cup {[t EXCEPT !.Pending = (fresh = 0)]}
             /\ intents' = [intents EXCEPT ![i] = Deleting(x, fresh)]
             /\ UNCHANGED <<accountVars, funds, feePool, subsidyPool, reserved, repairTasks, challenges,
                            misses, blacklist, vested, storageRewards, late>>
<1> DEFINE i == t.Intent
           x == expireGovernanceAction(intents[i])
<1>1. t \in DeleteTask /\ Exists(i)
  BY DEF WellFormed, DeletionOK
<1>2. i \in IntentID /\ t.Hash \in Hash /\ t.Miner \in Miner
  BY <1>1 DEF DeleteTask
<1>3. x \in Intent(i)
  BY <1>1, <1>2, IntentExists, ExpireKeeps DEF WellFormed
<1> QED
  BY <1>1, <1>2, <1>3 DEF SubmitDeleteReceipt, Deleting

LEMMA DeleteReceiptForm ==
  ASSUME WellFormed, NEW t \in deleteTasks, SubmitDeleteReceipt(t)
  PROVE  WellFormed' /\ Lasting
<1> USE DEF WellFormed
<1> DEFINE i == t.Intent
           key == <<i, t.Hash, t.Miner>>
           x == expireGovernanceAction(intents[i])
           fresh == IF key \in deleteReceipts THEN 0 ELSE 1
           y == Deleting(x, fresh)
           u == [t EXCEPT !.Pending = (fresh = 0)]
<1>1. /\ t \in DeleteTask /\ i \in IntentID /\ Exists(i) /\ x \in Intent(i)
      /\ key \in IntentID \X Hash \X Miner
      /\ deleteReceipts' = deleteReceipts \cup {key}
      /\ used' = [used EXCEPT ![t.Miner] = Minus(@, fresh)]
      /\ deleteTasks' = (deleteTasks \ {t}) \cup {u}
      /\ intents' = [intents EXCEPT ![i] = y]
      /\ UNCHANGED <<accountVars, funds, feePool, subsidyPool, reserved, repairTasks, challenges,
                     misses, blacklist, vested, storageRewards, late>>
  BY DeleteReceiptMeans
<1>2. fresh \in {0, 1} /\ fresh \in Nat
  OBVIOUS
<1> HIDE DEF fresh, x
<1>3. y \in Intent(i)
  BY <1>1, <1>2, DeletingTyped
<1>4. u \in DeleteTask /\ u.Intent = i
  BY <1>1 DEF DeleteTask
<1> HIDE DEF y, u, key, i
<1>5. IntentsOK' /\ Lasting
  BY <1>1, <1>3, IntentSet
<1>6. MoneyOK'
  BY <1>1, SameMoney DEF accountVars, moneyVars
<1>7. WorkOK'
  <2>1. t.Miner \in Miner
    BY <1>1 DEF DeleteTask
  <2>2. Minus(used[t.Miner], fresh) \in Nat
    BY <1>2, <2>1, MinusNat DEF WorkOK
  <2>3. used' \in [Miner -> Nat]
    BY <1>1, <2>1, <2>2 DEF WorkOK
  <2>4. \A r \in repairTasks : r.Intent \in IntentID
    BY DEF WorkOK, RepairTask
  <2>5. \A c \in challenges : c.Intent \in IntentID
    BY DEF WorkOK, StorageChallenge
  <2> QED
    BY <1>1, <1>5, <2>3, <2>4, <2>5 DEF WorkOK, Lasting, Exists
<1>8. DeletionOK'
  <2>1. \A d \in deleteTasks : d \in DeleteTask /\ intents'[d.Intent] # None
    BY <1>5 DEF DeletionOK, DeleteTask, Lasting
  <2>2. intents'[u.Intent] # None
    BY <1>1, <1>4, <1>5 DEF Lasting
  <2> QED
    BY <1>1, <1>4, <2>1, <2>2 DEF DeletionOK, Exists
<1> QED
  BY <1>5, <1>6, <1>7, <1>8

-----------------------------------------------------------------------------
\* A repair that is asked for is one of that shard, open.
RepairsFor(i, s, old) ==
  {t \in RepairTask : t.Intent = i /\ t.Shard = s /\ t.Old = old /\ t.Status = "pending"}

LEMMA TasksTyped ==
  ASSUME NEW i \in IntentID, NEW s \in Shards(i), NEW old \in Miner \cup {None},
         NEW mode \in {"rs", "cross_parity", "cross_parity_rebuild"}, NEW sources \in SUBSET Miner
  PROVE  Tasks(i, s, old, mode, sources) \subseteq RepairsFor(i, s, old)
<1>1. s \in Int \X Nat
  BY ShardsFinite
<1> QED
  BY <1>1 DEF Tasks, RepairsFor, RepairTask

\* Who holds a shard that is available is a miner.
LEMMA HolderMiner ==
  ASSUME WellFormed, NEW i \in IntentID, Exists(i), NEW s \in Shards(i)
  PROVE  /\ Holder(i, s) \in Miner \cup {None}
         /\ \A unavailable : Available(i, s, unavailable) => Holder(i, s) \in Miner
<1>1. intents[i] \in Intent(i)
  BY IntentExists DEF WellFormed
<1>2. Holder(i, s) \in Miner \cup {None}
  BY <1>1 DEF Intent, Holder
<1> QED
  BY <1>2 DEF Available

\* The shards of a pool, and those it is the parity of, are shards of the file.
LEMMA PoolShards ==
  ASSUME NEW i \in IntentID, NEW s \in Shards(i), NEW p \in DOMAIN Layout[i].Pools
  PROVE  /\ <<Parity(p), s[2]>> \in Shards(i)
         /\ \A g \in Layout[i].Pools[p] : <<g, s[2]>> \in Shards(i)
         /\ s[1] \in Layout[i].Pools[p] =>
              (CHOOSE g \in Layout[i].Pools[p] : g # s[1]) \in Layout[i].Pools[p]
<1>1. s[2] \in 0 .. Layout[i].Total - 1
  BY DEF Shards
<1>2. PICK g, h \in Layout[i].Roots : g # h /\ Layout[i].Pools[p] = {g, h}
  BY FileAssumption
<1>3. Parity(p) \in Segments(i) /\ \A k \in Layout[i].Pools[p] : k \in Segments(i)
  BY <1>2 DEF Segments
<1>4. \E k \in Layout[i].Pools[p] : k # s[1]
  BY <1>2
<1> QED
  BY <1>1, <1>3, <1>4 DEF Shards

LEMMA RepairsTyped ==
  ASSUME WellFormed, NEW i \in IntentID, Exists(i), NEW s \in Shards(i),
         NEW old \in Miner \cup {None}, NEW unavailable
  PROVE  repairsOf(i, s, old, unavailable) \subseteq RepairsFor(i, s, old)
<1>1. rsTasks(i, s, old, unavailable) \subseteq RepairsFor(i, s, old)
  <2> DEFINE sources == {t \in Shards(i) : /\ t[1] = s[1] /\ t # s
                                    /\ Available(i, t, unavailable) /\ Holder(i, t) # old}
             holders == {Holder(i, t) : t \in sources}
  <2>1. holders \in SUBSET Miner
    BY HolderMiner
  <2>2. rsTasks(i, s, old, unavailable) \subseteq Tasks(i, s, old, "rs", holders)
    BY DEF rsTasks
  <2> HIDE DEF holders
  <2> QED
    BY <2>1, <2>2, TasksTyped
<1>2. crossParityTasks(i, s, old, unavailable) \subseteq RepairsFor(i, s, old)
  <2> DEFINE peer(p) == CHOOSE g \in Layout[i].Pools[p] : g # s[1]
             sources(p) == {<<peer(p), s[2]>>, <<Parity(p), s[2]>>}
             holders(p) == {Holder(i, t) : t \in sources(p)} \ {old}
             some(p) == IF \A t \in sources(p) : Available(i, t, unavailable)
                        THEN Tasks(i, s, old, "cross_parity", holders(p)) ELSE {}
  <2>1. crossParityTasks(i, s, old, unavailable) = UNION {some(p) : p \in PoolsOf(i, s[1])}
    BY DEF crossParityTasks
  <2>2. ASSUME NEW p \in PoolsOf(i, s[1])
        PROVE  some(p) \subseteq RepairsFor(i, s, old)
    <3>1. p \in DOMAIN Layout[i].Pools /\ s[1] \in Layout[i].Pools[p]
      BY DEF PoolsOf
    <3>2. sources(p) \subseteq Shards(i)
      BY <3>1, PoolShards
    <3>3. CASE \A t \in sources(p) : Available(i, t, unavailable)
      <4>1. holders(p) \in SUBSET Miner
        <5> HIDE DEF sources
        <5> QED
          BY <3>2, <3>3, HolderMiner
      <4> HIDE DEF holders
      <4> QED
        BY <3>3, <4>1, TasksTyped
    <3> QED
      BY <3>3
  <2> HIDE DEF some
  <2> QED
    BY <2>1, <2>2
<1>3. rebuildTasks(i, s, old, unavailable) \subseteq RepairsFor(i, s, old)
  <2> DEFINE sources(p) == {<<g, s[2]>> : g \in Layout[i].Pools[p]}
             holders(p) == {Holder(i, t) : t \in sources(p)}
             some(p) == IF \A t \in sources(p) : Available(i, t, unavailable)
                        THEN Tasks(i, s, old, "cross_parity_rebuild", holders(p)) ELSE {}
             own == {q \in DOMAIN Layout[i].Pools : Parity(q) = s[1]}
  <2>1. rebuildTasks(i, s, old, unavailable) = UNION {some(p) : p \in own}
    BY DEF rebuildTasks
  <2>2. ASSUME NEW p \in own
        PROVE  some(p) \subseteq RepairsFor(i, s, old)
    <3>1. sources(p) \subseteq Shards(i)
      <4>1. p \in DOMAIN Layout[i].Pools
        OBVIOUS
      <4>2. \A g \in Layout[i].Pools[p] : <<g, s[2]>> \in Shards(i)
        BY <4>1, PoolShards
      <4> QED
        BY <4>2
    <3>2. CASE \A t \in sources(p) : Available(i, t, unavailable)
      <4>1. holders(p) \in SUBSET Miner
        <5> HIDE DEF sources
        <5> QED
          BY <3>1, <3>2, HolderMiner
      <4> HIDE DEF holders
      <4> QED
        BY <3>2, <4>1, TasksTyped
    <3> QED
      BY <3>2
  <2> HIDE DEF some, own
  <2> QED
    BY <2>1, <2>2
<1> QED
  BY <1>1, <1>2, <1>3 DEF repairsOf

\* Repairs that are made are added to those there are.
LEMMA ApplyForm ==
  ASSUME WellFormed, NEW tasks, IsFiniteSet(tasks), applyRepairTasks(tasks),
         \A t \in tasks : t \in RepairTask /\ Exists(t.Intent) /\ t.Shard \in Shards(t.Intent)
  PROVE  /\ IsFiniteSet(repairTasks') /\ reserved' \in [Miner -> Nat]
         /\ \A t \in repairTasks' : t \in RepairTask /\ Exists(t.Intent) /\ t.Shard \in Shards(t.Intent)
<1> DEFINE new == {t \in tasks : ~ \E u \in repairTasks :
                              u.Intent = t.Intent /\ u.Shard = t.Shard /\ u.Miner = t.Miner}
           at(m) == {t \in new : t.Miner = m}
<1>1. /\ repairTasks' = repairTasks \cup new
      /\ reserved' = [m \in Miner |-> reserved[m] + Cardinality(at(m))]
  BY DEF applyRepairTasks
<1>2. new \subseteq tasks /\ \A m : at(m) \subseteq tasks
  OBVIOUS
<1> HIDE DEF new, at
<1>3. IsFiniteSet(repairTasks')
  BY <1>1, <1>2, FS_Subset, FS_Union DEF WellFormed, WorkOK
<1>4. ASSUME NEW m \in Miner
      PROVE  reserved[m] + Cardinality(at(m)) \in Nat
  <2>1. Cardinality(at(m)) \in Nat
    BY <1>2, FS_Subset, FS_CardinalityType
  <2> QED
    BY <2>1 DEF WellFormed, WorkOK
<1> QED
  BY <1>1, <1>2, <1>3, <1>4 DEF WellFormed, WorkOK

LEMMA CreateRepairForm ==
  ASSUME WellFormed, NEW i \in IntentID, NEW unavailable \in SUBSET Miner, NEW includeMissing \in BOOLEAN,
         CreateRepairTasks(i, unavailable, includeMissing)
  PROVE  WellFormed' /\ Lasting
<1> USE DEF WellFormed
<1> DEFINE wanted == {s \in Shards(i) :
                   /\ ~Pending(i, s)
                   /\ Holder(i, s) \in unavailable \/ (Holder(i, s) = None /\ includeMissing)}
           repairs == [s \in wanted |-> repairsOf(i, s, Holder(i, s), unavailable)]
           possible == {s \in wanted : repairs[s] # {}}
<1>1. Exists(i) /\ UNCHANGED <<accountVars, intents, funds, feePool, subsidyPool, used, challenges, misses,
                     deleteVars, blacklist, vested, storageRewards, late>>
  BY DEF CreateRepairTasks
<1>2. PICK f \in [possible -> UNION {repairs[s] : s \in possible}] :
           /\ \A s \in possible : f[s] \in repairs[s]
           /\ applyRepairTasks({f[s] : s \in possible})
  BY DEF CreateRepairTasks
<1> DEFINE tasks == {f[s] : s \in possible}
<1>3. IsFiniteSet(tasks)
  <2>1. IsFiniteSet(possible)
    BY ShardsFinite
  <2> HIDE DEF possible
  <2> QED
    BY <2>1, ImageFinite
<1>4. ASSUME NEW s \in possible
      PROVE  f[s] \in RepairTask /\ f[s].Intent = i /\ f[s].Shard = s /\ s \in Shards(i)
  <2>1. s \in wanted /\ s \in Shards(i)
    OBVIOUS
  <2>2. Holder(i, s) \in Miner \cup {None}
    BY <1>1, <2>1, HolderMiner
  <2>3. repairs[s] \subseteq RepairsFor(i, s, Holder(i, s))
    BY <1>1, <2>1, <2>2, RepairsTyped
  <2>4. f[s] \in RepairsFor(i, s, Holder(i, s))
    BY <1>2, <2>3
  <2> HIDE DEF possible, repairs, wanted
  <2> QED
    BY <2>1, <2>4 DEF RepairsFor
<1> HIDE DEF possible, repairs, wanted
<1>5. \A t \in tasks : t \in RepairTask /\ Exists(t.Intent) /\ t.Shard \in Shards(t.Intent)
  BY <1>1, <1>4
<1> HIDE DEF tasks
<1>6. /\ IsFiniteSet(repairTasks') /\ reserved' \in [Miner -> Nat]
      /\ \A t \in repairTasks' : t \in RepairTask /\ Exists(t.Intent) /\ t.Shard \in Shards(t.Intent)
  BY <1>2, <1>3, <1>5, ApplyForm DEF tasks
<1>7. IntentsOK' /\ Lasting
  BY <1>1, IntentsSame
<1>8. MoneyOK'
  BY <1>1, SameMoney DEF accountVars, moneyVars
<1>9. WorkOK'
  BY <1>1, <1>6 DEF WorkOK, Exists
<1>10. DeletionOK'
  BY <1>1, <1>7, SameDeletion DEF DeletionOK
<1> QED
  BY <1>7, <1>8, <1>9, <1>10

LEMMA MissedProofForm ==
  ASSUME WellFormed, NEW c \in challenges, MissedProof(c)
  PROVE  WellFormed' /\ Lasting
<1> USE DEF WellFormed
<1> DEFINE i == c.Intent
           key == <<i, c.Shard, c.Miner>>
           count == (IF key \in DOMAIN misses THEN misses[key] ELSE 0) + 1
           repairs == IF Pending(i, c.Shard) \/ intents[i].Status = "expired" THEN {}
                      ELSE repairsOf(i, c.Shard, c.Miner, {c.Miner})
<1>1. c \in StorageChallenge /\ i \in IntentID /\ Exists(i) /\ c.Shard \in Shards(i) /\ c.Miner \in Miner
  BY DEF WorkOK, StorageChallenge
<1>2. /\ challenges' = challenges \ {c}
      /\ UNCHANGED <<accountVars, intents, funds, feePool, subsidyPool, used, deleteVars, blacklist,
                     vested, storageRewards, late>>
  BY DEF MissedProof
<1>3. count \in Nat
  BY DEF WorkOK
<1>4. \A k \in DOMAIN misses' : misses'[k] \in Nat
  <2>1. CASE count < RepairDelay
    <3>1. misses' = [k \in DOMAIN misses \cup {key} |-> IF k = key THEN count ELSE misses[k]]
      BY <2>1 DEF MissedProof
    <3> HIDE DEF count, key
    <3> QED
      BY <1>3, <3>1 DEF WorkOK
  <2>2. CASE ~(count < RepairDelay)
    <3>1. misses' = Restrict(misses, DOMAIN misses \ {key})
      BY <2>2 DEF MissedProof
    <3> HIDE DEF count, key
    <3> QED
      BY <3>1 DEF WorkOK, Restrict
  <2> QED
    BY <2>1, <2>2
<1>5. UNCHANGED <<repairTasks, reserved>> \/ \E t \in repairs : applyRepairTasks({t})
  BY DEF MissedProof
<1>6. /\ IsFiniteSet(repairTasks') /\ reserved' \in [Miner -> Nat]
      /\ \A t \in repairTasks' : t \in RepairTask /\ Exists(t.Intent) /\ t.Shard \in Shards(t.Intent)
  <2>1. CASE UNCHANGED <<repairTasks, reserved>>
    BY <2>1 DEF WorkOK
  <2>2. ASSUME NEW t \in repairs, applyRepairTasks({t})
        PROVE  /\ IsFiniteSet(repairTasks') /\ reserved' \in [Miner -> Nat]
               /\ \A u \in repairTasks' : u \in RepairTask /\ Exists(u.Intent) /\ u.Shard \in Shards(u.Intent)
    <3>1. t \in RepairsFor(i, c.Shard, c.Miner)
      <4>1. repairsOf(i, c.Shard, c.Miner, {c.Miner}) \subseteq RepairsFor(i, c.Shard, c.Miner)
        BY <1>1, RepairsTyped
      <4> QED
        BY <4>1
    <3>2. t \in RepairTask /\ Exists(t.Intent) /\ t.Shard \in Shards(t.Intent)
      BY <1>1, <3>1 DEF RepairsFor
    <3>3. IsFiniteSet({t})
      BY FS_Singleton
    <3> DEFINE tasks == {t}
    <3>4. \A u \in tasks : u \in RepairTask /\ Exists(u.Intent) /\ u.Shard \in Shards(u.Intent)
      BY <3>2
    <3>5. IsFiniteSet(tasks) /\ applyRepairTasks(tasks)
      BY <3>3, <2>2
    <3> HIDE DEF tasks
    <3> QED
      BY <3>4, <3>5, ApplyForm
  <2> QED
    BY <1>5, <2>1, <2>2
<1>7. IntentsOK' /\ Lasting
  BY <1>2, IntentsSame
<1>8. MoneyOK'
  BY <1>2, SameMoney DEF accountVars, moneyVars
<1>9. WorkOK'
  BY <1>2, <1>4, <1>6 DEF WorkOK, Exists
<1>10. DeletionOK'
  BY <1>2, <1>7, SameDeletion DEF DeletionOK
<1> QED
  BY <1>7, <1>8, <1>9, <1>10

LEMMA NextBlockForm ==
  ASSUME WellFormed, NextBlock, UNCHANGED dealVars
  PROVE  WellFormed' /\ Lasting
<1> USE DEF WellFormed
<1>1. now' \in 0..MaxTime
  BY AccountAssumption DEF NextBlock, MoneyOK, AccountsTypeOK
<1>2. UNCHANGED <<balance, lockedStorage, nonce>>
  BY DEF NextBlock
<1>3. MoneyOK'
  BY <1>1, <1>2 DEF MoneyOK, AccountsTypeOK, dealVars
<1>4. IntentsOK' /\ Lasting
  BY IntentsSame DEF dealVars
<1>5. WorkOK'
  BY <1>4, SameWork DEF dealVars, shardVars
<1>6. DeletionOK'
  BY <1>4, SameDeletion DEF dealVars, deleteVars, DeletionOK
<1> QED
  BY <1>3, <1>4, <1>5, <1>6

LEMMA StutterForm ==
  ASSUME WellFormed, UNCHANGED <<accountVars, dealVars>>
  PROVE  WellFormed' /\ Lasting
<1> USE DEF WellFormed
<1>1. MoneyOK'
  BY SameMoney DEF dealVars, accountVars, moneyVars
<1>2. IntentsOK' /\ Lasting
  BY IntentsSame DEF dealVars
<1>3. WorkOK'
  BY <1>2, SameWork DEF dealVars, shardVars
<1>4. DeletionOK'
  BY <1>2, SameDeletion DEF dealVars, deleteVars, DeletionOK
<1> QED
  BY <1>1, <1>2, <1>3, <1>4

LEMMA InitForm ==
  ASSUME AccountsInit, DealsInit
  PROVE  WellFormed
<1>1. IntentsOK
  BY DEF DealsInit, IntentsOK
<1>2. MoneyOK
  <2>1. AccountsTypeOK
    BY AccountAssumption DEF AccountsInit, AccountsTypeOK
  <2>2. funds \in [IntentID -> PermanentStorageFund \cup {None}] /\ feePool \in StorageFeePool
    BY DEF DealsInit, StorageFeePool
  <2>3. subsidyPool \in Nat
    BY DealAssumption DEF DealsInit
  <2>4. vested \in [Miner -> [proof : Nat, repair : Nat]] /\ storageRewards \in [Miner -> Nat]
    BY DEF DealsInit
  <2> QED
    BY <2>1, <2>2, <2>3, <2>4 DEF MoneyOK
<1>3. WorkOK
  BY FS_EmptySet DEF DealsInit, WorkOK
<1>4. DeletionOK
  BY DEF DealsInit, DeletionOK
<1> QED
  BY <1>1, <1>2, <1>3, <1>4 DEF WellFormed

LEMMA DealForm ==
  ASSUME WellFormed, DealStep
  PROVE  WellFormed' /\ Lasting
<1>1. CASE UploadStep
  BY <1>1, CreateIntentForm, BatchCommitLateForm, FinalizeForm, BatchCommitForm DEF UploadStep
<1>2. CASE TermStep
  <2>1. CASE autoRenewDeals
    BY <2>1, AutoRenewForm
  <2>2. ASSUME NEW i \in IntentID,
               \/ SettleIntent(i) \/ SettleExpiredIntents(i) \/ RenewDeal(i) \/ RenewRefused(i)
               \/ \E amount \in Nat \ {0} : TopUpPermanentFund(i, amount)
               \/ \E status \in AccessStatus : SetAccessPolicy(i, status)
        PROVE  WellFormed' /\ Lasting
    BY <2>2, SettleIntentForm, RenewDealForm, RenewRefusedForm, TopUpForm, SetAccessForm
  <2> QED
    BY <1>2, <2>1, <2>2 DEF TermStep
<1>3. CASE ProofStep
  BY <1>3, CreateChallengeForm, SubmitProofForm, MissedProofForm, CreateRepairForm DEF ProofStep
<1>4. ASSUME NEW t \in deleteTasks, SubmitDeleteReceipt(t)
      PROVE  WellFormed' /\ Lasting
  BY <1>4, DeleteReceiptForm
<1> QED
  BY <1>1, <1>2, <1>3, <1>4 DEF DealStep

LEMMA ModerationForm ==
  ASSUME WellFormed, ModerationStep
  PROVE  WellFormed' /\ Lasting
BY FreezeForm, BlockForm, LegalHoldForm, AppealForm DEF ModerationStep

LEMMA DealsKeepForm ==
  ASSUME WellFormed, [DealsNext]_<<accountVars, dealVars>>
  PROVE  WellFormed' /\ Lasting
<1>1. CASE DealStep
  BY <1>1, DealForm
<1>2. CASE ModerationStep
  BY <1>2, ModerationForm
<1>3. ASSUME NEW i \in IntentID, TerminateDeal(i)
      PROVE  WellFormed' /\ Lasting
  BY <1>3, TerminateForm
<1>4. CASE NextBlock /\ UNCHANGED dealVars
  BY <1>4, NextBlockForm
<1>5. CASE UNCHANGED <<accountVars, dealVars>>
  BY <1>5, StutterForm
<1> QED
  BY <1>1, <1>2, <1>3, <1>4, <1>5 DEF DealsNext

-----------------------------------------------------------------------------
(***************************************************************************)
(* Escrows are backed, and no token is lost                                *)
(***************************************************************************)
OwedFor(i) == IF Exists(i) THEN remainingIntentEscrow(intents[i]) ELSE 0

Owed == SumFunctionOnSet([i \in IntentID |-> OwedFor(i)], IntentID)

\* A deal for ever has no end.
LastsOK(i) == Exists(i) /\ isPermanentIntent(intents[i]) => intents[i].ExpiresAt = 0

\* No more of a fee is spent than there is of it, and a fund holds what is left of it.
FeesOK(i) ==
  IF Exists(i)
  THEN LET x == intents[i]
       IN  /\ x.PaidFee + x.RefundedFee + x.BurnedFee <= x.LockedFee
           /\ funds[i] # None => isPermanentIntent(x) /\ funds[i].Balance = remainingIntentEscrow(x)
  ELSE funds[i] = None

Spent == feePool.Burned + feePool.Paid

MoneyKept ==
  /\ \A i \in IntentID : LastsOK(i)
  /\ ~late => /\ \A i \in IntentID : FeesOK(i)
              /\ lockedStorage[Owner] >= Owed
              /\ Tokens + Spent = GenesisSupply

LEMMA OwedNat ==
  ASSUME WellFormed, NEW i \in IntentID
  PROVE  OwedFor(i) \in Nat /\ Owed \in Nat /\ OwedFor(i) <= Owed
<1> DEFINE f == [j \in IntentID |-> OwedFor(j)]
<1>1. ASSUME NEW j \in IntentID PROVE OwedFor(j) \in Nat
  BY IntentExists, EscrowNat DEF WellFormed, OwedFor
<1>2. \A j \in IntentID : f[j] \in Nat
  BY <1>1
<1>3. f[i] = OwedFor(i)
  OBVIOUS
<1> HIDE DEF f
<1>4. SumFunctionOnSet(f, IntentID) \in Nat /\ f[i] <= SumFunctionOnSet(f, IntentID)
  BY <1>2, SumNat, FileAssumption
<1> QED
  BY <1>1, <1>3, <1>4 DEF Owed, f

LEMMA OwedNext ==
  ASSUME WellFormed', NEW i \in IntentID
  PROVE  OwedFor(i)' \in Nat
<1>1. CASE intents'[i] = None
  BY <1>1 DEF OwedFor, Exists
<1>2. CASE intents'[i] # None
  <2>1. intents'[i] \in Intent(i)
    BY <1>2 DEF WellFormed, IntentsOK
  <2>2. remainingIntentEscrow(intents'[i]) \in Nat
    BY <2>1, EscrowNat
  <2> QED
    BY <1>2, <2>2 DEF OwedFor, Exists
<1> QED
  BY <1>1, <1>2

\* Only what is owed for one deal changes.
LEMMA OwedUpdate ==
  ASSUME WellFormed, WellFormed', NEW i \in IntentID,
         \A j \in IntentID \ {i} : OwedFor(j)' = OwedFor(j)
  PROVE  Owed' = Owed + (OwedFor(i)' - OwedFor(i))
<1> DEFINE f == [j \in IntentID |-> OwedFor(j)]
           g == [j \in IntentID |-> OwedFor(j)']
<1>1. \A j \in IntentID : OwedFor(j) \in Int
  BY OwedNat
<1>2. \A j \in IntentID : OwedFor(j)' \in Int
  BY OwedNext
<1>3. \A j \in IntentID : f[j] \in Int /\ g[j] \in Int
  BY <1>1, <1>2
<1>4. \A j \in IntentID \ {i} : g[j] = f[j]
  OBVIOUS
<1>5. f[i] = OwedFor(i) /\ g[i] = OwedFor(i)'
  OBVIOUS
<1> HIDE DEF f, g
<1>6. SumFunctionOnSet(g, IntentID) = SumFunctionOnSet(f, IntentID) + (g[i] - f[i])
  BY <1>3, <1>4, SumUpdate, FileAssumption
<1> QED
  BY <1>5, <1>6 DEF Owed, f, g

LEMMA OwedSame ==
  ASSUME \A j \in IntentID : OwedFor(j)' = OwedFor(j)
  PROVE  Owed' = Owed
BY DEF Owed

\* The tokens there are.
LEMMA TokensInt ==
  ASSUME WellFormed
  PROVE  Tokens \in Int
<1>1. /\ balance \in [Account -> Nat] /\ lockedStorage \in [Account -> Nat]
  BY DEF WellFormed, MoneyOK, AccountsTypeOK
<1>2. \A a \in Account : balance[a] \in Int /\ lockedStorage[a] \in Int
  BY <1>1
<1> QED
  BY <1>2, SumInt, AccountAssumption DEF Tokens

\* Tokens of one account change.
LEMMA TokensUpdate ==
  ASSUME WellFormed, WellFormed', NEW a \in Account,
         \A b \in Account \ {a} : balance'[b] = balance[b] /\ lockedStorage'[b] = lockedStorage[b]
  PROVE  Tokens' = Tokens + (balance'[a] - balance[a]) + (lockedStorage'[a] - lockedStorage[a])
<1>1. /\ balance \in [Account -> Nat] /\ lockedStorage \in [Account -> Nat]
      /\ balance' \in [Account -> Nat] /\ lockedStorage' \in [Account -> Nat]
  BY DEF WellFormed, MoneyOK, AccountsTypeOK
<1>2. /\ \A b \in Account : balance[b] \in Int /\ balance'[b] \in Int
      /\ \A b \in Account : lockedStorage[b] \in Int /\ lockedStorage'[b] \in Int
      /\ \A b \in Account \ {a} : balance'[b] = balance[b]
      /\ \A b \in Account \ {a} : lockedStorage'[b] = lockedStorage[b]
  BY <1>1
<1>3. SumFunctionOnSet(balance', Account) = SumFunctionOnSet(balance, Account) + (balance'[a] - balance[a])
  <2> DEFINE f == balance
             g == balance'
  <2>1. \A b \in Account : f[b] \in Int /\ g[b] \in Int
    BY <1>2
  <2>2. \A b \in Account \ {a} : g[b] = f[b]
    BY <1>2
  <2> HIDE DEF f, g
  <2>3. SumFunctionOnSet(g, Account) = SumFunctionOnSet(f, Account) + (g[a] - f[a])
    <3>1. IsFiniteSet(Account)
      BY AccountAssumption
    <3> QED
      BY <2>1, <2>2, <3>1, SumUpdate
  <2> QED
    BY <2>3 DEF f, g
<1>4. SumFunctionOnSet(lockedStorage', Account)
        = SumFunctionOnSet(lockedStorage, Account) + (lockedStorage'[a] - lockedStorage[a])
  <2> DEFINE f == lockedStorage
             g == lockedStorage'
  <2>1. \A b \in Account : f[b] \in Int /\ g[b] \in Int
    BY <1>2
  <2>2. \A b \in Account \ {a} : g[b] = f[b]
    BY <1>2
  <2> HIDE DEF f, g
  <2>3. SumFunctionOnSet(g, Account) = SumFunctionOnSet(f, Account) + (g[a] - f[a])
    <3>1. IsFiniteSet(Account)
      BY AccountAssumption
    <3> QED
      BY <2>1, <2>2, <3>1, SumUpdate
  <2> QED
    BY <2>3 DEF f, g
<1>5. SumFunctionOnSet(balance, Account) \in Int /\ SumFunctionOnSet(lockedStorage, Account) \in Int
  BY <1>2, SumInt, AccountAssumption
<1> DEFINE s == SumFunctionOnSet(balance, Account)
           t == SumFunctionOnSet(lockedStorage, Account)
           d == balance'[a] - balance[a]
           e == lockedStorage'[a] - lockedStorage[a]
<1>6. d \in Int /\ e \in Int /\ s \in Int /\ t \in Int
  BY <1>2, <1>5
<1>7. Tokens = s + t /\ Tokens' = (s + d) + (t + e)
  BY <1>3, <1>4 DEF Tokens
<1> HIDE DEF s, t, d, e
<1>8. Tokens' = Tokens + d + e
  BY <1>6, <1>7
<1> QED
  BY <1>8 DEF d, e

\* The owner's tokens are locked, returned, or spent.
Locks(d) ==
  /\ balance' = [balance EXCEPT ![Owner] = @ - d]
  /\ lockedStorage' = [lockedStorage EXCEPT ![Owner] = @ + d]

Unlocks(d) ==
  /\ balance' = [balance EXCEPT ![Owner] = @ + d]
  /\ lockedStorage' = [lockedStorage EXCEPT ![Owner] = @ - d]

Spends(d) ==
  /\ UNCHANGED balance
  /\ lockedStorage' = [lockedStorage EXCEPT ![Owner] = @ - d]

LEMMA LockTokens ==
  ASSUME WellFormed, WellFormed', NEW d \in Int,
         Locks(d)
  PROVE  Tokens' = Tokens /\ lockedStorage'[Owner] - lockedStorage[Owner] = d
<1>1. /\ balance \in [Account -> Nat] /\ lockedStorage \in [Account -> Nat]
  BY DEF WellFormed, MoneyOK, AccountsTypeOK
<1>2. \A b \in Account \ {Owner} : balance'[b] = balance[b] /\ lockedStorage'[b] = lockedStorage[b]
  BY <1>1 DEF Locks
<1>3. balance'[Owner] = balance[Owner] - d /\ lockedStorage'[Owner] = lockedStorage[Owner] + d
  BY <1>1, OwnerKnown DEF Locks
<1>4. balance'[Owner] - balance[Owner] = -d /\ lockedStorage'[Owner] - lockedStorage[Owner] = d
  BY <1>1, <1>3, OwnerKnown
<1>5. Tokens' = Tokens + (balance'[Owner] - balance[Owner]) + (lockedStorage'[Owner] - lockedStorage[Owner])
  BY <1>2, OwnerKnown, TokensUpdate
<1> QED
  BY <1>4, <1>5, TokensInt

LEMMA UnlockTokens ==
  ASSUME WellFormed, WellFormed', NEW d \in Int,
         Unlocks(d)
  PROVE  Tokens' = Tokens /\ lockedStorage'[Owner] - lockedStorage[Owner] = -d
<1>1. /\ balance \in [Account -> Nat] /\ lockedStorage \in [Account -> Nat]
  BY DEF WellFormed, MoneyOK, AccountsTypeOK
<1>2. \A b \in Account \ {Owner} : balance'[b] = balance[b] /\ lockedStorage'[b] = lockedStorage[b]
  BY <1>1 DEF Unlocks
<1>3. balance'[Owner] = balance[Owner] + d /\ lockedStorage'[Owner] = lockedStorage[Owner] - d
  BY <1>1, OwnerKnown DEF Unlocks
<1>4. balance'[Owner] - balance[Owner] = d /\ lockedStorage'[Owner] - lockedStorage[Owner] = -d
  BY <1>1, <1>3, OwnerKnown
<1>5. Tokens' = Tokens + (balance'[Owner] - balance[Owner]) + (lockedStorage'[Owner] - lockedStorage[Owner])
  BY <1>2, OwnerKnown, TokensUpdate
<1> QED
  BY <1>4, <1>5, TokensInt

LEMMA SpendTokens ==
  ASSUME WellFormed, WellFormed', NEW d \in Int, Spends(d)
  PROVE  Tokens' = Tokens - d /\ lockedStorage'[Owner] - lockedStorage[Owner] = -d
<1>1. /\ balance \in [Account -> Nat] /\ lockedStorage \in [Account -> Nat]
  BY DEF WellFormed, MoneyOK, AccountsTypeOK
<1>2. \A b \in Account \ {Owner} : balance'[b] = balance[b] /\ lockedStorage'[b] = lockedStorage[b]
  BY <1>1 DEF Spends
<1>3. balance'[Owner] = balance[Owner] /\ lockedStorage'[Owner] = lockedStorage[Owner] - d
  BY <1>1, OwnerKnown DEF Spends
<1>4. balance'[Owner] - balance[Owner] = 0 /\ lockedStorage'[Owner] - lockedStorage[Owner] = -d
  BY <1>1, <1>3, OwnerKnown
<1>5. Tokens' = Tokens + (balance'[Owner] - balance[Owner]) + (lockedStorage'[Owner] - lockedStorage[Owner])
  BY <1>2, OwnerKnown, TokensUpdate
<1> QED
  BY <1>4, <1>5, TokensInt

LEMMA SpentInt ==
  ASSUME WellFormed
  PROVE  Spent \in Int
BY DEF WellFormed, MoneyOK, StorageFeePool, Spent

\* What a step leaves as it is of the fees of a deal.
FeesKept(j) ==
  /\ intents'[j] = None <=> ~Exists(j)
  /\ Exists(j) => SameFees(intents[j], intents'[j])

LEMMA FeesKeptOwed ==
  ASSUME NEW j, FeesKept(j)
  PROVE  OwedFor(j)' = OwedFor(j)
BY DEF FeesKept, OwedFor, Exists, SameFees, remainingIntentEscrow

LEMMA FeesKeptOK ==
  ASSUME NEW j, FeesKept(j), funds'[j] = funds[j], FeesOK(j)
  PROVE  FeesOK(j)'
<1>1. CASE ~Exists(j)
  BY <1>1 DEF FeesKept, FeesOK, Exists
<1>2. CASE Exists(j)
  <2> DEFINE x == intents[j]
             y == intents'[j]
  <2>1. y # None /\ SameFees(x, y)
    BY <1>2 DEF FeesKept
  <2>2. remainingIntentEscrow(y) = remainingIntentEscrow(x) /\ (isPermanentIntent(y) <=> isPermanentIntent(x))
    BY <2>1 DEF SameFees, remainingIntentEscrow, isPermanentIntent
  <2>3. /\ x.PaidFee + x.RefundedFee + x.BurnedFee <= x.LockedFee
        /\ funds[j] # None => isPermanentIntent(x) /\ funds[j].Balance = remainingIntentEscrow(x)
    BY <1>2 DEF FeesOK
  <2>4. y.PaidFee + y.RefundedFee + y.BurnedFee <= y.LockedFee
    BY <2>1, <2>3 DEF SameFees
  <2> HIDE DEF x
  <2>5. funds'[j] # None => isPermanentIntent(y) /\ funds'[j].Balance = remainingIntentEscrow(y)
    BY <2>2, <2>3
  <2> QED
    BY <2>1, <2>4, <2>5 DEF FeesOK, Exists
<1> QED
  BY <1>1, <1>2

\* A step that moves no tokens keeps all of it,
LEMMA MoneyQuiet ==
  ASSUME WellFormed, WellFormed', MoneyKept, late => late',
         \A j \in IntentID : FeesKept(j) /\ LastsOK(j)',
         UNCHANGED <<balance, lockedStorage, funds, feePool>>
  PROVE  MoneyKept'
<1>1. Owed' = Owed
  BY FeesKeptOwed, OwedSame
<1>2. Tokens' = Tokens /\ Spent' = Spent /\ lockedStorage'[Owner] = lockedStorage[Owner]
  BY DEF Tokens, Spent
<1>3. ASSUME ~late' PROVE \A j \in IntentID : FeesOK(j)'
  BY <1>3, FeesKeptOK DEF MoneyKept
<1>4. ASSUME ~late' PROVE lockedStorage'[Owner] >= Owed' /\ Tokens' + Spent' = GenesisSupply
  BY <1>1, <1>2, <1>4 DEF MoneyKept
<1> QED
  BY <1>3, <1>4 DEF MoneyKept

\* and so does one about one deal that locks for it what it then owes.
LEMMA MoneyOfOne ==
  ASSUME WellFormed, WellFormed', MoneyKept, late => late', NEW i \in IntentID,
         LastsOK(i)', \A j \in IntentID \ {i} : FeesKept(j) /\ LastsOK(j)' /\ funds'[j] = funds[j],
         ~late' => /\ FeesOK(i)'
                   /\ lockedStorage'[Owner] - lockedStorage[Owner] >= OwedFor(i)' - OwedFor(i)
                   /\ Tokens' + Spent' = Tokens + Spent
  PROVE  MoneyKept'
<1>1. Owed' = Owed + (OwedFor(i)' - OwedFor(i))
  BY FeesKeptOwed, OwedUpdate
<1>2. ASSUME ~late' PROVE \A j \in IntentID : FeesOK(j)'
  <2> SUFFICES ASSUME NEW j \in IntentID PROVE FeesOK(j)'
    OBVIOUS
  <2>1. CASE j = i
    BY <1>2, <2>1
  <2>2. CASE j # i
    BY <1>2, <2>2, FeesKeptOK DEF MoneyKept
  <2> QED
    BY <2>1, <2>2
<1>3. ASSUME ~late' PROVE lockedStorage'[Owner] >= Owed'
  <2>1. lockedStorage[Owner] >= Owed /\ Owed \in Int
    BY <1>3, OwedNat DEF MoneyKept
  <2>2. OwedFor(i) \in Int /\ lockedStorage[Owner] \in Int
    BY OwedNat, OwnerKnown DEF WellFormed, MoneyOK, AccountsTypeOK
  <2>3. OwedFor(i)' \in Int /\ lockedStorage'[Owner] \in Int
    BY OwedNext, OwnerKnown DEF WellFormed, MoneyOK, AccountsTypeOK
  <2>4. lockedStorage'[Owner] - lockedStorage[Owner] >= OwedFor(i)' - OwedFor(i)
    BY <1>3
  <2> DEFINE a == lockedStorage[Owner]
             b == lockedStorage'[Owner]
             c == OwedFor(i)
             d == OwedFor(i)'
  <2> HIDE DEF a, b, c, d
  <2>5. Owed' = Owed + (d - c) /\ a >= Owed /\ b - a >= d - c /\ a \in Int /\ b \in Int /\ c \in Int /\ d \in Int
    BY <1>1, <2>1, <2>2, <2>3, <2>4 DEF a, b, c, d
  <2>6. b >= Owed'
    BY <2>1, <2>5
  <2> QED
    BY <2>6 DEF b
<1>4. ASSUME ~late' PROVE Tokens' + Spent' = GenesisSupply
  BY <1>4 DEF MoneyKept
<1> QED
  BY <1>2, <1>3, <1>4 DEF MoneyKept

LEMMA SetOthers ==
  ASSUME WellFormed, MoneyKept, NEW i \in IntentID, NEW y \in Intent(i), intents' = [intents EXCEPT ![i] = y]
  PROVE  \A j \in IntentID \ {i} : FeesKept(j) /\ LastsOK(j)'
<1> SUFFICES ASSUME NEW j \in IntentID \ {i} PROVE FeesKept(j) /\ LastsOK(j)'
  OBVIOUS
<1>1. intents'[j] = intents[j]
  BY IntentSet DEF WellFormed
<1> QED
  BY <1>1 DEF FeesKept, SameFees, Exists, MoneyKept, LastsOK

LEMMA UntouchedMoney ==
  ASSUME WellFormed, WellFormed', MoneyKept, late => late', UNCHANGED intents,
         UNCHANGED <<balance, lockedStorage, funds, feePool>>
  PROVE  MoneyKept'
<1>1. \A j \in IntentID : FeesKept(j) /\ LastsOK(j)'
  BY DEF FeesKept, SameFees, Exists, MoneyKept, LastsOK
<1> QED
  BY <1>1, MoneyQuiet

LEMMA StatusMoney ==
  ASSUME WellFormed, WellFormed', MoneyKept, late => late', NEW i \in IntentID, Exists(i),
         NEW y \in Intent(i), intents' = [intents EXCEPT ![i] = y],
         SameFees(intents[i], y), y.ExpiresAt = intents[i].ExpiresAt,
         UNCHANGED <<balance, lockedStorage, funds, feePool>>
  PROVE  MoneyKept'
<1>1. intents'[i] = y /\ y # None
  BY IntentSet DEF WellFormed
<1>2. FeesKept(i) /\ LastsOK(i)'
  BY <1>1 DEF FeesKept, SameFees, Exists, MoneyKept, LastsOK, isPermanentIntent
<1>3. \A j \in IntentID : FeesKept(j) /\ LastsOK(j)'
  BY <1>2, SetOthers
<1> QED
  BY <1>3, MoneyQuiet

\* Fees as an amount changes them at one deal: what follows for the deal.
LEMMA FeesAtDeal ==
  ASSUME NEW i \in IntentID, NEW y \in Intent(i), intents'[i] = y,
         y.PaidFee + y.RefundedFee + y.BurnedFee <= y.LockedFee,
         funds'[i] # None => isPermanentIntent(y) /\ funds'[i].Balance = remainingIntentEscrow(y)
  PROVE  FeesOK(i)' /\ OwedFor(i)' = remainingIntentEscrow(y)
<1>1. y # None
  BY DealNone
<1> QED
  BY <1>1 DEF FeesOK, Exists, OwedFor

\* What a deal owes, when no more is spent than there is.
LEMMA EscrowIs ==
  ASSUME NEW i \in IntentID, NEW x \in Intent(i),
         x.PaidFee + x.RefundedFee + x.BurnedFee <= x.LockedFee
  PROVE  /\ remainingIntentEscrow(x) = x.LockedFee - (x.PaidFee + x.RefundedFee + x.BurnedFee)
         /\ remainingIntentEscrow(x) \in Nat
         /\ x.LockedFee \in Nat /\ x.PaidFee \in Nat /\ x.RefundedFee \in Nat /\ x.BurnedFee \in Nat
BY DEF Intent, remainingIntentEscrow, Minus

LEMMA CreateIntentMoney ==
  ASSUME WellFormed, WellFormed', MoneyKept, NEW i \in IntentID, CreateIntent(i)
  PROVE  MoneyKept'
<1>1. PICK f \in buildStorageAssignments(i), p \in Policies[i] :
       intents' = [intents EXCEPT ![i] = NewIntent(i, f, p)]
  BY CreateMeans
<1> DEFINE y == NewIntent(i, f, p)
<1>2. /\ ~Exists(i)
      /\ Locks(Fee)
      /\ UNCHANGED <<funds, feePool, late>>
  BY DEF CreateIntent, Locks
<1>3. y.ExpiresAt = 0 /\ y.PaidFee = 0 /\ y.RefundedFee = 0 /\ y.BurnedFee = 0 /\ y.LockedFee = Fee
  BY DEF NewIntent
<1>4. intents' = [intents EXCEPT ![i] = y] /\ y \in Intent(i)
  BY <1>1, NewTyped
<1> HIDE DEF y
<1>5. intents'[i] = y
  BY <1>4, IntentSet DEF WellFormed
<1>7. Fee \in Nat
  BY DealAssumption
<1>8. \A j \in IntentID \ {i} : FeesKept(j) /\ LastsOK(j)' /\ funds'[j] = funds[j]
  BY <1>2, <1>4, SetOthers
<1>9. LastsOK(i)'
  BY <1>3, <1>5 DEF LastsOK
<1>10. remainingIntentEscrow(y) = Fee
  BY <1>3, <1>7 DEF remainingIntentEscrow, Minus
<1>11. ASSUME ~late'
       PROVE  /\ FeesOK(i)'
              /\ lockedStorage'[Owner] - lockedStorage[Owner] >= OwedFor(i)' - OwedFor(i)
              /\ Tokens' + Spent' = Tokens + Spent
  <2>1. funds'[i] = None
    BY <1>2, <1>11 DEF MoneyKept, FeesOK
  <2>2. FeesOK(i)' /\ OwedFor(i)' = Fee
    BY <1>3, <1>4, <1>5, <1>7, <1>10, <2>1, FeesAtDeal
  <2>3. OwedFor(i) = 0
    BY <1>2 DEF OwedFor
  <2>4. Tokens' = Tokens /\ lockedStorage'[Owner] - lockedStorage[Owner] = Fee
    BY <1>2, <1>7, LockTokens
  <2>5. Spent' = Spent
    BY <1>2 DEF Spent
  <2> QED
    BY <2>2, <2>3, <2>4, <2>5, <1>7
<1> QED
  BY <1>2, <1>8, <1>9, <1>11, MoneyOfOne

LEMMA BatchCommitMoney ==
  ASSUME WellFormed, WellFormed', MoneyKept, NEW i \in IntentID, NEW s \in Shards(i), NEW m \in Miner,
         BatchCommit(i, s, m)
  PROVE  MoneyKept'
<1> DEFINE x == intents[i]
           tasks == IF x.Receipts[s] = m THEN {} ELSE pendingRepairTask(i, s, m)
           holder == IF tasks = {} THEN x.Assignments[s] ELSE m
           y == [x EXCEPT !.Receipts[s] = m, !.Status = "partial", !.Assignments[s] = holder]
<1>1. x \in Intent(i) /\ Exists(i)
  BY IntentExists DEF BatchCommit, WellFormed
<1>2. holder \in Miner \cup {None}
  BY <1>1 DEF Intent
<1>3. intents' = [intents EXCEPT ![i] = y] /\ UNCHANGED <<balance, lockedStorage, funds, feePool>>
      /\ (late => late')
  BY DEF BatchCommit, moneyVars
<1> HIDE DEF holder
<1>4. y \in Intent(i) /\ SameFees(x, y) /\ y.ExpiresAt = x.ExpiresAt
  <2> HIDE DEF x
  <2>1. y \in Intent(i)
    BY <1>1, <1>2, ReceiptTyped
  <2> QED
    BY <1>1, <2>1 DEF SameFees, Intent
<1> HIDE DEF y
<1> QED
  BY <1>1, <1>3, <1>4, StatusMoney

LEMMA BatchCommitLateMoney ==
  ASSUME WellFormed, WellFormed', MoneyKept, NEW i \in IntentID, BatchCommitLate(i)
  PROVE  MoneyKept'
<1> DEFINE x == intents[i]
           y == [x EXCEPT !.Status = "expired"]
<1>1. x \in Intent(i) /\ Exists(i)
  BY IntentExists DEF BatchCommitLate, WellFormed
<1>2. intents' = [intents EXCEPT ![i] = y] /\ UNCHANGED <<balance, lockedStorage, funds, feePool, late>>
  BY DEF BatchCommitLate, accountVars
<1>3. y \in Intent(i) /\ SameFees(x, y) /\ y.ExpiresAt = x.ExpiresAt
  BY <1>1 DEF Intent, SameFees
<1> HIDE DEF y
<1> QED
  BY <1>1, <1>2, <1>3, StatusMoney

\* The shares of the fee go to two accounts, which may be one.
LEMMA SharesPaid ==
  ASSUME WellFormed, NEW share \in Nat,
         balance' = [b \in Account |-> balance[b] + (IF b = Retrieval THEN share ELSE 0)
                                                  + (IF b = Foundation THEN share ELSE 0)]
  PROVE  SumFunctionOnSet(balance', Account) = SumFunctionOnSet(balance, Account) + 2 * share
<1> DEFINE f == balance
           g == [b \in Account |-> balance[b] + (IF b = Retrieval THEN share ELSE 0)]
           h == balance'
<1>1. balance \in [Account -> Nat] /\ IsFiniteSet(Account)
  BY AccountAssumption DEF WellFormed, MoneyOK, AccountsTypeOK
<1>2. \A b \in Account : f[b] \in Int /\ g[b] \in Int
  BY <1>1
<1>3. \A b \in Account : h[b] = g[b] + (IF b = Foundation THEN share ELSE 0)
  OBVIOUS
<1>4. \A b \in Account : g[b] \in Int /\ h[b] \in Int
  <2> HIDE DEF g, h
  <2> QED
    BY <1>2, <1>3
<1>5. (\A b \in Account \ {Retrieval} : g[b] = f[b]) /\ g[Retrieval] - f[Retrieval] = share
  BY <1>1, OwnerKnown
<1>6. (\A b \in Account \ {Foundation} : h[b] = g[b]) /\ h[Foundation] - g[Foundation] = share
  <2> HIDE DEF g, h
  <2> QED
    BY <1>2, <1>3, OwnerKnown
<1> HIDE DEF f, g, h
<1>7. SumFunctionOnSet(g, Account) = SumFunctionOnSet(f, Account) + (g[Retrieval] - f[Retrieval])
  <2>1. IsFiniteSet(Account)
    BY <1>1
  <2>2. \A b \in Account : f[b] \in Int /\ g[b] \in Int
    BY <1>2
  <2>3. \A b \in Account \ {Retrieval} : g[b] = f[b]
    BY <1>5
  <2>4. Retrieval \in Account
    BY OwnerKnown
  <2> QED
    BY <2>1, <2>2, <2>3, <2>4, SumUpdate
<1>8. SumFunctionOnSet(h, Account) = SumFunctionOnSet(g, Account) + (h[Foundation] - g[Foundation])
  <2>1. IsFiniteSet(Account)
    BY <1>1
  <2>2. \A b \in Account : g[b] \in Int /\ h[b] \in Int
    BY <1>4
  <2>3. \A b \in Account \ {Foundation} : h[b] = g[b]
    BY <1>6
  <2>4. Foundation \in Account
    BY OwnerKnown
  <2> QED
    BY <2>1, <2>2, <2>3, <2>4, SumUpdate
<1>9. SumFunctionOnSet(f, Account) \in Int
  BY <1>1, <1>2, SumInt
<1>10. SumFunctionOnSet(h, Account) = SumFunctionOnSet(f, Account) + 2 * share
  BY <1>5, <1>6, <1>7, <1>8, <1>9
<1> QED
  BY <1>10 DEF f, h

LEMMA MadeKeeps ==
  ASSUME WellFormed, NEW i \in IntentID, NEW x \in Intent(i)
  PROVE  SameFees(x, Made(x)) /\ (isPermanentIntent(x) => Made(x).ExpiresAt = x.ExpiresAt)
<1> DEFINE k == IF isPermanentIntent(x) THEN x.ExpiresAt ELSE now + x.Policy.Duration
           j == IF x.StartAt = None THEN now ELSE x.StartAt
           z == [x EXCEPT !.Status = "finalized", !.StorageStatus = "active", !.ModerationStatus = "none",
                          !.ExpiresAt = k, !.StartAt = j]
<1>1. Made(x) = z /\ (isPermanentIntent(x) => k = x.ExpiresAt)
  BY DEF Made
<1> HIDE DEF k, j
<1>2. SameFees(x, z) /\ z.ExpiresAt = k
  BY DEF Intent, SameFees
<1> HIDE DEF z
<1> QED
  BY <1>1, <1>2

LEMMA SplitKeeps ==
  ASSUME NEW i \in IntentID, NEW x \in Intent(i)
  PROVE  LET y == SplitOf(x)
         IN  /\ y.Policy = x.Policy /\ y.PaidFee = x.PaidFee /\ y.RefundedFee = x.RefundedFee
             /\ y.LockedFee = x.LockedFee - 3 * Share(x.LockedFee) /\ y.BurnedFee = Share(x.LockedFee)
             /\ y.ExpiresAt = x.ExpiresAt
<1> DEFINE n == x.LockedFee - 3 * Share(x.LockedFee)
           k == Share(x.LockedFee)
           y == [x EXCEPT !.LockedFee = n, !.BurnedFee = k, !.BurnDeferred = FALSE]
<1>1. SplitOf(x) = y
  BY DEF SplitOf
<1> HIDE DEF n, k
<1>2. /\ y.Policy = x.Policy /\ y.PaidFee = x.PaidFee /\ y.RefundedFee = x.RefundedFee
      /\ y.LockedFee = n /\ y.BurnedFee = k /\ y.ExpiresAt = x.ExpiresAt
  BY DEF Intent
<1> HIDE DEF y
<1> QED
  BY <1>1, <1>2 DEF n, k

LEMMA FinalizeMoney ==
  ASSUME WellFormed, WellFormed', MoneyKept, NEW i \in IntentID, Finalize(i)
  PROVE  MoneyKept'
<1> DEFINE x == intents[i]
           z == Made(x)
           y == SplitOf(z)
           share == Share(z.LockedFee)
<1>1. x \in Intent(i) /\ Exists(i) /\ LastsOK(i)
  BY IntentExists DEF Finalize, WellFormed, MoneyKept
<1>2. z \in Intent(i) /\ SameFees(x, z) /\ (isPermanentIntent(x) => z.ExpiresAt = x.ExpiresAt)
  BY <1>1, MadeTyped, MadeKeeps
<1>3. executeDeferredBurn(i, z) /\ late' = (late \/ Ended(x) \/ SpentEarly(i, x))
  BY DEF Finalize, Made
<1>4. isPermanentIntent(z) <=> isPermanentIntent(x)
  BY <1>2 DEF SameFees, isPermanentIntent
<1>5. CASE ~z.BurnDeferred
  <2>1. intents' = [intents EXCEPT ![i] = z] /\ UNCHANGED <<lockedStorage, balance, feePool, funds>>
    BY <1>3, <1>5 DEF executeDeferredBurn
  <2> HIDE DEF z, share, y
  <2>2. intents'[i] = z /\ z # None
    BY <1>2, <2>1, IntentSet DEF WellFormed
  <2>3. FeesKept(i)
    BY <1>1, <1>2, <2>2 DEF FeesKept
  <2>4. LastsOK(i)'
    BY <1>1, <1>2, <1>4, <2>2 DEF LastsOK
  <2>5. \A j \in IntentID : FeesKept(j) /\ LastsOK(j)'
    BY <1>2, <2>1, <2>3, <2>4, SetOthers
  <2>6. late => late'
    BY <1>3
  <2> QED
    BY <2>1, <2>5, <2>6, MoneyQuiet
<1>6. CASE z.BurnDeferred
  <2>1. /\ lockedStorage' = [lockedStorage EXCEPT ![Owner] = Minus(@, 3 * share)]
        /\ balance' = [b \in Account |-> balance[b] + (IF b = Retrieval THEN share ELSE 0)
                                                    + (IF b = Foundation THEN share ELSE 0)]
        /\ feePool' = [feePool EXCEPT !.Locked = @ + y.LockedFee, !.Burned = @ + share]
        /\ funds' = IF isPermanentIntent(z)
                    THEN [funds EXCEPT ![i] = ensurePermanentFund(i, y)] ELSE funds
        /\ intents' = [intents EXCEPT ![i] = y]
    BY <1>6, <1>3 DEF executeDeferredBurn, SplitOf
  <2>2. /\ y \in Intent(i) /\ y.Policy = z.Policy /\ y.PaidFee = z.PaidFee /\ y.RefundedFee = z.RefundedFee
        /\ y.LockedFee = z.LockedFee - 3 * share /\ y.BurnedFee = share /\ y.ExpiresAt = z.ExpiresAt
    BY <1>2, SplitTyped, SplitKeeps
  <2>3. share \in Nat /\ 4 * share <= z.LockedFee
    BY <1>2, ShareSmall DEF Intent
  <2>4. share = Share(x.LockedFee)
    BY <1>2 DEF SameFees
  <2> HIDE DEF z, y, share
  <2>5. intents'[i] = y /\ y # None
    BY <2>1, <2>2, IntentSet DEF WellFormed
  <2>6. isPermanentIntent(y) <=> isPermanentIntent(z)
    BY <2>2 DEF isPermanentIntent
  <2>7. LastsOK(i)'
    BY <1>1, <1>2, <1>4, <2>2, <2>5, <2>6 DEF LastsOK
  <2>8. \A j \in IntentID \ {i} : FeesKept(j) /\ LastsOK(j)'
    BY <2>1, <2>2, SetOthers
  <2>9. \A j \in IntentID \ {i} : funds'[j] = funds[j]
    BY <2>1 DEF WellFormed, MoneyOK
  <2>10. ASSUME ~late'
         PROVE  /\ FeesOK(i)'
                /\ lockedStorage'[Owner] - lockedStorage[Owner] >= OwedFor(i)' - OwedFor(i)
                /\ Tokens' + Spent' = Tokens + Spent
    <3>1. ~late /\ ~Ended(x) /\ ~SpentEarly(i, x)
      BY <1>3, <2>10
    <3>2. x.BurnDeferred
      BY <1>2, <1>6 DEF SameFees
    <3>3. x.RefundedFee = 0 /\ x.BurnedFee = 0
      <4>1. x.RefundedFee \in Nat /\ x.BurnedFee \in Nat
        BY <1>1 DEF Intent
      <4>2. ~(x.RefundedFee + x.BurnedFee > 0)
        BY <3>1, <3>2 DEF Ended
      <4> QED
        BY <4>1, <4>2
    <3>4. remainingIntentEscrow(x) >= 4 * share /\ funds[i] = None
      <4>1. ~(remainingIntentEscrow(x) < 4 * share) /\ funds[i] = None
        BY <2>4, <3>1, <3>2 DEF SpentEarly
      <4> QED
        BY <4>1, <1>1, <2>3, EscrowNat
    <3>5. x.PaidFee + x.RefundedFee + x.BurnedFee <= x.LockedFee
      BY <1>1, <3>1 DEF MoneyKept, FeesOK
    <3>6. /\ remainingIntentEscrow(x) = x.LockedFee - (x.PaidFee + x.RefundedFee + x.BurnedFee)
          /\ x.LockedFee \in Nat /\ x.PaidFee \in Nat
      BY <1>1, <3>5, EscrowIs
    <3>7. /\ y.PaidFee = x.PaidFee /\ y.RefundedFee = 0 /\ y.LockedFee = x.LockedFee - 3 * share
      BY <1>2, <2>2, <3>3 DEF SameFees
    <3>8. y.PaidFee + y.RefundedFee + y.BurnedFee <= y.LockedFee
      BY <2>2, <2>3, <3>3, <3>4, <3>6, <3>7
    <3>9. remainingIntentEscrow(y) = remainingIntentEscrow(x) - 4 * share
      <4>1. remainingIntentEscrow(y) = y.LockedFee - (y.PaidFee + y.RefundedFee + y.BurnedFee)
        BY <2>2, <3>8, EscrowIs
      <4> QED
        BY <2>2, <2>3, <3>3, <3>6, <3>7, <4>1
    <3>10. funds'[i] # None => isPermanentIntent(y) /\ funds'[i].Balance = remainingIntentEscrow(y)
      <4>1. CASE isPermanentIntent(z)
        <5>1. funds'[i] = ensurePermanentFund(i, y)
          BY <2>1, <4>1 DEF WellFormed, MoneyOK
        <5>2. ensurePermanentFund(i, y).Balance = remainingIntentEscrow(y)
          BY <3>4 DEF ensurePermanentFund
        <5> QED
          BY <2>6, <4>1, <5>1, <5>2
      <4>2. CASE ~isPermanentIntent(z)
        BY <2>1, <3>4, <4>2
      <4> QED
        BY <4>1, <4>2
    <3>11. FeesOK(i)' /\ OwedFor(i)' = remainingIntentEscrow(y)
      BY <2>2, <2>5, <3>8, <3>10, FeesAtDeal
    <3>12. OwedFor(i) = remainingIntentEscrow(x) /\ OwedFor(i) \in Nat
      BY <1>1, OwedNat DEF OwedFor
    <3>13. lockedStorage[Owner] \in Nat /\ lockedStorage[Owner] >= 3 * share
      <4>1. lockedStorage[Owner] >= Owed
        BY <3>1 DEF MoneyKept
      <4>2. Owed \in Nat /\ OwedFor(i) <= Owed
        BY OwedNat
      <4>3. lockedStorage[Owner] \in Nat
        BY OwnerKnown DEF WellFormed, MoneyOK, AccountsTypeOK
      <4> QED
        BY <2>3, <3>4, <3>12, <4>1, <4>2, <4>3
    <3>14. Minus(lockedStorage[Owner], 3 * share) = lockedStorage[Owner] - 3 * share
      BY <2>3, <3>13 DEF Minus
    <3>15. lockedStorage'[Owner] = lockedStorage[Owner] - 3 * share
           /\ \A b \in Account \ {Owner} : lockedStorage'[b] = lockedStorage[b]
      BY <2>1, <3>14, OwnerKnown DEF WellFormed, MoneyOK, AccountsTypeOK
    <3>16. SumFunctionOnSet(lockedStorage', Account) = SumFunctionOnSet(lockedStorage, Account) - 3 * share
      <4> DEFINE f == lockedStorage
                 g == lockedStorage'
      <4>1. \A b \in Account : f[b] \in Int /\ g[b] \in Int
        BY DEF WellFormed, MoneyOK, AccountsTypeOK
      <4>2. (\A b \in Account \ {Owner} : g[b] = f[b]) /\ g[Owner] - f[Owner] = -(3 * share)
        BY <3>13, <3>15, <2>3
      <4>3. IsFiniteSet(Account)
        BY AccountAssumption
      <4> HIDE DEF f, g
      <4>4. SumFunctionOnSet(g, Account) = SumFunctionOnSet(f, Account) + (g[Owner] - f[Owner])
        BY <4>1, <4>2, <4>3, OwnerKnown, SumUpdate
      <4>5. SumFunctionOnSet(f, Account) \in Int
        BY <4>1, <4>3, SumInt
      <4>6. SumFunctionOnSet(g, Account) = SumFunctionOnSet(f, Account) - 3 * share
        BY <4>2, <4>4, <4>5, <2>3
      <4> QED
        BY <4>6 DEF f, g
    <3>17. SumFunctionOnSet(balance', Account) = SumFunctionOnSet(balance, Account) + 2 * share
      BY <2>1, <2>3, SharesPaid
    <3>18. SumFunctionOnSet(balance, Account) \in Int /\ SumFunctionOnSet(lockedStorage, Account) \in Int
      <4>1. /\ \A b \in Account : balance[b] \in Int
            /\ \A b \in Account : lockedStorage[b] \in Int
        BY DEF WellFormed, MoneyOK, AccountsTypeOK
      <4> QED
        BY <4>1, SumInt, AccountAssumption
    <3>19. Tokens' = Tokens - share
      BY <2>3, <3>16, <3>17, <3>18 DEF Tokens
    <3>20. Spent' = Spent + share
      <4>1. feePool'.Burned = feePool.Burned + share /\ feePool'.Paid = feePool.Paid
        BY <2>1 DEF WellFormed, MoneyOK, StorageFeePool
      <4>2. feePool.Burned \in Int /\ feePool.Paid \in Int
        BY DEF WellFormed, MoneyOK, StorageFeePool
      <4> QED
        BY <2>3, <4>1, <4>2 DEF Spent
    <3>21. Tokens' + Spent' = Tokens + Spent
      BY <2>3, <3>19, <3>20, TokensInt, SpentInt
    <3>22. lockedStorage'[Owner] - lockedStorage[Owner] >= OwedFor(i)' - OwedFor(i)
      BY <2>3, <3>9, <3>11, <3>12, <3>13, <3>15
    <3> QED
      BY <3>11, <3>21, <3>22
  <2>11. late => late'
    BY <1>3
  <2>12. \A j \in IntentID \ {i} : FeesKept(j) /\ LastsOK(j)' /\ funds'[j] = funds[j]
    BY <2>8, <2>9
  <2> QED
    BY <2>7, <2>10, <2>11, <2>12, MoneyOfOne
<1> QED
  BY <1>5, <1>6

\* What there is left of the fee of a deal.
FeeLeft(x) == x.LockedFee - (x.PaidFee + x.RefundedFee + x.BurnedFee)

LEMMA FeeLeftInt ==
  ASSUME NEW i \in IntentID, NEW x \in Intent(i)
  PROVE  FeeLeft(x) \in Int
BY DEF Intent, FeeLeft

LEMMA FeeLeftSame ==
  ASSUME NEW x, NEW y, SameFees(x, y)
  PROVE  FeeLeft(y) = FeeLeft(x) /\ (isPermanentIntent(y) <=> isPermanentIntent(x))
BY DEF SameFees, FeeLeft, isPermanentIntent

LEMMA DealFees ==
  ASSUME WellFormed, MoneyKept, ~late, NEW i \in IntentID, Exists(i)
  PROVE  LET x == intents[i]
         IN  /\ FeeLeft(x) \in Nat /\ remainingIntentEscrow(x) = FeeLeft(x) /\ OwedFor(i) = FeeLeft(x)
             /\ FeeLeft(x) <= lockedStorage[Owner]
             /\ funds[i] # None => isPermanentIntent(x) /\ funds[i].Balance = FeeLeft(x)
<1> DEFINE x == intents[i]
<1>1. x \in Intent(i)
  BY IntentExists DEF WellFormed
<1>2. /\ x.PaidFee + x.RefundedFee + x.BurnedFee <= x.LockedFee
      /\ funds[i] # None => isPermanentIntent(x) /\ funds[i].Balance = remainingIntentEscrow(x)
  BY DEF MoneyKept, FeesOK
<1>3. remainingIntentEscrow(x) = FeeLeft(x) /\ FeeLeft(x) \in Nat
  BY <1>1, <1>2, EscrowIs DEF FeeLeft
<1>4. OwedFor(i) = FeeLeft(x)
  BY <1>3 DEF OwedFor
<1>5. FeeLeft(x) <= lockedStorage[Owner]
  <2>1. lockedStorage[Owner] >= Owed /\ Owed \in Nat /\ OwedFor(i) <= Owed
    BY OwedNat DEF MoneyKept
  <2>2. lockedStorage[Owner] \in Nat
    BY OwnerKnown DEF WellFormed, MoneyOK, AccountsTypeOK
  <2> HIDE DEF x
  <2> QED
    BY <1>3, <1>4, <2>1, <2>2
<1> QED
  BY <1>2, <1>3, <1>4, <1>5

\* What a step locks or unlocks is what it adds to the fee of a deal or takes from it.
LEMMA DealMoney ==
  ASSUME WellFormed, WellFormed', MoneyKept, late => late', NEW i \in IntentID, Exists(i),
         NEW y \in Intent(i), intents'[i] = y, LastsOK(i)',
         \A j \in IntentID \ {i} : FeesKept(j) /\ LastsOK(j)' /\ funds'[j] = funds[j],
         ~late' => /\ Tokens' + Spent' = Tokens + Spent
                   /\ lockedStorage'[Owner] - lockedStorage[Owner] = FeeLeft(y) - FeeLeft(intents[i])
                   /\ FeeLeft(y) >= 0
                   /\ funds'[i] # None => isPermanentIntent(y) /\ funds'[i].Balance = FeeLeft(y)
  PROVE  MoneyKept'
<1>1. ASSUME ~late'
      PROVE  /\ FeesOK(i)'
             /\ lockedStorage'[Owner] - lockedStorage[Owner] >= OwedFor(i)' - OwedFor(i)
             /\ Tokens' + Spent' = Tokens + Spent
  <2>1. OwedFor(i) = FeeLeft(intents[i])
    BY <1>1, DealFees
  <2>2. y.PaidFee + y.RefundedFee + y.BurnedFee <= y.LockedFee
    BY <1>1 DEF FeeLeft, Intent
  <2>3. remainingIntentEscrow(y) = FeeLeft(y)
    BY <2>2, EscrowIs DEF FeeLeft
  <2>4. FeesOK(i)' /\ OwedFor(i)' = FeeLeft(y)
    BY <1>1, <2>2, <2>3, FeesAtDeal
  <2>5. OwedFor(i) \in Int /\ OwedFor(i)' \in Int
    BY OwedNat, OwedNext
  <2>6. lockedStorage'[Owner] - lockedStorage[Owner] = OwedFor(i)' - OwedFor(i)
    BY <1>1, <2>1, <2>4
  <2> QED
    BY <1>1, <2>4, <2>5, <2>6
<1> QED
  BY <1>1, MoneyOfOne

LEMMA SettleMoney ==
  ASSUME WellFormed, WellFormed', MoneyKept, NEW i \in IntentID, Exists(i), settleIntent(i)
  PROVE  MoneyKept'
<1> DEFINE x == Settled(intents[i])
           e == remainingIntentEscrow(x)
           refund == Least({e, lockedStorage[Owner]})
<1>1. intents[i] \in Intent(i) /\ LastsOK(i)
  BY IntentExists DEF WellFormed, MoneyKept
<1>2. x \in Intent(i) /\ SameFees(intents[i], x) /\ x.ExpiresAt = intents[i].ExpiresAt
  BY <1>1, SettledTyped DEF settleIntent
<1>3. lockedStorage[Owner] \in Nat
  BY OwnerKnown DEF WellFormed, MoneyOK, AccountsTypeOK
<1>4. refund \in Nat /\ refund <= e /\ e \in Nat
  <2>1. e \in Nat
    BY <1>2, EscrowNat
  <2> HIDE DEF e
  <2> QED
    BY <1>3, <2>1, LeastOfTwo
<1>5. UNCHANGED funds
  BY DEF settleIntent
<1>6. CASE x.Status = "finalized"
  <2>1. intents' = [intents EXCEPT ![i] = x] /\ UNCHANGED <<balance, lockedStorage, feePool, late>>
    BY <1>6 DEF settleIntent
  <2> HIDE DEF x
  <2> QED
    BY <1>2, <1>5, <2>1, StatusMoney
<1>7. CASE x.Status # "finalized"
  <2> DEFINE n == x.RefundedFee + refund
             y == [x EXCEPT !.RefundedFee = n]
  <2>1. /\ intents' = [intents EXCEPT ![i] = y]
        /\ Unlocks(refund)
        /\ recordStorageFeeRefund(refund)
        /\ late' = (late \/ (refund > 0 /\ funds[i] # None))
    BY <1>7 DEF settleIntent, Unlocks
  <2> HIDE DEF x, refund
  <2>2. n \in Nat /\ n = x.RefundedFee + refund
    BY <1>2, <1>4 DEF Intent
  <2> HIDE DEF n
  <2>3. /\ y \in Intent(i) /\ y.Policy = x.Policy /\ y.LockedFee = x.LockedFee /\ y.PaidFee = x.PaidFee
        /\ y.RefundedFee = n /\ y.BurnedFee = x.BurnedFee /\ y.ExpiresAt = x.ExpiresAt
    BY <1>2, <2>2 DEF Intent
  <2> HIDE DEF y
  <2>4. FeeLeft(y) = FeeLeft(x) - refund
    BY <1>2, <1>4, <2>2, <2>3 DEF FeeLeft, Intent
  <2>5. FeeLeft(x) = FeeLeft(intents[i]) /\ (isPermanentIntent(x) <=> isPermanentIntent(intents[i]))
    BY <1>2, FeeLeftSame
  <2>6. isPermanentIntent(y) <=> isPermanentIntent(x)
    BY <2>3 DEF isPermanentIntent
  <2>7. e = remainingIntentEscrow(intents[i])
    BY <1>2 DEF SameFees, remainingIntentEscrow
  <2>8. intents'[i] = y
    BY <2>1, <2>3, IntentSet DEF WellFormed
  <2>9. LastsOK(i)'
    BY <1>1, <1>2, <2>3, <2>5, <2>6, <2>8 DEF LastsOK
  <2>10. \A j \in IntentID \ {i} : FeesKept(j) /\ LastsOK(j)' /\ funds'[j] = funds[j]
    BY <1>5, <2>1, <2>3, SetOthers
  <2>11. Tokens' = Tokens /\ lockedStorage'[Owner] - lockedStorage[Owner] = -refund
    BY <1>4, <2>1, UnlockTokens
  <2>12. Spent' = Spent
    BY <2>1 DEF Spent, recordStorageFeeRefund, WellFormed, MoneyOK, StorageFeePool
  <2>13. ASSUME ~late'
         PROVE  /\ Tokens' + Spent' = Tokens + Spent
                /\ lockedStorage'[Owner] - lockedStorage[Owner] = FeeLeft(y) - FeeLeft(intents[i])
                /\ FeeLeft(y) >= 0
                /\ funds'[i] # None => isPermanentIntent(y) /\ funds'[i].Balance = FeeLeft(y)
    <3>1. ~late /\ (funds[i] # None => refund = 0)
      <4>1. ~late /\ ~(refund > 0 /\ funds[i] # None)
        BY <2>1, <2>13
      <4> QED
        BY <1>4, <4>1
    <3>2. /\ FeeLeft(intents[i]) \in Nat /\ remainingIntentEscrow(intents[i]) = FeeLeft(intents[i])
          /\ funds[i] # None => isPermanentIntent(intents[i]) /\ funds[i].Balance = FeeLeft(intents[i])
      BY <3>1, DealFees
    <3>3. FeeLeft(y) = FeeLeft(intents[i]) - refund
      BY <2>4, <2>5
    <3>4. FeeLeft(y) >= 0 /\ -refund = FeeLeft(y) - FeeLeft(intents[i])
      BY <1>4, <2>7, <3>2, <3>3
    <3>5. funds[i] # None => FeeLeft(y) = FeeLeft(intents[i])
      BY <3>1, <3>2, <3>3
    <3> QED
      BY <1>5, <2>5, <2>6, <2>11, <2>12, <3>2, <3>4, <3>5
  <2> QED
    BY <2>1, <2>3, <2>8, <2>9, <2>10, <2>13, DealMoney
<1> QED
  BY <1>6, <1>7

LEMMA RenewDealMoney ==
  ASSUME WellFormed, WellFormed', MoneyKept, NEW i \in IntentID, RenewDeal(i)
  PROVE  MoneyKept'
<1> DEFINE e == expireGovernanceAction(intents[i])
           x == Renewed(e)
           n == x.LockedFee + RenewPrice
           k == now + x.Policy.Duration
           y == [x EXCEPT !.LockedFee = n, !.ExpiresAt = k]
<1>1. intents[i] \in Intent(i) /\ Exists(i) /\ LastsOK(i)
  BY IntentExists DEF WellFormed, MoneyKept, RenewDeal
<1>2. e \in Intent(i) /\ SameFees(intents[i], e) /\ e.ExpiresAt = intents[i].ExpiresAt
  BY <1>1, ExpireKeeps DEF SameFees
<1>3. /\ x # None
      /\ Locks(RenewPrice)
      /\ addDealEscrowFunds(RenewPrice)
      /\ intents' = [intents EXCEPT ![i] = y]
      /\ UNCHANGED <<funds, late>>
  BY DEF RenewDeal, Locks
<1> HIDE DEF e
<1>4. x \in Intent(i) /\ SameFees(e, x) /\ e.ExpiresAt # 0
  BY <1>2, <1>3, RenewedTyped
<1>5. RenewPrice \in Nat
  BY DealAssumption
<1> HIDE DEF x
<1>6. n \in Nat /\ k \in Nat
  BY <1>4, <1>5, DurationNat DEF Intent
<1>7. n = x.LockedFee + RenewPrice
  OBVIOUS
<1> HIDE DEF n, k
<1>8. /\ y \in Intent(i) /\ y.Policy = x.Policy /\ y.LockedFee = n /\ y.PaidFee = x.PaidFee
      /\ y.RefundedFee = x.RefundedFee /\ y.BurnedFee = x.BurnedFee
  BY <1>4, <1>6 DEF Intent
<1> HIDE DEF y
<1>9. FeeLeft(y) = FeeLeft(x) + RenewPrice
  BY <1>4, <1>5, <1>7, <1>8 DEF FeeLeft, Intent
<1>10. /\ FeeLeft(e) = FeeLeft(intents[i]) /\ FeeLeft(x) = FeeLeft(e)
       /\ isPermanentIntent(x) <=> isPermanentIntent(intents[i])
  BY <1>2, <1>4, FeeLeftSame
<1>11. ~isPermanentIntent(intents[i]) /\ ~isPermanentIntent(y)
  <2>1. ~isPermanentIntent(intents[i])
    BY <1>1, <1>2, <1>4 DEF LastsOK
  <2> QED
    BY <2>1, <1>8, <1>10 DEF isPermanentIntent
<1>12. intents'[i] = y
  BY <1>3, <1>8, IntentSet DEF WellFormed
<1>13. LastsOK(i)'
  BY <1>11, <1>12 DEF LastsOK
<1>14. \A j \in IntentID \ {i} : FeesKept(j) /\ LastsOK(j)' /\ funds'[j] = funds[j]
  BY <1>3, <1>8, SetOthers
<1>15. Tokens' = Tokens /\ lockedStorage'[Owner] - lockedStorage[Owner] = RenewPrice
  BY <1>3, <1>5, LockTokens
<1>16. Spent' = Spent
  BY <1>3 DEF Spent, addDealEscrowFunds, WellFormed, MoneyOK, StorageFeePool
<1>17. ASSUME ~late'
       PROVE  /\ Tokens' + Spent' = Tokens + Spent
              /\ lockedStorage'[Owner] - lockedStorage[Owner] = FeeLeft(y) - FeeLeft(intents[i])
              /\ FeeLeft(y) >= 0
              /\ funds'[i] # None => isPermanentIntent(y) /\ funds'[i].Balance = FeeLeft(y)
  <2>1. ~late
    BY <1>3, <1>17
  <2>2. FeeLeft(intents[i]) \in Nat /\ funds[i] = None
    BY <1>1, <1>11, <2>1, DealFees
  <2>3. FeeLeft(y) >= 0 /\ RenewPrice = FeeLeft(y) - FeeLeft(intents[i])
    BY <1>5, <1>9, <1>10, <2>2
  <2> QED
    BY <1>3, <1>15, <1>16, <2>2, <2>3
<1> QED
  BY <1>1, <1>3, <1>8, <1>12, <1>13, <1>14, <1>17, DealMoney

LEMMA RenewRefusedMoney ==
  ASSUME WellFormed, WellFormed', MoneyKept, NEW i \in IntentID, RenewRefused(i)
  PROVE  MoneyKept'
<1> DEFINE e == expireGovernanceAction(intents[i])
           x == Renewed(e)
<1>1. Exists(i) /\ intents[i] \in Intent(i) /\ x # None
  BY IntentExists DEF WellFormed, RenewRefused
<1>2. e \in Intent(i) /\ SameFees(intents[i], e) /\ e.ExpiresAt = intents[i].ExpiresAt
  BY <1>1, ExpireKeeps DEF SameFees
<1>3. /\ intents' = [intents EXCEPT ![i] = x]
      /\ UNCHANGED <<balance, lockedStorage, funds, feePool, late>>
  BY DEF RenewRefused, accountVars
<1> HIDE DEF e
<1>4. x \in Intent(i) /\ SameFees(e, x) /\ x.ExpiresAt = e.ExpiresAt
  BY <1>1, <1>2, RenewedTyped
<1>5. SameFees(intents[i], x)
  BY <1>2, <1>4 DEF SameFees
<1> HIDE DEF x
<1> QED
  BY <1>1, <1>2, <1>3, <1>4, <1>5, StatusMoney

LEMMA SetAccessMoney ==
  ASSUME WellFormed, WellFormed', MoneyKept, NEW i \in IntentID, NEW status \in AccessStatus,
         SetAccessPolicy(i, status)
  PROVE  MoneyKept'
<1> DEFINE e == expireGovernanceAction(intents[i])
           y == [e EXCEPT !.AccessStatus = status]
<1>1. Exists(i) /\ intents[i] \in Intent(i)
  BY IntentExists DEF WellFormed, SetAccessPolicy
<1>2. e \in Intent(i) /\ SameFees(intents[i], e) /\ e.ExpiresAt = intents[i].ExpiresAt
  BY <1>1, ExpireKeeps DEF SameFees
<1>3. /\ intents' = [intents EXCEPT ![i] = y]
      /\ UNCHANGED <<balance, lockedStorage, funds, feePool, late>>
  BY DEF SetAccessPolicy, moneyVars
<1> HIDE DEF e
<1>4. y \in Intent(i) /\ SameFees(e, y) /\ y.ExpiresAt = e.ExpiresAt
  BY <1>2 DEF Intent, SameFees, AccessStatus
<1> HIDE DEF y
<1>5. SameFees(intents[i], y)
  BY <1>2, <1>4 DEF SameFees
<1> QED
  BY <1>1, <1>2, <1>3, <1>4, <1>5, StatusMoney

\* Each deal renewed adds the price to what its owner owes and has locked.
LEMMA AutoRenewMoney ==
  ASSUME WellFormed, WellFormed', MoneyKept, autoRenewDeals
  PROVE  MoneyKept'
<1> DEFINE due == {i \in IntentID : Exists(i) /\ autoRenewDue(intents[i])}
           count == Least({Cardinality(due), balance[Owner] \div RenewPrice})
           cost == RenewPrice * count
<1>1. PICK S \in SUBSET due :
        /\ Cardinality(S) = count
        /\ Locks(cost)
        /\ addDealEscrowFunds(cost)
        /\ intents' = AutoRenewed(S)
        /\ UNCHANGED <<funds, late>>
  BY DEF autoRenewDeals, AutoRenewed, Locks
<1>2. RenewPrice \in Nat /\ IsFiniteSet(IntentID) /\ S \subseteq IntentID
  BY DealAssumption, FileAssumption
<1>3. IsFiniteSet(S) /\ IsFiniteSet(IntentID \ S) /\ Cardinality(S) \in Nat
  BY <1>2, FS_Subset, FS_CardinalityType
<1>4. cost = RenewPrice * Cardinality(S)
  BY <1>1
<1>5. ASSUME NEW i \in S
      PROVE  Exists(i) /\ intents[i].ExpiresAt # 0
  BY DEF autoRenewDue
<1> HIDE DEF due, count, cost
<1>6. cost \in Int
  BY <1>2, <1>3, <1>4
<1>7. ASSUME NEW i \in S
      PROVE  /\ intents'[i] \in Intent(i) /\ intents'[i] # None
             /\ ~isPermanentIntent(intents[i]) /\ ~isPermanentIntent(intents'[i])
             /\ FeeLeft(intents'[i]) = FeeLeft(intents[i]) + RenewPrice
  <2> DEFINE x == intents[i]
             n == x.LockedFee + RenewPrice
             k == now + x.Policy.Duration
             y == [x EXCEPT !.LockedFee = n, !.ExpiresAt = k]
  <2>1. intents'[i] = y
    BY <1>1, <1>2 DEF AutoRenewed
  <2>2. x \in Intent(i) /\ i \in IntentID
    BY <1>2, <1>5, IntentExists DEF WellFormed
  <2>3. k \in Nat
    <3> HIDE DEF x
    <3> QED
      BY <2>2, DurationNat
  <2>4. n \in Nat /\ n = x.LockedFee + RenewPrice
    BY <1>2, <2>2 DEF Intent
  <2>5. ~isPermanentIntent(x)
    BY <1>2, <1>5, <2>2 DEF MoneyKept, LastsOK
  <2> HIDE DEF x, n, k
  <2>6. /\ y \in Intent(i) /\ y.Policy = x.Policy /\ y.LockedFee = n /\ y.PaidFee = x.PaidFee
        /\ y.RefundedFee = x.RefundedFee /\ y.BurnedFee = x.BurnedFee
    BY <2>2, <2>3, <2>4 DEF Intent
  <2> HIDE DEF y
  <2>7. FeeLeft(y) = FeeLeft(x) + RenewPrice
    BY <1>2, <2>2, <2>4, <2>6 DEF FeeLeft, Intent
  <2>8. y # None
    BY <2>2, <2>6, DealNone
  <2>9. ~isPermanentIntent(y)
    BY <2>5, <2>6 DEF isPermanentIntent
  <2> QED
    BY <2>1, <2>5, <2>6, <2>7, <2>8, <2>9 DEF x
<1>8. ASSUME NEW i \in IntentID \ S
      PROVE  FeesKept(i) /\ LastsOK(i)'
  <2>1. intents'[i] = intents[i]
    BY <1>1 DEF AutoRenewed
  <2> QED
    BY <2>1 DEF FeesKept, SameFees, Exists, MoneyKept, LastsOK
<1>9. \A i \in IntentID : LastsOK(i)'
  BY <1>7, <1>8 DEF LastsOK
<1>10. Tokens' = Tokens /\ lockedStorage'[Owner] - lockedStorage[Owner] = cost
  BY <1>1, <1>6, LockTokens
<1>11. Spent' = Spent
  BY <1>1 DEF Spent, addDealEscrowFunds, WellFormed, MoneyOK, StorageFeePool
<1>12. ASSUME ~late', NEW i \in IntentID
       PROVE  FeesOK(i)' /\ OwedFor(i)' = OwedFor(i) + (IF i \in S THEN RenewPrice ELSE 0)
  <2>1. ~late
    BY <1>1, <1>12
  <2>2. CASE i \in S
    <3> DEFINE y == intents'[i]
    <3>1. FeeLeft(intents[i]) \in Nat /\ OwedFor(i) = FeeLeft(intents[i]) /\ funds[i] = None
      BY <1>5, <1>7, <2>1, <2>2, DealFees
    <3>2. y \in Intent(i) /\ FeeLeft(y) = FeeLeft(intents[i]) + RenewPrice
      BY <1>7, <2>2
    <3>3. FeeLeft(y) >= 0
      BY <1>2, <3>1, <3>2
    <3>4. funds'[i] = None
      BY <1>1, <3>1
    <3> DEFINE z == y
    <3>5. z \in Intent(i) /\ intents'[i] = z /\ FeeLeft(z) >= 0
      BY <3>2, <3>3
    <3> HIDE DEF z
    <3>6. z.PaidFee + z.RefundedFee + z.BurnedFee <= z.LockedFee
      BY <3>5 DEF FeeLeft, Intent
    <3>7. remainingIntentEscrow(z) = FeeLeft(z)
      BY <3>5, <3>6, EscrowIs DEF FeeLeft
    <3>8. FeesOK(i)' /\ OwedFor(i)' = FeeLeft(z)
      BY <3>4, <3>5, <3>6, <3>7, FeesAtDeal
    <3> QED
      BY <2>2, <3>1, <3>2, <3>8 DEF z
  <2>3. CASE i \notin S
    <3>1. FeesKept(i) /\ FeesOK(i) /\ funds'[i] = funds[i]
      BY <1>1, <1>8, <2>1, <2>3 DEF MoneyKept
    <3>2. FeesOK(i)' /\ OwedFor(i)' = OwedFor(i) /\ OwedFor(i) \in Nat
      BY <3>1, FeesKeptOK, FeesKeptOwed, OwedNat
    <3> QED
      BY <2>3, <3>2
  <2> QED
    BY <2>2, <2>3
<1>13. ASSUME ~late'
       PROVE  Owed' <= Owed + cost
  <2> DEFINE f == [j \in IntentID |-> OwedFor(j)]
             g == [j \in IntentID |-> OwedFor(j)']
             h == [j \in IntentID |-> IF j \in S THEN RenewPrice ELSE 0]
  <2>1. \A j \in IntentID : f[j] \in Int /\ h[j] \in Int /\ g[j] = f[j] + h[j]
    BY <1>2, <1>12, <1>13, OwedNat
  <2>2. \A j \in S : h[j] \in Int /\ h[j] <= RenewPrice
    BY <1>2
  <2>3. \A j \in IntentID \ S : h[j] = 0
    OBVIOUS
  <2> HIDE DEF f, g, h
  <2>4. SumFunctionOnSet(g, IntentID) = SumFunctionOnSet(f, IntentID) + SumFunctionOnSet(h, IntentID)
    BY <1>2, <2>1, SumAdd
  <2>5. SumFunctionOnSet(h, S) <= Cardinality(S) * RenewPrice
    BY <1>2, <1>3, <2>2, SumBounded
  <2>6. SumFunctionOnSet(h, IntentID \ S) = 0
    BY <1>3, <2>3, SumZero
  <2>7. SumFunctionOnSet(h, IntentID) = SumFunctionOnSet(h, S) + SumFunctionOnSet(h, IntentID \ S)
    <3>1. S \cup (IntentID \ S) = IntentID /\ S \cap (IntentID \ S) = {}
      BY <1>2
    <3>2. \A j \in S \cup (IntentID \ S) : h[j] \in Int
      BY <2>1, <1>2
    <3> QED
      BY <1>3, <3>1, <3>2, SumUnion
  <2>8. SumFunctionOnSet(f, IntentID) \in Int /\ SumFunctionOnSet(h, S) \in Int
    <3>1. \A j \in IntentID : f[j] \in Int
      BY <2>1
    <3>2. \A j \in S : h[j] \in Int
      BY <2>2
    <3> QED
      BY <1>2, <1>3, <3>1, <3>2, SumInt
  <2>9. Cardinality(S) * RenewPrice = cost
    BY <1>2, <1>3, <1>4
  <2> DEFINE a == SumFunctionOnSet(f, IntentID)
             b == SumFunctionOnSet(h, S)
  <2>10. Owed = a /\ Owed' = a + b /\ b <= cost /\ a \in Int /\ b \in Int
    BY <2>4, <2>5, <2>6, <2>7, <2>8, <2>9 DEF Owed, f, g
  <2> HIDE DEF a, b
  <2> QED
    BY <1>6, <2>10
<1>14. ASSUME ~late'
       PROVE  lockedStorage'[Owner] >= Owed' /\ Tokens' + Spent' = GenesisSupply
  <2>1. lockedStorage[Owner] >= Owed /\ Tokens + Spent = GenesisSupply
    BY <1>1, <1>14 DEF MoneyKept
  <2>2. lockedStorage[Owner] \in Int /\ lockedStorage'[Owner] \in Int
    BY OwnerKnown DEF WellFormed, MoneyOK, AccountsTypeOK
  <2>3. Owed' \in Int /\ Owed \in Int
    <3> DEFINE g == [j \in IntentID |-> OwedFor(j)']
    <3>1. \A j \in IntentID : g[j] \in Int
      BY OwedNext
    <3> HIDE DEF g
    <3>2. SumFunctionOnSet(g, IntentID) \in Int
      BY <1>2, <3>1, SumInt
    <3>3. Owed' \in Int
      BY <3>2 DEF Owed, g
    <3>4. Owed \in Int
      <4> DEFINE f == [j \in IntentID |-> OwedFor(j)]
      <4>1. \A j \in IntentID : f[j] \in Int
        BY OwedNat
      <4> HIDE DEF f
      <4>2. SumFunctionOnSet(f, IntentID) \in Int
        BY <1>2, <4>1, SumInt
      <4> QED
        BY <4>2 DEF Owed, f
    <3> QED
      BY <3>3, <3>4
  <2>4. lockedStorage'[Owner] >= Owed'
    BY <1>6, <1>10, <1>13, <1>14, <2>1, <2>2, <2>3
  <2> QED
    BY <1>10, <1>11, <2>1, <2>4
<1>15. ASSUME ~late' PROVE \A i \in IntentID : FeesOK(i)'
  BY <1>12, <1>15
<1> QED
  BY <1>9, <1>14, <1>15 DEF MoneyKept

LEMMA TopUpMoney ==
  ASSUME WellFormed, WellFormed', MoneyKept, NEW i \in IntentID, NEW amount \in Nat,
         TopUpPermanentFund(i, amount)
  PROVE  MoneyKept'
<1> DEFINE x == intents[i]
           fund == ensurePermanentFund(i, x)
           n == x.LockedFee + amount
           y == [x EXCEPT !.LockedFee = n]
           b == fund.Balance + amount
           g == [fund EXCEPT !.Balance = b, !.Closed = FALSE]
<1>1. x \in Intent(i) /\ Exists(i) /\ LastsOK(i) /\ isPermanentIntent(x)
  BY IntentExists DEF WellFormed, MoneyKept, TopUpPermanentFund
<1>2. /\ Locks(amount)
      /\ funds' = [funds EXCEPT ![i] = g]
      /\ addDealEscrowFunds(amount)
      /\ intents' = [intents EXCEPT ![i] = y]
      /\ UNCHANGED late
  BY DEF TopUpPermanentFund, Locks
<1>3. fund \in PermanentStorageFund /\ remainingIntentEscrow(x) \in Nat
  <2> HIDE DEF x
  <2> QED
    BY <1>1, FundTyped, EscrowNat
<1>4. funds[i] = None => fund.Balance = remainingIntentEscrow(x)
  BY DEF ensurePermanentFund
<1>5. funds[i] # None => fund = funds[i]
  BY DEF ensurePermanentFund
<1>6. n \in Nat /\ n = x.LockedFee + amount /\ x.ExpiresAt = 0
  BY <1>1 DEF Intent, LastsOK
<1>7. b = fund.Balance + amount
  OBVIOUS
<1> HIDE DEF x, fund, n, b
<1>8. g.Balance = b
  BY <1>3 DEF PermanentStorageFund
<1> HIDE DEF g
<1>9. /\ y \in Intent(i) /\ y.Policy = x.Policy /\ y.LockedFee = n /\ y.PaidFee = x.PaidFee
      /\ y.RefundedFee = x.RefundedFee /\ y.BurnedFee = x.BurnedFee /\ y.ExpiresAt = x.ExpiresAt
  BY <1>1, <1>6 DEF Intent
<1> HIDE DEF y
<1>10. FeeLeft(y) = FeeLeft(x) + amount
  BY <1>1, <1>6, <1>9 DEF FeeLeft, Intent
<1>11. isPermanentIntent(y)
  BY <1>1, <1>9 DEF isPermanentIntent
<1>12. intents'[i] = y
  BY <1>2, <1>9, IntentSet DEF WellFormed
<1>13. LastsOK(i)'
  BY <1>6, <1>9, <1>12 DEF LastsOK
<1>14. funds'[i] = g /\ \A j \in IntentID \ {i} : funds'[j] = funds[j]
  BY <1>2 DEF WellFormed, MoneyOK
<1>15. \A j \in IntentID \ {i} : FeesKept(j) /\ LastsOK(j)' /\ funds'[j] = funds[j]
  BY <1>2, <1>9, <1>14, SetOthers
<1>16. Tokens' = Tokens /\ lockedStorage'[Owner] - lockedStorage[Owner] = amount
  BY <1>2, LockTokens
<1>17. Spent' = Spent
  BY <1>2 DEF Spent, addDealEscrowFunds, WellFormed, MoneyOK, StorageFeePool
<1>18. ASSUME ~late'
       PROVE  /\ Tokens' + Spent' = Tokens + Spent
              /\ lockedStorage'[Owner] - lockedStorage[Owner] = FeeLeft(y) - FeeLeft(intents[i])
              /\ FeeLeft(y) >= 0
              /\ funds'[i] # None => isPermanentIntent(y) /\ funds'[i].Balance = FeeLeft(y)
  <2>1. ~late
    BY <1>2, <1>18
  <2>2. /\ FeeLeft(x) \in Nat /\ remainingIntentEscrow(x) = FeeLeft(x)
        /\ funds[i] # None => funds[i].Balance = FeeLeft(x)
    BY <1>1, <2>1, DealFees DEF x
  <2>3. fund.Balance = FeeLeft(x)
    BY <1>4, <1>5, <2>2
  <2>4. g.Balance = FeeLeft(y)
    BY <1>7, <1>8, <1>10, <2>3
  <2>5. FeeLeft(y) >= 0 /\ amount = FeeLeft(y) - FeeLeft(x)
    BY <1>10, <2>2
  <2> QED
    BY <1>11, <1>14, <1>16, <1>17, <2>4, <2>5 DEF x
<1> QED
  BY <1>1, <1>2, <1>9, <1>12, <1>13, <1>15, <1>18, DealMoney

\* What a miner is paid leaves the lock, the fee and the fund.
LEMMA PayMoney ==
  ASSUME WellFormed, WellFormed', MoneyKept, NEW i \in IntentID, Exists(i), NEW m \in Miner,
         NEW source \in {"proof", "repair"}, NEW reward \in Nat, payReward(i, m, source, reward),
         UNCHANGED <<balance, late>>
  PROVE  MoneyKept'
<1> DEFINE x == intents[i]
           paid == fromFees(i, reward)
           fund == ensurePermanentFund(i, x)
           n == x.PaidFee + paid
           y == [x EXCEPT !.PaidFee = n]
           b == fund.Balance - paid
           p == fund.Paid + paid
           g == [fund EXCEPT !.Balance = b, !.Paid = p]
<1>1. x \in Intent(i) /\ Exists(i) /\ LastsOK(i)
  BY IntentExists DEF WellFormed, MoneyKept
<1>2. /\ paid \in Nat
      /\ ~isPermanentIntent(x) => paid <= remainingIntentEscrow(x)
      /\ isPermanentIntent(x) => paid <= fund.Balance
  BY FeesPayable
<1>3. /\ Spends(paid)
      /\ intents' = [intents EXCEPT ![i] = y]
      /\ funds' = IF isPermanentIntent(x) /\ paid > 0 THEN [funds EXCEPT ![i] = g] ELSE funds
      /\ feePool' = [feePool EXCEPT !.Paid = @ + paid]
  BY DEF payReward, Spends
<1>4. fund \in PermanentStorageFund /\ remainingIntentEscrow(x) \in Nat
  <2> HIDE DEF x
  <2> QED
    BY <1>1, FundTyped, EscrowNat
<1>5. /\ funds[i] = None => fund.Balance = remainingIntentEscrow(x)
      /\ funds[i] # None => fund = funds[i]
  BY DEF ensurePermanentFund
<1>6. n \in Nat /\ n = x.PaidFee + paid
  BY <1>1, <1>2 DEF Intent
<1>7. b = fund.Balance - paid
  OBVIOUS
<1> HIDE DEF x, fund, n, b, p, paid
<1>8. g.Balance = b
  BY <1>4 DEF PermanentStorageFund
<1> HIDE DEF g
<1>9. /\ y \in Intent(i) /\ y.Policy = x.Policy /\ y.LockedFee = x.LockedFee /\ y.PaidFee = n
      /\ y.RefundedFee = x.RefundedFee /\ y.BurnedFee = x.BurnedFee /\ y.ExpiresAt = x.ExpiresAt
  BY <1>1, <1>6 DEF Intent
<1> HIDE DEF y
<1>10. FeeLeft(y) = FeeLeft(x) - paid
  BY <1>1, <1>2, <1>6, <1>9 DEF FeeLeft, Intent
<1>11. isPermanentIntent(y) <=> isPermanentIntent(x)
  BY <1>9 DEF isPermanentIntent
<1>12. intents'[i] = y
  BY <1>3, <1>9, IntentSet DEF WellFormed
<1>13. LastsOK(i)'
  BY <1>1, <1>9, <1>11, <1>12 DEF LastsOK, x
<1>14. \A j \in IntentID \ {i} : funds'[j] = funds[j]
  BY <1>3 DEF WellFormed, MoneyOK
<1>15. \A j \in IntentID \ {i} : FeesKept(j) /\ LastsOK(j)' /\ funds'[j] = funds[j]
  BY <1>3, <1>9, <1>14, SetOthers
<1>16. Tokens' = Tokens - paid /\ lockedStorage'[Owner] - lockedStorage[Owner] = -paid
  BY <1>2, <1>3, SpendTokens
<1>17. Spent' = Spent + paid
  <2>1. feePool'.Paid = feePool.Paid + paid /\ feePool'.Burned = feePool.Burned
    BY <1>3 DEF WellFormed, MoneyOK, StorageFeePool
  <2>2. feePool.Paid \in Int /\ feePool.Burned \in Int
    BY DEF WellFormed, MoneyOK, StorageFeePool
  <2> QED
    BY <1>2, <2>1, <2>2 DEF Spent
<1>18. ASSUME ~late'
       PROVE  /\ Tokens' + Spent' = Tokens + Spent
              /\ lockedStorage'[Owner] - lockedStorage[Owner] = FeeLeft(y) - FeeLeft(intents[i])
              /\ FeeLeft(y) >= 0
              /\ funds'[i] # None => isPermanentIntent(y) /\ funds'[i].Balance = FeeLeft(y)
  <2>1. ~late
    BY <1>18
  <2>2. /\ FeeLeft(x) \in Nat /\ remainingIntentEscrow(x) = FeeLeft(x)
        /\ funds[i] # None => isPermanentIntent(x) /\ funds[i].Balance = FeeLeft(x)
    BY <1>1, <2>1, DealFees DEF x
  <2>3. fund.Balance = FeeLeft(x) \/ ~isPermanentIntent(x)
    BY <1>5, <2>2
  <2>4. paid <= FeeLeft(x)
    BY <1>2, <2>2, <2>3
  <2>5. FeeLeft(y) >= 0 /\ -paid = FeeLeft(y) - FeeLeft(x)
    BY <1>2, <1>10, <2>2, <2>4
  <2>6. funds'[i] # None => isPermanentIntent(y) /\ funds'[i].Balance = FeeLeft(y)
    <3>1. CASE isPermanentIntent(x) /\ paid > 0
      <4>1. funds'[i] = g
        BY <1>3, <3>1 DEF WellFormed, MoneyOK
      <4>2. g.Balance = FeeLeft(y)
        BY <1>7, <1>8, <1>10, <2>3, <3>1
      <4> QED
        BY <1>11, <3>1, <4>1, <4>2
    <3>2. CASE ~(isPermanentIntent(x) /\ paid > 0)
      <4>1. funds'[i] = funds[i] /\ (isPermanentIntent(x) => paid = 0)
        BY <1>2, <1>3, <3>2
      <4>2. isPermanentIntent(x) => FeeLeft(y) = FeeLeft(x)
        BY <1>10, <2>2, <4>1
      <4> QED
        BY <1>11, <2>2, <4>1, <4>2
    <3> QED
      BY <3>1, <3>2
  <2>7. Tokens' + Spent' = Tokens + Spent
    BY <1>2, <1>16, <1>17, TokensInt, SpentInt
  <2> QED
    BY <1>16, <2>5, <2>6, <2>7 DEF x
<1> QED
  BY <1>1, <1>9, <1>12, <1>13, <1>15, <1>18, DealMoney

LEMMA PayableNat ==
  ASSUME WellFormed, NEW i \in IntentID, Exists(i)
  PROVE  payableStorageReward(i, Reward) \in Nat
<1> DEFINE k == fromFees(i, Reward)
<1>1. Reward \in Nat
  BY RewardAssumption
<1>2. k \in Nat /\ k <= Reward
  BY <1>1, FeesPayable
<1>3. payableStorageReward(i, Reward) = k + permanentFundSubsidy(i, Reward - k)
  BY DEF payableStorageReward
<1> HIDE DEF k
<1>4. Reward - k \in Nat
  BY <1>1, <1>2
<1>5. permanentFundSubsidy(i, Reward - k) \in Nat
  BY <1>4, SubsidyPayable
<1> QED
  BY <1>2, <1>3, <1>5

LEMMA SubmitProofMoney ==
  ASSUME WellFormed, WellFormed', MoneyKept, NEW c \in challenges, SubmitProof(c)
  PROVE  MoneyKept'
<1> DEFINE i == c.Intent
           r == IF completeRepairTaskAfterProof(c) = {} THEN 0 ELSE RepairReward
           payable == payableStorageReward(i, Reward)
<1>1. i \in IntentID /\ Exists(i) /\ c.Miner \in Miner
  BY DEF WellFormed, WorkOK, StorageChallenge
<1>2. UNCHANGED <<balance, late>>
  BY DEF SubmitProof
<1>3. CASE c.Repair
  <2>1. payReward(i, c.Miner, "repair", r)
    BY <1>3 DEF SubmitProof
  <2>2. r \in Nat
    BY RewardAssumption
  <2> HIDE DEF i, r
  <2> QED
    BY <1>1, <1>2, <2>1, <2>2, PayMoney
<1>4. CASE ~c.Repair
  <2>1. payReward(i, c.Miner, "proof", payable)
    BY <1>4 DEF SubmitProof
  <2> HIDE DEF i
  <2>2. payable \in Nat
    BY <1>1, PayableNat
  <2> HIDE DEF payable
  <2> QED
    BY <1>1, <1>2, <2>1, <2>2, PayMoney
<1> QED
  BY <1>3, <1>4

\* Challenges and repairs are about shards only.
LEMMA ShardWorkMoney ==
  ASSUME WellFormed, WellFormed', MoneyKept
  PROVE  /\ \A i \in IntentID : \A s \in Shards(i) : CreateChallenge(i, s) => MoneyKept'
         /\ \A c \in challenges : MissedProof(c) => MoneyKept'
         /\ \A i \in IntentID, unavailable \in SUBSET Miner, includeMissing \in BOOLEAN :
              CreateRepairTasks(i, unavailable, includeMissing) => MoneyKept'
<1>1. ASSUME NEW i \in IntentID, NEW s \in Shards(i), CreateChallenge(i, s)
      PROVE  MoneyKept'
  <2>1. UNCHANGED intents /\ UNCHANGED <<balance, lockedStorage, funds, feePool>> /\ late' = late
    BY <1>1 DEF CreateChallenge, accountVars
  <2> QED
    BY <2>1, UntouchedMoney
<1>2. ASSUME NEW c \in challenges, MissedProof(c)
      PROVE  MoneyKept'
  <2>1. UNCHANGED intents /\ UNCHANGED <<balance, lockedStorage, funds, feePool>> /\ late' = late
    BY <1>2 DEF MissedProof, accountVars
  <2> QED
    BY <2>1, UntouchedMoney
<1>3. ASSUME NEW i \in IntentID, NEW unavailable \in SUBSET Miner, NEW includeMissing \in BOOLEAN,
             CreateRepairTasks(i, unavailable, includeMissing)
      PROVE  MoneyKept'
  <2>1. UNCHANGED intents /\ UNCHANGED <<balance, lockedStorage, funds, feePool>> /\ late' = late
    BY <1>3 DEF CreateRepairTasks, accountVars
  <2> QED
    BY <2>1, UntouchedMoney
<1> QED
  BY <1>1, <1>2, <1>3

LEMMA DeleteReceiptMoney ==
  ASSUME WellFormed, WellFormed', MoneyKept, NEW t \in deleteTasks, SubmitDeleteReceipt(t)
  PROVE  MoneyKept'
<1> DEFINE i == t.Intent
           x == expireGovernanceAction(intents[i])
           fresh == IF <<i, t.Hash, t.Miner>> \in deleteReceipts THEN 0 ELSE 1
           y == Deleting(x, fresh)
<1>1. /\ i \in IntentID /\ Exists(i) /\ intents' = [intents EXCEPT ![i] = y]
      /\ UNCHANGED <<balance, lockedStorage, funds, feePool, late>>
  BY DeleteReceiptMeans DEF accountVars
<1>2. fresh \in {0, 1}
  OBVIOUS
<1> HIDE DEF i, fresh
<1>3. intents[i] \in Intent(i)
  BY <1>1, IntentExists DEF WellFormed
<1>4. x \in Intent(i) /\ SameFees(intents[i], x) /\ x.ExpiresAt = intents[i].ExpiresAt
  BY <1>1, <1>3, ExpireKeeps DEF SameFees
<1> HIDE DEF x
<1>5. y \in Intent(i) /\ SameFees(x, y) /\ y.ExpiresAt = x.ExpiresAt
  BY <1>1, <1>2, <1>4, DeletingTyped
<1> HIDE DEF y
<1>6. SameFees(intents[i], y)
  BY <1>4, <1>5 DEF SameFees
<1> QED
  BY <1>1, <1>4, <1>5, <1>6, StatusMoney

LEMMA ModeratedEnd ==
  ASSUME NEW i \in IntentID, NEW x \in Intent(i), NEW until \in Nat
  PROVE  /\ Suspended(x, until).ExpiresAt = x.ExpiresAt /\ Held(x).ExpiresAt = x.ExpiresAt
         /\ Blocked(x).ExpiresAt = x.ExpiresAt /\ Appealed(x).ExpiresAt = x.ExpiresAt
<1> DEFINE e == expireGovernanceAction(x)
           b == [e EXCEPT !.AccessStatus = "blocked", !.ModerationStatus = "blocked", !.ModerationExpires = 0]
           a == [e EXCEPT !.ModerationStatus = "appealed", !.ModerationExpires = 0]
<1>1. e \in Intent(i) /\ e.ExpiresAt = x.ExpiresAt
  BY ExpireKeeps
<1>2. Suspended(x, until).ExpiresAt = x.ExpiresAt /\ Held(x).ExpiresAt = x.ExpiresAt
  BY DEF Intent, Suspended, Held
<1>3. Blocked(x) = b /\ Appealed(x) = a
  BY DEF Blocked, Appealed
<1> HIDE DEF e
<1>4. b.ExpiresAt = e.ExpiresAt /\ a.ExpiresAt = e.ExpiresAt
  BY <1>1 DEF Intent
<1> HIDE DEF a, b
<1> QED
  BY <1>1, <1>2, <1>3, <1>4

LEMMA FreezeMoney ==
  ASSUME WellFormed, WellFormed', MoneyKept, NEW i \in IntentID, NEW until \in Nat, Freeze(i, until)
  PROVE  MoneyKept'
<1> DEFINE y == Suspended(intents[i], until)
<1>1. Exists(i) /\ intents' = [intents EXCEPT ![i] = y]
      /\ UNCHANGED <<balance, lockedStorage, funds, feePool, late>>
  BY DEF Freeze, Suspended, accountVars
<1>2. intents[i] \in Intent(i)
  BY <1>1, IntentExists DEF WellFormed
<1>3. y \in Intent(i) /\ SameFees(intents[i], y) /\ y.ExpiresAt = intents[i].ExpiresAt
  BY <1>2, ModeratedTyped, ModeratedEnd
<1> HIDE DEF y
<1> QED
  BY <1>1, <1>3, StatusMoney

LEMMA LegalHoldMoney ==
  ASSUME WellFormed, WellFormed', MoneyKept, NEW i \in IntentID, LegalHold(i)
  PROVE  MoneyKept'
<1> DEFINE y == Held(intents[i])
<1>1. Exists(i) /\ intents' = [intents EXCEPT ![i] = y]
      /\ UNCHANGED <<balance, lockedStorage, funds, feePool, late>>
  BY DEF LegalHold, Held, accountVars
<1>2. intents[i] \in Intent(i)
  BY <1>1, IntentExists DEF WellFormed
<1>3. y \in Intent(i) /\ SameFees(intents[i], y) /\ y.ExpiresAt = intents[i].ExpiresAt
  BY <1>2, ModeratedTyped, ModeratedEnd
<1> HIDE DEF y
<1> QED
  BY <1>1, <1>3, StatusMoney

LEMMA AppealMoney ==
  ASSUME WellFormed, WellFormed', MoneyKept, NEW i \in IntentID, Appeal(i)
  PROVE  MoneyKept'
<1> DEFINE y == Appealed(intents[i])
<1>1. Exists(i) /\ intents' = [intents EXCEPT ![i] = y]
      /\ UNCHANGED <<balance, lockedStorage, funds, feePool, late>>
  BY DEF Appeal, Appealed, accountVars
<1>2. intents[i] \in Intent(i)
  BY <1>1, IntentExists DEF WellFormed
<1>3. y \in Intent(i) /\ SameFees(intents[i], y) /\ y.ExpiresAt = intents[i].ExpiresAt
  BY <1>2, ModeratedTyped, ModeratedEnd
<1> HIDE DEF y
<1> QED
  BY <1>1, <1>3, StatusMoney

LEMMA OthersLiftedMoney ==
  ASSUME WellFormed, MoneyKept, NEW i \in IntentID, OthersLifted(i)
  PROVE  \A j \in IntentID \ {i} : FeesKept(j) /\ LastsOK(j)'
<1> SUFFICES ASSUME NEW j \in IntentID \ {i} PROVE FeesKept(j) /\ LastsOK(j)'
  OBVIOUS
<1>1. CASE intents'[j] = intents[j]
  BY <1>1 DEF FeesKept, SameFees, Exists, MoneyKept, LastsOK
<1>2. CASE Exists(j) /\ intents'[j] = expireGovernanceAction(intents[j])
  <2> DEFINE e == expireGovernanceAction(intents[j])
  <2>1. intents[j] \in Intent(j) /\ LastsOK(j)
    BY <1>2, IntentExists DEF WellFormed, MoneyKept
  <2>2. e \in Intent(j) /\ SameFees(intents[j], e) /\ e.ExpiresAt = intents[j].ExpiresAt
    BY <2>1, ExpireKeeps DEF SameFees
  <2>3. e # None
    BY <2>2, DealNone
  <2>4. intents'[j] = e
    BY <1>2
  <2> HIDE DEF e
  <2>5. FeesKept(j)
    BY <1>2, <2>2, <2>3, <2>4 DEF FeesKept
  <2>6. LastsOK(j)'
    BY <1>2, <2>1, <2>2, <2>4 DEF LastsOK, SameFees, isPermanentIntent
  <2> QED
    BY <2>5, <2>6
<1> QED
  BY <1>1, <1>2 DEF OthersLifted

LEMMA SetIsOthersLifted ==
  ASSUME WellFormed, NEW i \in IntentID, NEW y, intents' = [intents EXCEPT ![i] = y]
  PROVE  OthersLifted(i) /\ intents'[i] = y
BY DEF OthersLifted, WellFormed, IntentsOK

\* What is burned at the end of a deal is what was left of it, and its fund is empty.
LEMMA BurnMoney ==
  ASSUME WellFormed, WellFormed', MoneyKept, NEW i \in IntentID, Exists(i), NEW x \in Intent(i),
         SameFees(intents[i], x), x.ExpiresAt = intents[i].ExpiresAt,
         NEW burn \in Nat, burn <= lockedStorage[Owner],
         IF isPermanentIntent(x) THEN burn = closedFund(i, x).Burn ELSE burn <= remainingIntentEscrow(x),
         NEW y \in Intent(i), y.Policy = x.Policy, y.LockedFee = x.LockedFee, y.PaidFee = x.PaidFee,
         y.RefundedFee = x.RefundedFee, y.BurnedFee = x.BurnedFee + burn, y.ExpiresAt = x.ExpiresAt,
         intents'[i] = y, OthersLifted(i),
         lockedStorage' = [lockedStorage EXCEPT ![Owner] = @ - burn], recordStorageFeeBurn(burn),
         funds' = IF isPermanentIntent(x) THEN [funds EXCEPT ![i] = closedFund(i, x).Fund] ELSE funds,
         UNCHANGED <<balance, late>>
  PROVE  MoneyKept'
<1> DEFINE fund == ensurePermanentFund(i, x)
           g == closedFund(i, x).Fund
<1>1. LastsOK(i) /\ fund \in PermanentStorageFund
  BY FundTyped DEF MoneyKept
<1>2. /\ fund.Closed => closedFund(i, x).Burn = 0 /\ g = fund
      /\ ~fund.Closed => closedFund(i, x).Burn = Least({fund.Balance, lockedStorage[Owner]}) /\ g.Balance = 0
  BY ClosedTyped
<1>3. /\ funds[i] = None => fund.Balance = remainingIntentEscrow(x)
      /\ funds[i] # None => fund = funds[i]
  BY DEF ensurePermanentFund
<1>4. FeeLeft(x) = FeeLeft(intents[i]) /\ (isPermanentIntent(x) <=> isPermanentIntent(intents[i]))
  BY FeeLeftSame
<1>5. FeeLeft(y) = FeeLeft(x) - burn
  BY DEF FeeLeft, Intent
<1>6. isPermanentIntent(y) <=> isPermanentIntent(x)
  BY DEF isPermanentIntent
<1>7. LastsOK(i)'
  BY <1>1, <1>4, <1>6 DEF LastsOK
<1>8. \A j \in IntentID \ {i} : funds'[j] = funds[j]
  BY DEF WellFormed, MoneyOK
<1>9. \A j \in IntentID \ {i} : FeesKept(j) /\ LastsOK(j)' /\ funds'[j] = funds[j]
  BY <1>8, OthersLiftedMoney
<1>10. Spends(burn)
  BY DEF Spends
<1>11. Tokens' = Tokens - burn /\ lockedStorage'[Owner] - lockedStorage[Owner] = -burn
  BY <1>10, SpendTokens
<1>12. Spent' = Spent + burn
  <2>1. feePool'.Burned = feePool.Burned + burn /\ feePool'.Paid = feePool.Paid
    BY DEF WellFormed, MoneyOK, StorageFeePool, recordStorageFeeBurn
  <2>2. feePool.Paid \in Int /\ feePool.Burned \in Int
    BY DEF WellFormed, MoneyOK, StorageFeePool
  <2> QED
    BY <2>1, <2>2 DEF Spent
<1> HIDE DEF fund, g
<1>13. ASSUME ~late'
       PROVE  /\ Tokens' + Spent' = Tokens + Spent
              /\ lockedStorage'[Owner] - lockedStorage[Owner] = FeeLeft(y) - FeeLeft(intents[i])
              /\ FeeLeft(y) >= 0
              /\ funds'[i] # None => isPermanentIntent(y) /\ funds'[i].Balance = FeeLeft(y)
  <2>1. ~late
    BY <1>13
  <2>2. /\ FeeLeft(intents[i]) \in Nat /\ remainingIntentEscrow(intents[i]) = FeeLeft(intents[i])
        /\ FeeLeft(intents[i]) <= lockedStorage[Owner]
        /\ funds[i] # None => isPermanentIntent(intents[i]) /\ funds[i].Balance = FeeLeft(intents[i])
    BY <2>1, DealFees
  <2>3. remainingIntentEscrow(x) = remainingIntentEscrow(intents[i])
    BY DEF SameFees, remainingIntentEscrow
  <2>4. fund.Balance = FeeLeft(x) \/ ~isPermanentIntent(x)
    BY <1>3, <1>4, <2>2, <2>3
  <2>5. lockedStorage[Owner] \in Nat
    BY OwnerKnown DEF WellFormed, MoneyOK, AccountsTypeOK
  <2>6. isPermanentIntent(x) =>
          /\ burn <= FeeLeft(x)
          /\ g.Balance = FeeLeft(y)
    <3> SUFFICES ASSUME isPermanentIntent(x)
                 PROVE  burn <= FeeLeft(x) /\ g.Balance = FeeLeft(y)
      OBVIOUS
    <3>1. FeeLeft(x) \in Nat /\ FeeLeft(x) <= lockedStorage[Owner] /\ fund.Balance = FeeLeft(x)
      BY <1>4, <2>2, <2>4
    <3>2. CASE fund.Closed
      <4>1. burn = 0 /\ g = fund
        BY <1>2, <3>2
      <4> QED
        BY <1>5, <3>1, <4>1
    <3>3. CASE ~fund.Closed
      <4>1. burn = Least({FeeLeft(x), lockedStorage[Owner]}) /\ g.Balance = 0
        BY <1>2, <3>1, <3>3
      <4> DEFINE k == FeeLeft(x)
                 l == lockedStorage[Owner]
      <4>2. k \in Nat /\ l \in Nat /\ k <= l
        BY <2>5, <3>1
      <4> HIDE DEF k, l
      <4>3. Least({k, l}) = k
        BY <4>2 DEF Least
      <4>4. burn = FeeLeft(x)
        BY <4>1, <4>3 DEF k, l
      <4> QED
        BY <1>5, <3>1, <4>1, <4>4
    <3> QED
      BY <3>2, <3>3
  <2>7. burn <= FeeLeft(x)
    BY <1>4, <2>2, <2>3, <2>6
  <2>8. FeeLeft(y) >= 0 /\ -burn = FeeLeft(y) - FeeLeft(intents[i])
    BY <1>4, <1>5, <2>2, <2>7
  <2>9. funds'[i] # None => isPermanentIntent(y) /\ funds'[i].Balance = FeeLeft(y)
    <3>1. CASE isPermanentIntent(x)
      <4>1. funds'[i] = g
        BY <3>1 DEF WellFormed, MoneyOK, g
      <4> QED
        BY <1>6, <2>6, <3>1, <4>1
    <3>2. CASE ~isPermanentIntent(x)
      <4>1. funds'[i] = None
        BY <1>4, <2>2, <3>2
      <4> QED
        BY <4>1
    <3> QED
      BY <3>1, <3>2
  <2>10. Tokens' + Spent' = Tokens + Spent
    BY <1>11, <1>12, TokensInt, SpentInt
  <2> QED
    BY <1>11, <2>8, <2>9, <2>10
<1>14. late => late'
  OBVIOUS
<1> QED
  BY <1>7, <1>9, <1>13, <1>14, DealMoney

LEMMA BurnedFees ==
  ASSUME NEW i \in IntentID, NEW x \in Intent(i), NEW burn \in Nat
  PROVE  \A y \in {EndedWith(x, burn), Closing(x, burn)} :
           /\ y \in Intent(i) /\ y.Policy = x.Policy /\ y.LockedFee = x.LockedFee /\ y.PaidFee = x.PaidFee
           /\ y.RefundedFee = x.RefundedFee /\ y.BurnedFee = x.BurnedFee + burn
           /\ y.ExpiresAt = x.ExpiresAt
<1> DEFINE b == x.BurnedFee + burn
           y1 == [x EXCEPT !.StorageStatus = "terminating", !.AccessStatus = "blocked", !.BurnedFee = b]
           y2 == [x EXCEPT !.StorageStatus = "terminating", !.BurnedFee = b]
<1>1. b \in Nat
  BY DEF Intent
<1>2. EndedWith(x, burn) = y1 /\ Closing(x, burn) = y2
  BY DEF EndedWith, Closing
<1> HIDE DEF b
<1>3. /\ y1 \in Intent(i) /\ y1.Policy = x.Policy /\ y1.LockedFee = x.LockedFee /\ y1.PaidFee = x.PaidFee
      /\ y1.RefundedFee = x.RefundedFee /\ y1.BurnedFee = b /\ y1.ExpiresAt = x.ExpiresAt
  BY <1>1 DEF Intent
<1>4. /\ y2 \in Intent(i) /\ y2.Policy = x.Policy /\ y2.LockedFee = x.LockedFee /\ y2.PaidFee = x.PaidFee
      /\ y2.RefundedFee = x.RefundedFee /\ y2.BurnedFee = b /\ y2.ExpiresAt = x.ExpiresAt
  BY <1>1 DEF Intent
<1> HIDE DEF y1, y2
<1> QED
  BY <1>2, <1>3, <1>4 DEF b

\* A deal that ends, with its shards marked for deletion or not.
LEMMA EndMoney ==
  ASSUME WellFormed, WellFormed', MoneyKept, NEW i \in IntentID, Exists(i), NEW x \in Intent(i),
         SameFees(intents[i], x), x.ExpiresAt = intents[i].ExpiresAt,
         NEW burn \in Nat, burn <= lockedStorage[Owner],
         IF isPermanentIntent(x) THEN burn = closedFund(i, x).Burn ELSE burn <= remainingIntentEscrow(x),
         NEW y \in {EndedWith(x, burn), Closing(x, burn)},
         intents' = [intents EXCEPT ![i] = y] \/ ensureDeleteTasks(i, y),
         lockedStorage' = [lockedStorage EXCEPT ![Owner] = @ - burn], recordStorageFeeBurn(burn),
         funds' = IF isPermanentIntent(x) THEN [funds EXCEPT ![i] = closedFund(i, x).Fund] ELSE funds,
         UNCHANGED <<balance, late>>
  PROVE  MoneyKept'
<1>1. /\ y \in Intent(i) /\ y.Policy = x.Policy /\ y.LockedFee = x.LockedFee /\ y.PaidFee = x.PaidFee
      /\ y.RefundedFee = x.RefundedFee /\ y.BurnedFee = x.BurnedFee + burn
      /\ y.ExpiresAt = x.ExpiresAt
  BY BurnedFees
<1>2. CASE intents' = [intents EXCEPT ![i] = y]
  <2>1. OthersLifted(i) /\ intents'[i] = y
    BY <1>2, SetIsOthersLifted
  <2> QED
    BY <1>1, <2>1, BurnMoney
<1>3. CASE ensureDeleteTasks(i, y)
  <2> DEFINE z == Marked(i, y)
  <2>1. intents'[i] = z /\ OthersLifted(i)
    BY <1>1, <1>3, EnsureForm
  <2>2. z \in Intent(i) /\ SameFees(y, z) /\ z.ExpiresAt = y.ExpiresAt
    BY <1>1, MarkedTyped
  <2> HIDE DEF z
  <2>3. /\ z.Policy = x.Policy /\ z.LockedFee = x.LockedFee /\ z.PaidFee = x.PaidFee
        /\ z.RefundedFee = x.RefundedFee /\ z.BurnedFee = x.BurnedFee + burn
        /\ z.ExpiresAt = x.ExpiresAt
    BY <1>1, <2>2 DEF SameFees
  <2> QED
    BY <2>1, <2>2, <2>3, BurnMoney
<1> QED
  BY <1>2, <1>3

LEMMA TerminateMoney ==
  ASSUME WellFormed, WellFormed', MoneyKept, NEW i \in IntentID, TerminateDeal(i)
  PROVE  MoneyKept'
<1> DEFINE x == expireGovernanceAction(intents[i])
           burn == TerminateBurn(i, x)
           y == EndedWith(x, burn)
<1>1. /\ Exists(i) /\ x \in Intent(i)
      /\ lockedStorage' = [lockedStorage EXCEPT ![Owner] = @ - burn]
      /\ recordStorageFeeBurn(burn)
      /\ funds' = IF isPermanentIntent(x) THEN [funds EXCEPT ![i] = closedFund(i, x).Fund] ELSE funds
      /\ intents' = [intents EXCEPT ![i] = y] \/ ensureDeleteTasks(i, y)
      /\ UNCHANGED <<balance, late>>
  BY TerminateMeans
<1>2. intents[i] \in Intent(i)
  BY <1>1, IntentExists DEF WellFormed
<1>3. SameFees(intents[i], x) /\ x.ExpiresAt = intents[i].ExpiresAt
  BY <1>2, ExpireKeeps DEF SameFees
<1> HIDE DEF x
<1>4. burn \in Nat /\ burn <= lockedStorage[Owner]
  BY <1>1, TerminateBurnTyped
<1>5. IF isPermanentIntent(x) THEN burn = closedFund(i, x).Burn ELSE burn <= remainingIntentEscrow(x)
  <2>1. isPermanentIntent(x) => burn = closedFund(i, x).Burn
    BY DEF TerminateBurn
  <2>2. ~isPermanentIntent(x) => burn <= remainingIntentEscrow(x)
    <3> DEFINE e == remainingIntentEscrow(x)
               l == lockedStorage[Owner]
    <3>1. e \in Nat /\ l \in Nat
      BY <1>1, EscrowNat, OwnerKnown DEF WellFormed, MoneyOK, AccountsTypeOK
    <3>2. ~isPermanentIntent(x) => burn = Least({e, l})
      BY DEF TerminateBurn
    <3> HIDE DEF e, l, burn
    <3>3. Least({e, l}) <= e
      BY <3>1, LeastOfTwo
    <3> QED
      BY <3>2, <3>3 DEF e
  <2> QED
    BY <2>1, <2>2
<1>6. y \in {EndedWith(x, burn), Closing(x, burn)}
  OBVIOUS
<1> HIDE DEF burn, y
<1> QED
  BY <1>1, <1>3, <1>4, <1>5, <1>6, EndMoney

LEMMA BlockMoney ==
  ASSUME WellFormed, WellFormed', MoneyKept, NEW i \in IntentID, NEW preserve \in BOOLEAN, Block(i, preserve)
  PROVE  MoneyKept'
<1> DEFINE x == Blocked(intents[i])
           burn == BlockBurn(i, x)
           y == Closing(x, burn)
<1>1. /\ Exists(i) /\ x \in Intent(i)
      /\ preserve => /\ intents' = [intents EXCEPT ![i] = x]
                     /\ UNCHANGED <<balance, lockedStorage, funds, feePool, late>>
      /\ ~preserve => Closes(i, x)
  BY BlockMeans DEF accountVars
<1>2. intents[i] \in Intent(i)
  BY <1>1, IntentExists DEF WellFormed
<1>3. SameFees(intents[i], x) /\ x.ExpiresAt = intents[i].ExpiresAt
  BY <1>2, ModeratedTyped, ModeratedEnd
<1> HIDE DEF x
<1>4. CASE preserve
  BY <1>1, <1>3, <1>4, StatusMoney
<1>5. CASE ~preserve
  <2>1. /\ lockedStorage' = [lockedStorage EXCEPT ![Owner] = @ - burn]
        /\ recordStorageFeeBurn(burn)
        /\ funds' = IF isPermanentIntent(x) THEN [funds EXCEPT ![i] = closedFund(i, x).Fund] ELSE funds
        /\ ensureDeleteTasks(i, y)
        /\ UNCHANGED <<balance, late>>
    BY <1>1, <1>5 DEF Closes
  <2>2. burn \in Nat /\ burn <= lockedStorage[Owner]
    BY <1>1, ClosingTyped
  <2>3. IF isPermanentIntent(x) THEN burn = closedFund(i, x).Burn ELSE burn <= remainingIntentEscrow(x)
    <3>1. remainingIntentEscrow(x) \in Nat
      BY <1>1, EscrowNat
    <3> QED
      BY <3>1 DEF BlockBurn
  <2>4. y \in {EndedWith(x, burn), Closing(x, burn)}
    OBVIOUS
  <2> HIDE DEF burn, y
  <2> QED
    BY <1>1, <1>3, <2>1, <2>2, <2>3, <2>4, EndMoney
<1> QED
  BY <1>4, <1>5

LEMMA MoneyStep ==
  ASSUME WellFormed, MoneyKept, [DealsNext]_<<accountVars, dealVars>>
  PROVE  MoneyKept'
<1> USE DealsKeepForm
<1>1. ASSUME UploadStep PROVE MoneyKept'
  BY <1>1, CreateIntentMoney, BatchCommitLateMoney, FinalizeMoney, BatchCommitMoney
     DEF UploadStep, DealsNext, DealStep
<1>2. ASSUME TermStep PROVE MoneyKept'
  <2>1. WellFormed'
    BY <1>2 DEF DealsNext, DealStep
  <2>2. ASSUME NEW i \in IntentID, SettleIntent(i) \/ SettleExpiredIntents(i)
        PROVE  MoneyKept'
    BY <2>1, <2>2, SettleMoney DEF SettleIntent, SettleExpiredIntents
  <2>3. ASSUME NEW i \in IntentID, NEW amount \in Nat \ {0}, TopUpPermanentFund(i, amount)
        PROVE  MoneyKept'
    BY <2>1, <2>3, TopUpMoney
  <2>4. ASSUME NEW i \in IntentID, NEW status \in AccessStatus, SetAccessPolicy(i, status)
        PROVE  MoneyKept'
    BY <2>1, <2>4, SetAccessMoney
  <2> QED
    BY <1>2, <2>1, <2>2, <2>3, <2>4, AutoRenewMoney, RenewDealMoney, RenewRefusedMoney DEF TermStep
<1>3. ASSUME ProofStep PROVE MoneyKept'
  BY <1>3, SubmitProofMoney, ShardWorkMoney DEF ProofStep, DealsNext, DealStep
<1>4. ASSUME NEW t \in deleteTasks, SubmitDeleteReceipt(t) PROVE MoneyKept'
  BY <1>4, DeleteReceiptMoney DEF DealsNext, DealStep
<1>5. ASSUME ModerationStep PROVE MoneyKept'
  BY <1>5, FreezeMoney, BlockMoney, LegalHoldMoney, AppealMoney DEF ModerationStep, DealsNext
<1>6. ASSUME NEW i \in IntentID, TerminateDeal(i) PROVE MoneyKept'
  BY <1>6, TerminateMoney DEF DealsNext
<1>7. ASSUME NextBlock /\ UNCHANGED dealVars PROVE MoneyKept'
  <2>1. WellFormed'
    BY <1>7 DEF DealsNext
  <2>2. UNCHANGED intents /\ UNCHANGED <<balance, lockedStorage, funds, feePool>> /\ late' = late
    BY <1>7 DEF NextBlock, dealVars
  <2> QED
    BY <2>1, <2>2, UntouchedMoney
<1>8. ASSUME UNCHANGED <<accountVars, dealVars>> PROVE MoneyKept'
  <2>1. WellFormed'
    BY <1>8
  <2>2. UNCHANGED intents /\ UNCHANGED <<balance, lockedStorage, funds, feePool>> /\ late' = late
    BY <1>8 DEF accountVars, dealVars
  <2> QED
    BY <2>1, <2>2, UntouchedMoney
<1> QED
  BY <1>1, <1>2, <1>3, <1>4, <1>5, <1>6, <1>7, <1>8 DEF DealsNext, DealStep

LEMMA MoneyInit ==
  ASSUME AccountsInit, DealsInit
  PROVE  MoneyKept
<1>1. \A i \in IntentID : intents[i] = None /\ funds[i] = None
  BY DEF DealsInit
<1>2. \A i \in IntentID : LastsOK(i) /\ FeesOK(i) /\ OwedFor(i) = 0
  BY <1>1 DEF LastsOK, FeesOK, OwedFor, Exists
<1>3. Owed = 0
  <2> DEFINE f == [i \in IntentID |-> OwedFor(i)]
  <2>1. \A i \in IntentID : f[i] = 0
    BY <1>2
  <2> HIDE DEF f
  <2>2. SumFunctionOnSet(f, IntentID) = 0
    BY <2>1, SumZero, FileAssumption
  <2> QED
    BY <2>2 DEF Owed, f
<1>4. WellFormed
  BY InitForm
<1>5. lockedStorage[Owner] >= 0
  BY <1>4, OwnerKnown DEF WellFormed, MoneyOK, AccountsTypeOK
<1>6. Spent = 0
  BY DEF DealsInit, Spent
<1>7. Tokens = GenesisSupply
  <2>1. balance = GenesisTokens /\ \A a \in Account : lockedStorage[a] = 0
    BY DEF AccountsInit
  <2>2. SumFunctionOnSet(lockedStorage, Account) = 0
    BY <2>1, SumZero, AccountAssumption
  <2>3. SumFunctionOnSet(balance, Account) \in Int
    <3>1. \A a \in Account : balance[a] \in Int
      BY <2>1, AccountAssumption
    <3> QED
      BY <3>1, SumInt, AccountAssumption
  <2> QED
    BY <2>1, <2>2, <2>3 DEF GenesisSupply, Tokens
<1> QED
  BY <1>2, <1>3, <1>4, <1>5, <1>6, <1>7, TokensInt DEF MoneyKept

LEMMA MoneyIsKept == DealsSpec => [](WellFormed /\ MoneyKept)
<1>1. AccountsInit /\ DealsInit => WellFormed /\ MoneyKept
  BY InitForm, MoneyInit
<1>2. WellFormed /\ MoneyKept /\ [DealsNext]_<<accountVars, dealVars>> => WellFormed' /\ MoneyKept'
  BY DealsKeepForm, MoneyStep
<1> QED
  BY <1>1, <1>2, PTL DEF DealsSpec

\* Every token is with its owner, locked, burned or vested to a miner, through fees that are
\* locked, split, paid out, returned, burned and topped up (state.go, storage_payments.go,
\* permanent_fund.go) - as long as nothing is finalized or uploaded after its fee is gone.
THEOREM SupplyIsAccounted == DealsSpec => []SupplyAccounted
<1>1. ASSUME WellFormed, MoneyKept PROVE SupplyAccounted
  <2>1. ASSUME ~late PROVE Tokens + feePool.Burned + feePool.Paid = GenesisSupply
    <3>1. Tokens + Spent = GenesisSupply
      BY <1>1, <2>1 DEF MoneyKept
    <3>2. Tokens \in Int /\ feePool.Burned \in Int /\ feePool.Paid \in Int
      BY <1>1, TokensInt DEF WellFormed, MoneyOK, StorageFeePool
    <3> QED
      BY <3>1, <3>2 DEF Spent
  <2> QED
    BY <1>1, <2>1, FormTypes DEF SupplyAccounted
<1> QED
  BY <1>1, MoneyIsKept, PTL

\* What deals still owe is locked for it, and a permanent fund holds what is left of its
\* deal's escrow: the three counts of storage_fee_pool.go and permanent_fund.go agree.
THEOREM EscrowsAreBacked == DealsSpec => []EscrowBacked
<1>1. ASSUME WellFormed, MoneyKept PROVE LocksCoverEscrows
  <2> SUFFICES ASSUME ~late
               PROVE  lockedStorage[Owner]
                        >= SumFunctionOnSet([i \in Live |-> remainingIntentEscrow(intents[i])], Live)
    BY DEF LocksCoverEscrows
  <2> DEFINE f == [i \in Live |-> remainingIntentEscrow(intents[i])]
             g == [i \in IntentID |-> OwedFor(i)]
  <2>1. Live \subseteq IntentID /\ IsFiniteSet(IntentID) /\ IsFiniteSet(Live)
    BY FileAssumption, FS_Subset DEF Live
  <2>2. \A i \in IntentID : g[i] \in Nat
    BY <1>1, OwedNat
  <2>3. \A i \in Live : f[i] \in Int /\ f[i] = g[i]
    <3> SUFFICES ASSUME NEW i \in Live PROVE f[i] \in Int /\ f[i] = g[i]
      OBVIOUS
    <3>1. i \in IntentID /\ Exists(i)
      BY DEF Live
    <3>2. f[i] = OwedFor(i) /\ g[i] = OwedFor(i)
      BY <3>1 DEF OwedFor
    <3> HIDE DEF f, g
    <3> QED
      BY <2>2, <3>1, <3>2
  <2>4. Owed = SumFunctionOnSet(g, IntentID)
    BY DEF Owed
  <2> HIDE DEF f, g
  <2>5. SumFunctionOnSet(f, Live) = SumFunctionOnSet(g, Live)
    BY <2>1, <2>3, SumEqual
  <2>6. SumFunctionOnSet(g, Live) <= SumFunctionOnSet(g, IntentID)
    BY <2>1, <2>2, SumSubset
  <2>7. lockedStorage[Owner] >= Owed /\ Owed \in Int /\ lockedStorage[Owner] \in Int
    <3>1. lockedStorage[Owner] >= Owed
      BY <1>1 DEF MoneyKept
    <3>2. Owed \in Int
      <4>1. \A i \in IntentID : g[i] \in Int
        BY <2>2
      <4> QED
        BY <2>1, <2>4, <4>1, SumInt
    <3> QED
      BY <1>1, <3>1, <3>2, OwnerKnown DEF WellFormed, MoneyOK, AccountsTypeOK
  <2>8. SumFunctionOnSet(g, Live) \in Int
    <3>1. \A i \in Live : g[i] \in Int
      BY <2>1, <2>2
    <3> QED
      BY <2>1, <3>1, SumInt
  <2>9. lockedStorage[Owner] >= SumFunctionOnSet(f, Live)
    BY <2>4, <2>5, <2>6, <2>7, <2>8
  <2> QED
    BY <2>9 DEF f
<1>2. ASSUME WellFormed, MoneyKept PROVE FundWithinEscrow
  BY <1>2 DEF MoneyKept, FeesOK, FundWithinEscrow, Live
<1> QED
  BY <1>1, <1>2, MoneyIsKept, PTL DEF EscrowBacked

-----------------------------------------------------------------------------
(***************************************************************************)
(* Miners are paid what they are due, once                                 *)
(***************************************************************************)
\* A miner has one task for a shard, and a shard one that is pending.
OneEach(T) ==
  \A t, u \in T : /\ t.Intent = u.Intent /\ t.Shard = u.Shard
                  /\ t.Miner = u.Miner \/ (t.Status = "pending" /\ u.Status = "pending")
                  => t = u

CompletedOf(m, T) == {t \in T : t.Miner = m /\ t.Status = "completed"}

RepairsCovered(m) == vested[m].repair <= RepairReward * Cardinality(CompletedOf(m, repairTasks))

MinersKept ==
  /\ OneEach(repairTasks)
  /\ \A m \in Miner : storageRewards[m] = vested[m].proof /\ RepairsCovered(m)

Moved(R, status) == {[t EXCEPT !.Status = status] : t \in R}

LEMMA MovedOne ==
  ASSUME NEW T, T \subseteq RepairTask, NEW R, R \subseteq T, OneEach(T),
         NEW status \in {"proof_pending", "completed"}, NEW U, U \subseteq (T \ R) \cup Moved(R, status)
  PROVE  OneEach(U)
<1>1. \A t \in Moved(R, status) : \E o \in R :
        /\ t = [o EXCEPT !.Status = status]
        /\ t.Intent = o.Intent /\ t.Shard = o.Shard /\ t.Miner = o.Miner /\ t.Status = status
  BY DEF Moved, RepairTask
<1> SUFFICES ASSUME NEW t \in U, NEW u \in U, t.Intent = u.Intent, t.Shard = u.Shard,
                    t.Miner = u.Miner \/ (t.Status = "pending" /\ u.Status = "pending")
             PROVE  t = u
  BY DEF OneEach
<1>2. CASE t \in T \ R /\ u \in T \ R
  BY <1>2 DEF OneEach
<1>3. CASE t \in Moved(R, status) /\ u \in Moved(R, status)
  <2>1. PICK o \in R : /\ t = [o EXCEPT !.Status = status]
                       /\ t.Intent = o.Intent /\ t.Shard = o.Shard /\ t.Miner = o.Miner /\ t.Status = status
    BY <1>1, <1>3
  <2>2. PICK q \in R : /\ u = [q EXCEPT !.Status = status]
                       /\ u.Intent = q.Intent /\ u.Shard = q.Shard /\ u.Miner = q.Miner /\ u.Status = status
    BY <1>1, <1>3
  <2>3. o.Intent = q.Intent /\ o.Shard = q.Shard /\ o.Miner = q.Miner
    BY <2>1, <2>2
  <2>4. o = q
    BY <2>3 DEF OneEach
  <2> QED
    BY <2>1, <2>2, <2>4
<1>4. CASE t \in T \ R /\ u \in Moved(R, status)
  <2>1. PICK q \in R : /\ u.Intent = q.Intent /\ u.Shard = q.Shard /\ u.Miner = q.Miner /\ u.Status = status
    BY <1>1, <1>4
  <2>2. t.Miner = q.Miner /\ t.Intent = q.Intent /\ t.Shard = q.Shard
    BY <2>1
  <2>3. t = q
    BY <1>4, <2>2 DEF OneEach
  <2> QED
    BY <1>4, <2>3
<1>5. CASE t \in Moved(R, status) /\ u \in T \ R
  <2>1. PICK o \in R : /\ t.Intent = o.Intent /\ t.Shard = o.Shard /\ t.Miner = o.Miner /\ t.Status = status
    BY <1>1, <1>5
  <2>2. o.Miner = u.Miner /\ u.Intent = o.Intent /\ u.Shard = o.Shard
    BY <2>1
  <2>3. u = o
    BY <1>5, <2>2 DEF OneEach
  <2> QED
    BY <1>5, <2>3
<1> QED
  BY <1>2, <1>3, <1>4, <1>5

\* New tasks are for shards that have none pending.
LEMMA AppliedOne ==
  ASSUME OneEach(repairTasks), NEW tasks, applyRepairTasks(tasks),
         \A t \in tasks : t.Status = "pending" /\ ~Pending(t.Intent, t.Shard),
         \A t, u \in tasks : t.Intent = u.Intent /\ t.Shard = u.Shard => t = u
  PROVE  OneEach(repairTasks') /\ \A m : CompletedOf(m, repairTasks') = CompletedOf(m, repairTasks)
<1> DEFINE new == {t \in tasks : ~ \E u \in repairTasks :
                      u.Intent = t.Intent /\ u.Shard = t.Shard /\ u.Miner = t.Miner}
<1>1. repairTasks' = repairTasks \cup new
  BY DEF applyRepairTasks
<1>2. /\ \A t \in new : t \in tasks /\ t.Status = "pending"
      /\ \A t \in new, u \in repairTasks :
           t.Intent = u.Intent /\ t.Shard = u.Shard => t.Miner # u.Miner /\ u.Status # "pending"
  BY DEF Pending
<1> HIDE DEF new
<1>3. OneEach(repairTasks')
  <2> SUFFICES ASSUME NEW t \in repairTasks', NEW u \in repairTasks', t.Intent = u.Intent, t.Shard = u.Shard,
                      t.Miner = u.Miner \/ (t.Status = "pending" /\ u.Status = "pending")
               PROVE  t = u
    BY DEF OneEach
  <2>1. CASE t \in repairTasks /\ u \in repairTasks
    BY <2>1 DEF OneEach
  <2>2. CASE t \in new /\ u \in new
    BY <1>2, <2>2
  <2>3. CASE t \in new /\ u \in repairTasks
    BY <1>2, <2>3
  <2>4. CASE t \in repairTasks /\ u \in new
    BY <1>2, <2>4
  <2> QED
    BY <1>1, <2>1, <2>2, <2>3, <2>4
<1>4. \A m : CompletedOf(m, repairTasks') = CompletedOf(m, repairTasks)
  BY <1>1, <1>2 DEF CompletedOf
<1> QED
  BY <1>3, <1>4

\* Where miners are not paid and no repair is forgotten, all of it is kept.
LEMMA MinersSame ==
  ASSUME WellFormed, WellFormed', MinersKept, UNCHANGED <<vested, storageRewards>>, OneEach(repairTasks'),
         \A m \in Miner : CompletedOf(m, repairTasks) \subseteq CompletedOf(m, repairTasks')
  PROVE  MinersKept'
<1> SUFFICES ASSUME NEW m \in Miner PROVE RepairsCovered(m)'
  BY DEF MinersKept
<1> DEFINE C == CompletedOf(m, repairTasks)
           D == CompletedOf(m, repairTasks')
<1>1. IsFiniteSet(repairTasks) /\ IsFiniteSet(repairTasks')
  BY DEF WellFormed, WorkOK
<1>2. C \subseteq D /\ IsFiniteSet(D)
  BY <1>1, FS_Subset DEF CompletedOf
<1>3. Cardinality(C) <= Cardinality(D) /\ Cardinality(C) \in Nat /\ Cardinality(D) \in Nat
  BY <1>2, FS_Subset, FS_CardinalityType
<1>4. vested[m].repair <= RepairReward * Cardinality(C) /\ vested'[m].repair = vested[m].repair
  BY DEF MinersKept, RepairsCovered
<1>5. vested[m].repair \in Nat /\ RepairReward \in Nat
  BY RewardAssumption DEF WellFormed, MoneyOK
<1> DEFINE c == Cardinality(C)
           d == Cardinality(D)
           v == vested[m].repair
<1>6. c \in Nat /\ d \in Nat /\ c <= d /\ v <= RepairReward * c /\ v \in Nat
  BY <1>3, <1>4, <1>5
<1> HIDE DEF c, d, v
<1>7. RepairReward * c <= RepairReward * d
  BY <1>5, <1>6
<1>8. v <= RepairReward * d
  BY <1>5, <1>6, <1>7
<1> QED
  BY <1>4, <1>8 DEF RepairsCovered, v, d

LEMMA MinersUntouched ==
  ASSUME WellFormed, WellFormed', MinersKept, UNCHANGED <<vested, storageRewards, repairTasks>>
  PROVE  MinersKept'
BY MinersSame DEF MinersKept

LEMMA BatchCommitMiners ==
  ASSUME WellFormed, WellFormed', MinersKept, NEW i \in IntentID, NEW s \in Shards(i), NEW m \in Miner,
         BatchCommit(i, s, m)
  PROVE  MinersKept'
<1> DEFINE tasks == IF intents[i].Receipts[s] = m THEN {} ELSE pendingRepairTask(i, s, m)
<1>1. /\ requireRepairProof(tasks) /\ UNCHANGED <<vested, storageRewards>>
      /\ tasks \subseteq repairTasks /\ \A t \in tasks : t.Status = "pending"
  BY DEF BatchCommit, moneyVars, pendingRepairTask
<1> HIDE DEF tasks
<1>2. repairTasks' = (repairTasks \ tasks) \cup Moved(tasks, "proof_pending")
  BY <1>1 DEF requireRepairProof, Moved
<1>3. repairTasks \subseteq RepairTask
  BY DEF WellFormed, WorkOK
<1>4. OneEach(repairTasks')
  BY <1>1, <1>2, <1>3, MovedOne DEF MinersKept
<1>5. \A n \in Miner : CompletedOf(n, repairTasks) \subseteq CompletedOf(n, repairTasks')
  BY <1>1, <1>2 DEF CompletedOf
<1> QED
  BY <1>1, <1>4, <1>5, MinersSame

LEMMA CreateRepairMiners ==
  ASSUME WellFormed, WellFormed', MinersKept, NEW i \in IntentID, NEW unavailable \in SUBSET Miner,
         NEW includeMissing \in BOOLEAN, CreateRepairTasks(i, unavailable, includeMissing)
  PROVE  MinersKept'
<1> DEFINE wanted == {s \in Shards(i) :
                   /\ ~Pending(i, s)
                   /\ Holder(i, s) \in unavailable \/ (Holder(i, s) = None /\ includeMissing)}
           repairs == [s \in wanted |-> repairsOf(i, s, Holder(i, s), unavailable)]
           possible == {s \in wanted : repairs[s] # {}}
<1>1. Exists(i) /\ UNCHANGED <<vested, storageRewards>>
  BY DEF CreateRepairTasks
<1>2. PICK f \in [possible -> UNION {repairs[s] : s \in possible}] :
           /\ \A s \in possible : f[s] \in repairs[s]
           /\ applyRepairTasks({f[s] : s \in possible})
  BY DEF CreateRepairTasks
<1> DEFINE tasks == {f[s] : s \in possible}
<1>3. ASSUME NEW s \in possible
      PROVE  f[s].Intent = i /\ f[s].Shard = s /\ f[s].Status = "pending" /\ ~Pending(i, s)
  <2>1. s \in wanted /\ s \in Shards(i) /\ ~Pending(i, s)
    OBVIOUS
  <2>2. Holder(i, s) \in Miner \cup {None}
    BY <1>1, <2>1, HolderMiner
  <2>3. repairs[s] \subseteq RepairsFor(i, s, Holder(i, s))
    BY <1>1, <2>1, <2>2, RepairsTyped
  <2>4. f[s] \in RepairsFor(i, s, Holder(i, s))
    BY <1>2, <2>3
  <2> HIDE DEF possible, repairs, wanted
  <2> QED
    BY <2>1, <2>4 DEF RepairsFor
<1> HIDE DEF possible, repairs, wanted
<1>4. /\ \A t \in tasks : t.Status = "pending" /\ ~Pending(t.Intent, t.Shard)
      /\ \A t, u \in tasks : t.Intent = u.Intent /\ t.Shard = u.Shard => t = u
  BY <1>3
<1>5. applyRepairTasks(tasks)
  BY <1>2
<1> HIDE DEF tasks
<1>6. OneEach(repairTasks') /\ \A m : CompletedOf(m, repairTasks') = CompletedOf(m, repairTasks)
  BY <1>4, <1>5, AppliedOne DEF MinersKept
<1> QED
  BY <1>1, <1>6, MinersSame

LEMMA MissedProofMiners ==
  ASSUME WellFormed, WellFormed', MinersKept, NEW c \in challenges, MissedProof(c)
  PROVE  MinersKept'
<1> DEFINE i == c.Intent
           repairs == IF Pending(i, c.Shard) \/ intents[i].Status = "expired" THEN {}
                      ELSE repairsOf(i, c.Shard, c.Miner, {c.Miner})
<1>1. i \in IntentID /\ Exists(i) /\ c.Shard \in Shards(i) /\ c.Miner \in Miner
  BY DEF WellFormed, WorkOK, StorageChallenge
<1>2. UNCHANGED <<vested, storageRewards>>
  BY DEF MissedProof
<1>3. UNCHANGED <<repairTasks, reserved>> \/ \E t \in repairs : applyRepairTasks({t})
  BY DEF MissedProof
<1>4. CASE UNCHANGED <<repairTasks, reserved>>
  BY <1>2, <1>4, MinersUntouched
<1>5. ASSUME NEW t \in repairs, applyRepairTasks({t})
      PROVE  MinersKept'
  <2>1. ~Pending(i, c.Shard) /\ t \in repairsOf(i, c.Shard, c.Miner, {c.Miner})
    OBVIOUS
  <2>2. repairsOf(i, c.Shard, c.Miner, {c.Miner}) \subseteq RepairsFor(i, c.Shard, c.Miner)
    BY <1>1, RepairsTyped
  <2>3. t.Status = "pending" /\ t.Intent = i /\ t.Shard = c.Shard
    BY <2>1, <2>2 DEF RepairsFor
  <2> DEFINE tasks == {t}
  <2>4. /\ applyRepairTasks(tasks)
        /\ \A u \in tasks : u.Status = "pending" /\ ~Pending(u.Intent, u.Shard)
        /\ \A u, v \in tasks : u.Intent = v.Intent /\ u.Shard = v.Shard => u = v
    BY <1>5, <2>1, <2>3
  <2> HIDE DEF tasks
  <2>5. OneEach(repairTasks') /\ \A m : CompletedOf(m, repairTasks') = CompletedOf(m, repairTasks)
    BY <2>4, AppliedOne DEF MinersKept
  <2> QED
    BY <1>2, <2>5, MinersSame
<1> QED
  BY <1>3, <1>4, <1>5

\* What is asked for again, between what was given and what was asked for, is given.
LEMMA LeastAgain ==
  ASSUME NEW S, S \subseteq Nat, NEW n \in Nat, NEW p \in Nat, NEW k \in Nat,
         k = Least({n} \cup S), k \in {n} \cup S, \A x \in {n} \cup S : k <= x, k <= p, p <= n
  PROVE  Least({p} \cup S) = k
<1>1. k \in {p} \cup S /\ \A x \in {p} \cup S : k <= x
  OBVIOUS
<1>2. \A y \in {p} \cup S : (\A x \in {p} \cup S : y <= x) => y = k
  BY <1>1
<1> QED
  BY <1>1, <1>2 DEF Least

LEMMA FeesAgain ==
  ASSUME WellFormed, NEW i \in IntentID, Exists(i), NEW amount \in Nat, NEW asked \in Nat,
         fromFees(i, amount) <= asked, asked <= amount
  PROVE  fromFees(i, asked) = fromFees(i, amount)
<1> DEFINE x == intents[i]
           fund == ensurePermanentFund(i, x)
           lock == lockedStorage[Owner]
           rest == remainingIntentEscrow(x)
           due == finiteDealEscrowAvailable(x)
           held == IF fund.Closed THEN 0 ELSE fund.Balance
           k == fromFees(i, amount)
<1>1. x \in Intent(i)
  BY IntentExists DEF WellFormed
<1>2. lock \in Nat
  BY OwnerKnown DEF WellFormed, MoneyOK, AccountsTypeOK
<1>3. k \in Nat
  BY FeesPayable
<1>4. CASE isPermanentIntent(x)
  <2>1. fund \in PermanentStorageFund
    BY <1>1, FundTyped
  <2>2. \A n : fromFees(i, n) = Least({n, lock, held})
    BY <1>4 DEF fromFees, spendPermanentFund
  <2> HIDE DEF fund
  <2>3. held \in Nat
    BY <2>1 DEF PermanentStorageFund
  <2> HIDE DEF held, lock, k
  <2> DEFINE S == {lock, held}
  <2>4. S \subseteq Nat
    BY <1>2, <2>3
  <2>5. \A n : {n, lock, held} = {n} \cup S
    OBVIOUS
  <2>6. k = Least({amount} \cup S) /\ k \in {amount} \cup S /\ \A y \in {amount} \cup S : k <= y
    <3>1. k = Least({amount, lock, held})
      BY <2>2 DEF k
    <3>2. /\ Least({amount, lock, held}) <= amount /\ Least({amount, lock, held}) <= lock
          /\ Least({amount, lock, held}) <= held /\ Least({amount, lock, held}) \in {amount, lock, held}
      BY <1>2, <2>3, LeastOfThree
    <3>3. k <= amount /\ k <= lock /\ k <= held /\ k \in {amount, lock, held}
      BY <3>1, <3>2
    <3> QED
      BY <2>5, <3>1, <3>3
  <2>7. k <= asked /\ asked <= amount
    BY DEF k
  <2> HIDE DEF S
  <2>8. Least({asked} \cup S) = k
    BY <1>3, <2>4, <2>6, <2>7, LeastAgain
  <2> QED
    BY <2>2, <2>5, <2>8 DEF k
<1>5. CASE ~isPermanentIntent(x)
  <2>1. rest \in Nat
    BY <1>1, EscrowNat
  <2>2. due \in Nat
    <3>1. finiteDealEscrowAccrued(x) \in Nat /\ x.PaidFee \in Nat
      BY <1>1, AccruedNat DEF Intent
    <3> QED
      BY <3>1, MinusNat DEF finiteDealEscrowAvailable
  <2>3. \A n : fromFees(i, n) = Least({n, lock, due, rest})
    BY <1>5 DEF fromFees, spendFiniteStorageFee
  <2> HIDE DEF lock, due, rest, k
  <2> DEFINE S == {lock, due, rest}
  <2>4. S \subseteq Nat
    BY <1>2, <2>1, <2>2
  <2>5. \A n : {n, lock, due, rest} = {n} \cup S
    OBVIOUS
  <2>6. k = Least({amount} \cup S) /\ k \in {amount} \cup S /\ \A y \in {amount} \cup S : k <= y
    <3>1. k = Least({amount, lock, due, rest})
      BY <2>3 DEF k
    <3>2. /\ Least({amount, lock, due, rest}) <= amount /\ Least({amount, lock, due, rest}) <= lock
          /\ Least({amount, lock, due, rest}) <= due /\ Least({amount, lock, due, rest}) <= rest
          /\ Least({amount, lock, due, rest}) \in {amount, lock, due, rest}
      BY <1>2, <2>1, <2>2, LeastOfFour
    <3>3. k <= amount /\ k <= lock /\ k <= due /\ k <= rest /\ k \in {amount, lock, due, rest}
      BY <3>1, <3>2
    <3> QED
      BY <2>5, <3>1, <3>3
  <2>7. k <= asked /\ asked <= amount
    BY DEF k
  <2> HIDE DEF S
  <2>8. Least({asked} \cup S) = k
    BY <1>3, <2>4, <2>6, <2>7, LeastAgain
  <2> QED
    BY <2>3, <2>5, <2>8 DEF k
<1> QED
  BY <1>4, <1>5

LEMMA SubsidyAgain ==
  ASSUME WellFormed, NEW i \in IntentID, Exists(i), NEW shortfall \in Nat
  PROVE  permanentFundSubsidy(i, permanentFundSubsidy(i, shortfall)) = permanentFundSubsidy(i, shortfall)
<1> DEFINE g == permanentFundSubsidy(i, shortfall)
           taken == LET fund == ensurePermanentFund(i, intents[i])
                    IN  /\ isPermanentIntent(intents[i]) /\ TakeoverTime > 0 /\ ~fund.Closed
                        /\ now - fund.CreatedAt >= TakeoverTime
<1>1. \A n : permanentFundSubsidy(i, n) = IF taken THEN Least({n, subsidyPool}) ELSE 0
  BY DEF permanentFundSubsidy
<1>2. g \in Nat /\ g <= subsidyPool /\ subsidyPool \in Nat
  BY SubsidyPayable DEF WellFormed, MoneyOK
<1> HIDE DEF g, taken
<1>3. Least({g, subsidyPool}) = g
  BY <1>2 DEF Least
<1> QED
  BY <1>1, <1>3 DEF g

\* What a miner is paid is no more than its reward, and all of one that is payable.
LEMMA PaysReward ==
  ASSUME WellFormed, NEW i \in IntentID, Exists(i), NEW m \in Miner, NEW source \in {"proof", "repair"},
         NEW reward \in Nat, payReward(i, m, source, reward)
  PROVE  \E given \in Nat :
           /\ given <= reward
           /\ reward = payableStorageReward(i, Reward) => given = reward
           /\ vested'[m][source] = vested[m][source] + given
           /\ \A r \in {"proof", "repair"} : r # source => vested'[m][r] = vested[m][r]
           /\ \A n \in Miner \ {m} : vested'[n] = vested[n]
<1> DEFINE paid == fromFees(i, reward)
           subsidy == permanentFundSubsidy(i, reward - paid)
           given == paid + subsidy
<1>1. paid \in Nat /\ paid <= reward
  BY FeesPayable
<1>2. subsidy \in Nat /\ subsidy <= reward - paid
  <2>1. reward - paid \in Nat
    BY <1>1
  <2> HIDE DEF paid
  <2> QED
    BY <2>1, SubsidyPayable
<1>3. given \in Nat /\ given <= reward
  BY <1>1, <1>2
<1>4. vested' = [vested EXCEPT ![m][source] = @ + paid + subsidy]
  BY DEF payReward
<1>5. vested \in [Miner -> [proof : Nat, repair : Nat]]
  BY DEF WellFormed, MoneyOK
<1>6. vested[m][source] \in Nat
  BY <1>5
<1>7. /\ vested'[m][source] = vested[m][source] + paid + subsidy
      /\ \A r \in {"proof", "repair"} : r # source => vested'[m][r] = vested[m][r]
      /\ \A n \in Miner \ {m} : vested'[n] = vested[n]
  <2> HIDE DEF paid, subsidy
  <2> QED
    BY <1>4, <1>5
<1>8. vested'[m][source] = vested[m][source] + given
  BY <1>1, <1>2, <1>6, <1>7
<1>9. ASSUME reward = payableStorageReward(i, Reward)
      PROVE  given = reward
  <2> DEFINE k == fromFees(i, Reward)
             g == permanentFundSubsidy(i, Reward - k)
  <2>1. Reward \in Nat
    BY RewardAssumption
  <2>2. k \in Nat /\ k <= Reward
    BY <2>1, FeesPayable
  <2>3. Reward - k \in Nat
    BY <2>1, <2>2
  <2>4. reward = k + g
    BY <1>9 DEF payableStorageReward
  <2> HIDE DEF k
  <2>5. g \in Nat /\ g <= Reward - k
    BY <2>3, SubsidyPayable
  <2>6. permanentFundSubsidy(i, g) = g
    BY <2>3, SubsidyAgain
  <2> HIDE DEF g
  <2>7. k <= reward /\ reward <= Reward
    BY <2>1, <2>2, <2>4, <2>5
  <2>8. paid = k
    BY <2>1, <2>7, FeesAgain DEF k
  <2>9. reward - paid = g
    BY <2>2, <2>4, <2>5, <2>8
  <2>10. subsidy = g
    BY <2>6, <2>9
  <2> QED
    BY <2>4, <2>8, <2>10
<1> HIDE DEF given
<1> QED
  BY <1>3, <1>7, <1>8, <1>9

LEMMA SubmitProofMiners ==
  ASSUME WellFormed, WellFormed', MinersKept, NEW c \in challenges, SubmitProof(c)
  PROVE  MinersKept'
<1> DEFINE i == c.Intent
           m == c.Miner
           repaired == completeRepairTaskAfterProof(c)
           tasks == (repairTasks \ repaired) \cup Done(repaired)
           payable == payableStorageReward(i, Reward)
           r == IF repaired = {} THEN 0 ELSE RepairReward
<1>1. i \in IntentID /\ Exists(i) /\ m \in Miner
  BY DEF WellFormed, WorkOK, StorageChallenge
<1>2. /\ repaired \subseteq repairTasks
      /\ \A t \in repaired : t.Status = "proof_pending" /\ t.Miner = m
      /\ ~c.Repair => repaired = {}
  BY DEF completeRepairTaskAfterProof
<1>3. repairTasks' = tasks \ {t \in tasks : t.Old = m /\ t.Status = "pending"}
  BY DEF SubmitProof, clearPendingShardRepairs, Done
<1>4. IsFiniteSet(repairTasks) /\ IsFiniteSet(repairTasks') /\ repairTasks \subseteq RepairTask
  BY DEF WellFormed, WorkOK
<1>5. c.Repair => payReward(i, m, "repair", r) /\ UNCHANGED storageRewards
  BY DEF SubmitProof
<1>6. ~c.Repair => /\ payReward(i, m, "proof", payable)
                   /\ storageRewards' = [storageRewards EXCEPT ![m] = @ + payable]
  BY DEF SubmitProof
<1>7. RepairReward \in Nat /\ r \in Nat
  BY RewardAssumption
<1>8. payable \in Nat
  <2> HIDE DEF i
  <2> QED
    BY <1>1, PayableNat
<1>9. /\ vested \in [Miner -> [proof : Nat, repair : Nat]] /\ storageRewards \in [Miner -> Nat]
  BY DEF WellFormed, MoneyOK
<1>10. repaired = {} => r = 0
  OBVIOUS
<1>11. r <= RepairReward
  BY <1>7
<1>12. payable = payableStorageReward(i, Reward)
  OBVIOUS
<1> HIDE DEF repaired, payable, r, i, m
<1>13. tasks = (repairTasks \ repaired) \cup Moved(repaired, "completed")
  BY DEF Moved, Done
<1>14. OneEach(repairTasks')
  <2>1. repairTasks' \subseteq (repairTasks \ repaired) \cup Moved(repaired, "completed")
    BY <1>3, <1>13
  <2> QED
    BY <1>2, <1>4, <2>1, MovedOne DEF MinersKept
<1>15. \A n \in Miner : CompletedOf(n, repairTasks) \subseteq CompletedOf(n, repairTasks')
  BY <1>2, <1>3 DEF CompletedOf
<1> DEFINE C(n) == CompletedOf(n, repairTasks)
           D(n) == CompletedOf(n, repairTasks')
<1>16. \A n \in Miner : /\ Cardinality(C(n)) \in Nat /\ Cardinality(D(n)) \in Nat
                        /\ Cardinality(C(n)) <= Cardinality(D(n))
  <2> SUFFICES ASSUME NEW n \in Miner
               PROVE  /\ Cardinality(C(n)) \in Nat /\ Cardinality(D(n)) \in Nat
                      /\ Cardinality(C(n)) <= Cardinality(D(n))
    OBVIOUS
  <2>1. IsFiniteSet(C(n)) /\ IsFiniteSet(D(n)) /\ C(n) \subseteq D(n)
    BY <1>4, <1>15, FS_Subset DEF CompletedOf
  <2> HIDE DEF C, D
  <2> QED
    BY <2>1, FS_Subset, FS_CardinalityType
<1>17. repaired # {} => Cardinality(C(m)) + 1 <= Cardinality(D(m))
  <2> SUFFICES ASSUME repaired # {}
               PROVE  Cardinality(C(m)) + 1 <= Cardinality(D(m))
    OBVIOUS
  <2>1. PICK o \in repaired : TRUE
    OBVIOUS
  <2> DEFINE d == [o EXCEPT !.Status = "completed"]
  <2>2. o \in RepairTask /\ o \in repairTasks /\ o.Status = "proof_pending" /\ o.Miner = m
    BY <1>2, <1>4
  <2>3. /\ d.Intent = o.Intent /\ d.Shard = o.Shard /\ d.Miner = o.Miner /\ d.Status = "completed"
        /\ d \in tasks
    BY <2>2 DEF RepairTask, Done
  <2> HIDE DEF d
  <2>4. d \in D(m)
    BY <1>3, <2>2, <2>3 DEF CompletedOf
  <2>5. d \notin C(m)
    <3>1. d \in repairTasks => d = o
      BY <2>2, <2>3 DEF MinersKept, OneEach
    <3> QED
      BY <2>2, <2>3, <3>1 DEF CompletedOf
  <2>6. IsFiniteSet(C(m)) /\ IsFiniteSet(D(m)) /\ C(m) \cup {d} \subseteq D(m)
    BY <1>1, <1>4, <1>15, <2>4, FS_Subset DEF CompletedOf
  <2> HIDE DEF C, D
  <2>7. Cardinality(C(m) \cup {d}) = Cardinality(C(m)) + 1
    BY <2>5, <2>6, FS_AddElement
  <2>8. Cardinality(C(m) \cup {d}) <= Cardinality(D(m))
    BY <2>6, FS_Subset
  <2> QED
    BY <2>7, <2>8
<1>18. \A n \in Miner : vested[n].repair <= RepairReward * Cardinality(C(n)) /\ vested[n].repair \in Nat
  BY <1>9 DEF MinersKept, RepairsCovered
<1>19. /\ \A n \in Miner : storageRewards[n] = vested[n].proof
       /\ \A n \in Miner \ {m} : storageRewards'[n] = storageRewards[n]
  BY <1>5, <1>6, <1>9 DEF MinersKept
<1>20. ASSUME NEW n \in Miner, vested'[n].repair = vested[n].repair
       PROVE  RepairsCovered(n)'
  <2> DEFINE k == Cardinality(C(n))
             l == Cardinality(D(n))
             v == vested[n].repair
  <2>1. k \in Nat /\ l \in Nat /\ k <= l /\ v <= RepairReward * k /\ v \in Nat
    BY <1>16, <1>18
  <2> HIDE DEF k, l, v
  <2>2. v <= RepairReward * l
    <3>1. RepairReward * k <= RepairReward * l
      BY <1>7, <2>1
    <3> QED
      BY <1>7, <2>1, <3>1
  <2> QED
    BY <1>20, <2>2 DEF v, l, RepairsCovered
<1>21. CASE ~c.Repair
  <2>1. PICK given \in Nat :
          /\ payable = payableStorageReward(i, Reward) => given = payable
          /\ vested'[m]["proof"] = vested[m]["proof"] + given
          /\ \A s \in {"proof", "repair"} : s # "proof" => vested'[m][s] = vested[m][s]
          /\ \A n \in Miner \ {m} : vested'[n] = vested[n]
    BY <1>1, <1>6, <1>8, <1>21, PaysReward
  <2>2. vested'[m].proof = vested[m].proof + payable /\ \A n \in Miner : vested'[n].repair = vested[n].repair
    BY <1>12, <2>1
  <2>3. \A n \in Miner : RepairsCovered(n)'
    BY <2>2, <1>20
  <2>4. \A n \in Miner : storageRewards'[n] = vested'[n].proof
    <3>1. storageRewards'[m] = storageRewards[m] + payable
      BY <1>1, <1>6, <1>9, <1>21
    <3>2. storageRewards'[m] = vested'[m].proof
      BY <1>1, <1>19, <2>2, <3>1
    <3>3. \A n \in Miner \ {m} : storageRewards'[n] = vested'[n].proof
      BY <1>19, <2>1
    <3> QED
      BY <3>2, <3>3
  <2> QED
    BY <1>14, <2>3, <2>4 DEF MinersKept
<1>22. CASE c.Repair
  <2>1. PICK given \in Nat :
          /\ given <= r
          /\ vested'[m]["repair"] = vested[m]["repair"] + given
          /\ \A s \in {"proof", "repair"} : s # "repair" => vested'[m][s] = vested[m][s]
          /\ \A n \in Miner \ {m} : vested'[n] = vested[n]
    BY <1>1, <1>5, <1>7, <1>22, PaysReward
  <2>2. /\ vested'[m].repair = vested[m].repair + given
        /\ \A n \in Miner : vested'[n].proof = vested[n].proof
        /\ \A n \in Miner \ {m} : vested'[n].repair = vested[n].repair
    BY <2>1
  <2>3. \A n \in Miner : storageRewards'[n] = vested'[n].proof
    BY <1>5, <1>19, <1>22, <2>2
  <2>4. RepairsCovered(m)'
    <3>1. CASE repaired = {}
      <4>1. vested'[m].repair = vested[m].repair
        BY <1>1, <1>7, <1>10, <1>18, <2>1, <2>2, <3>1
      <4> QED
        BY <1>1, <1>20, <4>1
    <3>2. CASE repaired # {}
      <4> DEFINE k == Cardinality(C(m))
                 l == Cardinality(D(m))
                 v == vested[m].repair
      <4>1. k \in Nat /\ l \in Nat /\ k + 1 <= l /\ v <= RepairReward * k /\ v \in Nat
        BY <1>1, <1>16, <1>17, <1>18, <3>2
      <4>2. vested'[m].repair = v + given
        BY <2>2
      <4> HIDE DEF k, l, v
      <4>3. RepairReward * (k + 1) <= RepairReward * l
        BY <1>7, <4>1
      <4>4. RepairReward * (k + 1) = RepairReward * k + RepairReward
        BY <1>7, <4>1
      <4>5. given <= RepairReward
        BY <1>7, <1>11, <2>1
      <4>6. v + given <= RepairReward * l
        <5> DEFINE p == RepairReward * k
                   q == RepairReward * l
        <5>1. p \in Int /\ q \in Int /\ p + RepairReward <= q /\ v <= p
          BY <1>7, <4>1, <4>3, <4>4
        <5> HIDE DEF p, q
        <5>2. v + given <= q
          BY <1>7, <4>1, <4>5, <5>1
        <5> QED
          BY <5>2 DEF q
      <4> QED
        BY <4>2, <4>6 DEF l, RepairsCovered
    <3> QED
      BY <3>1, <3>2
  <2>5. \A n \in Miner : RepairsCovered(n)'
    BY <1>20, <2>2, <2>4
  <2> QED
    BY <1>14, <2>3, <2>5 DEF MinersKept
<1> QED
  BY <1>21, <1>22

LEMMA MinersStep ==
  ASSUME WellFormed, MinersKept, [DealsNext]_<<accountVars, dealVars>>
  PROVE  MinersKept'
<1> DEFINE Quiet == UNCHANGED <<vested, storageRewards, repairTasks>>
<1>1. WellFormed'
  BY DealsKeepForm
<1>2. ASSUME Quiet PROVE MinersKept'
  BY <1>1, <1>2, MinersUntouched
<1>3. ASSUME UploadStep PROVE MinersKept'
  <2>1. ASSUME NEW i \in IntentID, CreateIntent(i) \/ BatchCommitLate(i) PROVE Quiet
    BY <2>1 DEF CreateIntent, BatchCommitLate, shardVars
  <2>2. ASSUME NEW i \in IntentID, Finalize(i) PROVE Quiet
    BY <2>2 DEF Finalize, shardVars
  <2> HIDE DEF Quiet
  <2> QED
    BY <1>1, <1>2, <1>3, <2>1, <2>2, BatchCommitMiners DEF UploadStep
<1>4. ASSUME TermStep PROVE Quiet
  <2>1. ASSUME NEW i \in IntentID, SettleIntent(i) \/ SettleExpiredIntents(i) PROVE Quiet
    BY <2>1 DEF SettleIntent, SettleExpiredIntents, settleIntent
  <2>2. ASSUME NEW i \in IntentID, RenewDeal(i) \/ RenewRefused(i) PROVE Quiet
    BY <2>2 DEF RenewDeal, RenewRefused, shardVars
  <2>3. ASSUME NEW i \in IntentID, NEW amount \in Nat \ {0}, TopUpPermanentFund(i, amount) PROVE Quiet
    BY <2>3 DEF TopUpPermanentFund, shardVars
  <2>4. ASSUME NEW i \in IntentID, NEW status \in AccessStatus, SetAccessPolicy(i, status) PROVE Quiet
    BY <2>4 DEF SetAccessPolicy, moneyVars, shardVars
  <2>5. ASSUME autoRenewDeals PROVE Quiet
    BY <2>5 DEF autoRenewDeals, shardVars
  <2> HIDE DEF Quiet
  <2> QED
    BY <1>4, <2>1, <2>2, <2>3, <2>4, <2>5 DEF TermStep
<1>5. ASSUME ProofStep PROVE MinersKept'
  <2>1. ASSUME NEW i \in IntentID, NEW s \in Shards(i), CreateChallenge(i, s) PROVE Quiet
    BY <2>1 DEF CreateChallenge
  <2> HIDE DEF Quiet
  <2> QED
    BY <1>1, <1>2, <1>5, <2>1, SubmitProofMiners, MissedProofMiners, CreateRepairMiners DEF ProofStep
<1>6. ASSUME NEW t \in deleteTasks, SubmitDeleteReceipt(t) PROVE Quiet
  BY <1>6 DEF SubmitDeleteReceipt
<1>7. ASSUME ModerationStep PROVE Quiet
  <2>1. ASSUME NEW i \in IntentID, LegalHold(i) \/ Appeal(i) PROVE Quiet
    BY <2>1 DEF LegalHold, Appeal, shardVars
  <2>2. ASSUME NEW i \in IntentID, NEW until \in Nat, Freeze(i, until) PROVE Quiet
    BY <2>2 DEF Freeze, shardVars
  <2>3. ASSUME NEW i \in IntentID, NEW preserve \in BOOLEAN, Block(i, preserve) PROVE Quiet
    BY <2>3 DEF Block, shardVars
  <2> HIDE DEF Quiet
  <2> QED
    BY <1>7, <2>1, <2>2, <2>3 DEF ModerationStep
<1>8. ASSUME NEW i \in IntentID, TerminateDeal(i) PROVE Quiet
  BY <1>8 DEF TerminateDeal
<1>9. ASSUME (NextBlock /\ UNCHANGED dealVars) \/ UNCHANGED <<accountVars, dealVars>> PROVE Quiet
  BY <1>9 DEF dealVars
<1> HIDE DEF Quiet
<1> QED
  BY <1>2, <1>3, <1>4, <1>5, <1>6, <1>7, <1>8, <1>9 DEF DealsNext, DealStep

LEMMA MinersInit ==
  ASSUME AccountsInit, DealsInit
  PROVE  MinersKept
<1>1. /\ repairTasks = {}
      /\ \A m \in Miner : storageRewards[m] = 0 /\ vested[m].proof = 0 /\ vested[m].repair = 0
  BY DEF DealsInit
<1>2. \A m : CompletedOf(m, repairTasks) = {}
  BY <1>1 DEF CompletedOf
<1>3. Cardinality({}) = 0 /\ RepairReward \in Nat
  BY FS_EmptySet, RewardAssumption
<1>4. \A m \in Miner : vested[m].repair = 0 /\ Cardinality(CompletedOf(m, repairTasks)) = 0
  BY <1>1, <1>2, <1>3
<1>5. 0 <= RepairReward * 0
  BY <1>3
<1>6. \A m \in Miner : RepairsCovered(m)
  BY <1>4, <1>5 DEF RepairsCovered
<1> QED
  BY <1>1, <1>6 DEF MinersKept, OneEach

\* A miner is vested for proofs what its statistics promise, although payableStorageReward asks
\* for the amounts before they are paid, and for each repair it completed one reward; a shard is
\* repaired by one miner at a time (storage_payments.go, repair_tasks.go).
THEOREM MinersArePaid == DealsSpec => []MinersPaid
<1>1. AccountsInit /\ DealsInit => WellFormed /\ MinersKept
  BY InitForm, MinersInit
<1>2. WellFormed /\ MinersKept /\ [DealsNext]_<<accountVars, dealVars>> => WellFormed' /\ MinersKept'
  BY DealsKeepForm, MinersStep
<1>3. MinersKept => MinersPaid
  <2>1. ASSUME MinersKept PROVE RepairPaidOnce
    BY <2>1 DEF MinersKept, RepairsCovered, CompletedOf, RepairPaidOnce
  <2>2. ASSUME MinersKept PROVE RewardsPaid
    BY <2>2 DEF MinersKept, RewardsPaid
  <2>3. ASSUME MinersKept PROVE OneRepairAtATime
    BY <2>3 DEF MinersKept, OneEach, OneRepairAtATime
  <2> QED
    BY <2>1, <2>2, <2>3 DEF MinersPaid
<1> QED
  BY <1>1, <1>2, <1>3, PTL DEF DealsSpec

-----------------------------------------------------------------------------
(***************************************************************************)
(* A deal is deleted when every miner has deleted its shards               *)
(***************************************************************************)
\* The delete receipts of a deal, and those its shards call for.
KeysOf(i) == {k \in deleteReceipts : k[1] = i}

HeldKeys(i, x) == {<<i, HashOf[i][s], x.Receipts[s]>> : s \in Stored(i, x)}

HasTasks(i) == \E t \in deleteTasks : t.Intent = i

DeletionKept(i) ==
  IF ~Exists(i) THEN KeysOf(i) = {}
  ELSE LET x == intents[i]
       IN  /\ HasTasks(i) \/ KeysOf(i) # {} => x.DeleteTaskCount > 0
           /\ KeysOf(i) \subseteq HeldKeys(i, x)
           /\ x.DeleteTaskCount > 0 => x.DeleteTaskCount = Cardinality(Stored(i, x))
           /\ x.DeleteReceiptCount = Cardinality(KeysOf(i))
           /\ x.Status = "deleted" => HeldKeys(i, x) \subseteq KeysOf(i)

DeletionsKept == ~late => \A i \in IntentID : DeletionKept(i)

\* What most steps leave as it is of a deal.
ShardsKept(j) ==
  /\ intents'[j] = None <=> ~Exists(j)
  /\ Exists(j) => /\ SameShards(intents[j], intents'[j])
                  /\ intents'[j].Status # "deleted" \/ intents'[j].Status = intents[j].Status

LEMMA SameHeld ==
  ASSUME NEW i, NEW x, NEW y, SameShards(x, y)
  PROVE  Stored(i, y) = Stored(i, x) /\ HeldKeys(i, y) = HeldKeys(i, x)
BY DEF SameShards, Stored, HeldKeys

LEMMA DeletionSame ==
  ASSUME NEW j, DeletionKept(j), ShardsKept(j), KeysOf(j)' = KeysOf(j), HasTasks(j)' => HasTasks(j)
  PROVE  DeletionKept(j)'
<1>1. CASE ~Exists(j)
  BY <1>1 DEF DeletionKept, ShardsKept, Exists
<1>2. CASE Exists(j)
  <2> DEFINE x == intents[j]
             y == intents'[j]
  <2>1. y # None /\ SameShards(x, y) /\ (y.Status # "deleted" \/ y.Status = x.Status)
    BY <1>2 DEF ShardsKept
  <2>2. Stored(j, y) = Stored(j, x) /\ HeldKeys(j, y) = HeldKeys(j, x)
    BY <2>1, SameHeld
  <2>3. /\ HasTasks(j) \/ KeysOf(j) # {} => x.DeleteTaskCount > 0
        /\ KeysOf(j) \subseteq HeldKeys(j, x)
        /\ x.DeleteTaskCount > 0 => x.DeleteTaskCount = Cardinality(Stored(j, x))
        /\ x.DeleteReceiptCount = Cardinality(KeysOf(j))
        /\ x.Status = "deleted" => HeldKeys(j, x) \subseteq KeysOf(j)
    BY <1>2 DEF DeletionKept
  <2>4. y.DeleteTaskCount = x.DeleteTaskCount /\ y.DeleteReceiptCount = x.DeleteReceiptCount
    BY <2>1 DEF SameShards
  <2> HIDE DEF x
  <2>5. /\ HasTasks(j)' \/ KeysOf(j)' # {} => y.DeleteTaskCount > 0
        /\ KeysOf(j)' \subseteq HeldKeys(j, y)
        /\ y.DeleteTaskCount > 0 => y.DeleteTaskCount = Cardinality(Stored(j, y))
        /\ y.DeleteReceiptCount = Cardinality(KeysOf(j)')
        /\ y.Status = "deleted" => HeldKeys(j, y) \subseteq KeysOf(j)'
    BY <2>1, <2>2, <2>3, <2>4
  <2>6. Stored(j, intents[j])' = Stored(j, y) /\ HeldKeys(j, intents[j])' = HeldKeys(j, y)
    BY DEF Stored, HeldKeys
  <2> QED
    BY <2>1, <2>5, <2>6 DEF DeletionKept, Exists
<1> QED
  BY <1>1, <1>2

LEMMA DeletionsQuiet ==
  ASSUME DeletionsKept, late => late', \A j \in IntentID : ShardsKept(j), UNCHANGED deleteVars
  PROVE  DeletionsKept'
<1> SUFFICES ASSUME ~late', NEW j \in IntentID PROVE DeletionKept(j)'
  BY DEF DeletionsKept
<1>1. DeletionKept(j)
  BY DEF DeletionsKept
<1>2. KeysOf(j)' = KeysOf(j) /\ (HasTasks(j)' => HasTasks(j))
  BY DEF deleteVars, KeysOf, HasTasks
<1> QED
  BY <1>1, <1>2, DeletionSame

LEMMA DeletionsUntouched ==
  ASSUME DeletionsKept, late => late', UNCHANGED intents, UNCHANGED deleteVars
  PROVE  DeletionsKept'
<1>1. \A j \in IntentID : ShardsKept(j)
  BY DEF ShardsKept, SameShards, Exists
<1> QED
  BY <1>1, DeletionsQuiet

LEMMA OthersShards ==
  ASSUME WellFormed, NEW i \in IntentID, OthersLifted(i)
  PROVE  \A j \in IntentID \ {i} : ShardsKept(j)
<1> SUFFICES ASSUME NEW j \in IntentID \ {i} PROVE ShardsKept(j)
  OBVIOUS
<1>1. CASE intents'[j] = intents[j]
  BY <1>1 DEF ShardsKept, SameShards, Exists
<1>2. CASE Exists(j) /\ intents'[j] = expireGovernanceAction(intents[j])
  <2> DEFINE e == expireGovernanceAction(intents[j])
  <2>1. intents[j] \in Intent(j)
    BY <1>2, IntentExists DEF WellFormed
  <2>2. e \in Intent(j) /\ SameShards(intents[j], e) /\ e.Status = intents[j].Status
    BY <2>1, ExpireKeeps DEF SameShards
  <2>3. e # None
    BY <2>2, DealNone
  <2> HIDE DEF e
  <2> QED
    BY <1>2, <2>2, <2>3 DEF ShardsKept, e
<1> QED
  BY <1>1, <1>2 DEF OthersLifted

LEMMA DeletionsOfOne ==
  ASSUME WellFormed, DeletionsKept, late => late', NEW i \in IntentID, Exists(i),
         NEW y \in Intent(i), intents' = [intents EXCEPT ![i] = y],
         SameShards(intents[i], y), y.Status # "deleted" \/ y.Status = intents[i].Status,
         UNCHANGED deleteVars
  PROVE  DeletionsKept'
<1>1. OthersLifted(i) /\ intents'[i] = y /\ y # None
  BY SetIsOthersLifted, DealNone
<1>2. ShardsKept(i)
  BY <1>1 DEF ShardsKept
<1> QED
  BY <1>1, <1>2, OthersShards, DeletionsQuiet

LEMMA CreateIntentDeletions ==
  ASSUME WellFormed, DeletionsKept, NEW i \in IntentID, CreateIntent(i)
  PROVE  DeletionsKept'
<1>1. PICK f \in buildStorageAssignments(i), p \in Policies[i] :
       intents' = [intents EXCEPT ![i] = NewIntent(i, f, p)]
  BY CreateMeans
<1> DEFINE y == NewIntent(i, f, p)
<1>2. ~Exists(i) /\ UNCHANGED deleteVars /\ UNCHANGED late
  BY DEF CreateIntent
<1>3. OthersLifted(i) /\ intents'[i] = y
  BY <1>1, SetIsOthersLifted
<1>4. y \in Intent(i) /\ y # None
  BY <1>1, NewTyped, DealNone
<1>5. y.Status = "uploading" /\ y.DeleteTaskCount = 0 /\ y.DeleteReceiptCount = 0
  BY DEF NewIntent
<1> HIDE DEF y
<1> SUFFICES ASSUME ~late', NEW j \in IntentID PROVE DeletionKept(j)'
  BY DEF DeletionsKept
<1>6. DeletionKept(j)
  BY <1>2 DEF DeletionsKept
<1>7. KeysOf(j)' = KeysOf(j) /\ HasTasks(j)' = HasTasks(j)
  BY <1>2 DEF deleteVars, KeysOf, HasTasks
<1>8. CASE j # i
  BY <1>3, <1>6, <1>7, <1>8, OthersShards, DeletionSame
<1>9. CASE j = i
  <2>1. KeysOf(i)' = {}
    BY <1>2, <1>6, <1>7, <1>9 DEF DeletionKept
  <2>2. ~HasTasks(i)'
    BY <1>2, <1>7, <1>9 DEF HasTasks, WellFormed, DeletionOK
  <2>3. Cardinality({}) = 0
    BY FS_EmptySet
  <2>4. /\ ~(HasTasks(i)' \/ KeysOf(i)' # {})
        /\ KeysOf(i)' \subseteq HeldKeys(i, y)
        /\ y.DeleteTaskCount = 0
        /\ y.DeleteReceiptCount = Cardinality(KeysOf(i)')
        /\ y.Status # "deleted"
    BY <1>5, <2>1, <2>2, <2>3
  <2>5. HeldKeys(i, intents[i])' = HeldKeys(i, y)
    BY <1>3 DEF Stored, HeldKeys
  <2> QED
    BY <1>3, <1>4, <1>9, <2>4, <2>5 DEF DeletionKept, Exists
<1> QED
  BY <1>8, <1>9

\* A receipt for a deal that has not ended finds nothing of it deleted.
LEMMA BatchCommitDeletions ==
  ASSUME WellFormed, DeletionsKept, NEW i \in IntentID, NEW s \in Shards(i), NEW m \in Miner,
         BatchCommit(i, s, m)
  PROVE  DeletionsKept'
<1> DEFINE x == intents[i]
           tasks == IF x.Receipts[s] = m THEN {} ELSE pendingRepairTask(i, s, m)
           holder == IF tasks = {} THEN x.Assignments[s] ELSE m
           y == [x EXCEPT !.Receipts[s] = m, !.Status = "partial", !.Assignments[s] = holder]
<1>1. x \in Intent(i) /\ Exists(i)
  BY IntentExists DEF BatchCommit, WellFormed
<1>2. holder \in Miner \cup {None}
  BY <1>1 DEF Intent
<1>3. /\ intents' = [intents EXCEPT ![i] = y] /\ UNCHANGED deleteVars
      /\ late' = (late \/ Ended(x))
  BY DEF BatchCommit
<1> HIDE DEF holder
<1>4. /\ y \in Intent(i) /\ y.Status = "partial"
      /\ y.DeleteTaskCount = x.DeleteTaskCount /\ y.DeleteReceiptCount = x.DeleteReceiptCount
  <2> HIDE DEF x
  <2>1. y \in Intent(i)
    BY <1>1, <1>2, ReceiptTyped
  <2> QED
    BY <1>1, <2>1 DEF Intent
<1> HIDE DEF y
<1>5. OthersLifted(i) /\ intents'[i] = y /\ y # None
  BY <1>3, <1>4, SetIsOthersLifted, DealNone
<1> SUFFICES ASSUME ~late', NEW j \in IntentID PROVE DeletionKept(j)'
  BY DEF DeletionsKept
<1>6. DeletionKept(j)
  BY <1>3 DEF DeletionsKept
<1>7. KeysOf(j)' = KeysOf(j) /\ HasTasks(j)' = HasTasks(j)
  BY <1>3 DEF deleteVars, KeysOf, HasTasks
<1>8. CASE j # i
  BY <1>5, <1>6, <1>7, <1>8, OthersShards, DeletionSame
<1>9. CASE j = i
  <2>1. x.DeleteTaskCount = 0
    <3>1. ~(x.DeleteTaskCount > 0) /\ x.DeleteTaskCount \in Nat
      BY <1>1, <1>3 DEF Ended, Intent
    <3> QED
      BY <3>1
  <2>2. ~HasTasks(i) /\ KeysOf(i) = {} /\ x.DeleteReceiptCount = Cardinality(KeysOf(i))
    BY <1>1, <1>6, <1>9, <2>1 DEF DeletionKept
  <2>3. /\ ~(HasTasks(i)' \/ KeysOf(i)' # {})
        /\ KeysOf(i)' \subseteq HeldKeys(i, y)
        /\ y.DeleteTaskCount = 0
        /\ y.DeleteReceiptCount = Cardinality(KeysOf(i)')
        /\ y.Status # "deleted"
    BY <1>4, <1>7, <1>9, <2>1, <2>2
  <2>4. HeldKeys(i, intents[i])' = HeldKeys(i, y)
    BY <1>5 DEF Stored, HeldKeys
  <2> QED
    BY <1>5, <1>9, <2>3, <2>4 DEF DeletionKept, Exists
<1> QED
  BY <1>8, <1>9

LEMMA BatchCommitLateDeletions ==
  ASSUME WellFormed, DeletionsKept, NEW i \in IntentID, BatchCommitLate(i)
  PROVE  DeletionsKept'
<1> DEFINE x == intents[i]
           y == [x EXCEPT !.Status = "expired"]
<1>1. x \in Intent(i) /\ Exists(i)
  BY IntentExists DEF BatchCommitLate, WellFormed
<1>2. intents' = [intents EXCEPT ![i] = y] /\ UNCHANGED deleteVars /\ UNCHANGED late
  BY DEF BatchCommitLate
<1>3. y \in Intent(i) /\ SameShards(x, y) /\ y.Status = "expired"
  <2> HIDE DEF x
  <2> QED
    BY <1>1 DEF Intent, SameShards
<1> HIDE DEF y
<1> QED
  BY <1>1, <1>2, <1>3, DeletionsOfOne

LEMMA FinalizeDeletions ==
  ASSUME WellFormed, DeletionsKept, NEW i \in IntentID, Finalize(i)
  PROVE  DeletionsKept'
<1> DEFINE x == intents[i]
           w == Made(x)
           y == IF w.BurnDeferred THEN SplitOf(w) ELSE w
<1>1. x \in Intent(i) /\ Exists(i)
  BY IntentExists DEF Finalize, WellFormed
<1>2. w \in Intent(i)
  BY <1>1, MadeTyped
<1>3. executeDeferredBurn(i, w) /\ UNCHANGED deleteVars /\ (late => late')
  BY DEF Finalize, Made
<1>4. intents' = [intents EXCEPT ![i] = y]
  BY <1>3 DEF executeDeferredBurn, SplitOf
<1>5. SameShards(x, w) /\ w.Status = "finalized"
  BY <1>1 DEF Made, Intent, SameShards
<1> HIDE DEF w
<1>6. SplitOf(w) \in Intent(i) /\ SameShards(w, SplitOf(w)) /\ SplitOf(w).Status = w.Status
  BY <1>2, SplitTyped DEF SplitOf, Intent, SameShards
<1>7. y \in Intent(i) /\ SameShards(x, y) /\ y.Status = "finalized"
  BY <1>2, <1>5, <1>6 DEF SameShards
<1> HIDE DEF y
<1> QED
  BY <1>1, <1>3, <1>4, <1>7, DeletionsOfOne

LEMMA SettleDeletions ==
  ASSUME WellFormed, DeletionsKept, NEW i \in IntentID, Exists(i), settleIntent(i)
  PROVE  DeletionsKept'
<1> DEFINE x == Settled(intents[i])
           refund == Least({remainingIntentEscrow(x), lockedStorage[Owner]})
           n == x.RefundedFee + refund
           z == [x EXCEPT !.RefundedFee = n]
<1>1. intents[i] \in Intent(i) /\ x # None
  BY IntentExists DEF settleIntent, WellFormed
<1>2. /\ x \in Intent(i) /\ SameShards(intents[i], x)
      /\ x.Status = "finalized" \/ x.Status = "expired"
  BY <1>1, SettledTyped
<1>3. n \in Nat
  <2>1. remainingIntentEscrow(x) \in Nat /\ lockedStorage[Owner] \in Nat
    BY <1>2, EscrowNat, OwnerKnown DEF WellFormed, MoneyOK, AccountsTypeOK
  <2>2. refund \in Nat
    BY <2>1, LeastOfTwo
  <2>3. x.RefundedFee \in Nat
    BY <1>2 DEF Intent
  <2> HIDE DEF refund, x
  <2> QED
    BY <2>2, <2>3
<1>4. /\ intents' = [intents EXCEPT ![i] = x] \/ intents' = [intents EXCEPT ![i] = z]
      /\ UNCHANGED deleteVars /\ (late => late')
  BY DEF settleIntent
<1> HIDE DEF n, x
<1>5. z \in Intent(i) /\ SameShards(x, z) /\ z.Status = x.Status
  BY <1>2, <1>3 DEF Intent, SameShards
<1>6. SameShards(intents[i], z)
  BY <1>2, <1>5 DEF SameShards
<1> HIDE DEF z
<1>7. CASE intents' = [intents EXCEPT ![i] = x]
  BY <1>2, <1>4, <1>7, DeletionsOfOne
<1>8. CASE intents' = [intents EXCEPT ![i] = z]
  <2>1. z.Status # "deleted"
    BY <1>2, <1>5
  <2> QED
    BY <1>4, <1>5, <1>6, <1>8, <2>1, DeletionsOfOne
<1> QED
  BY <1>4, <1>7, <1>8

LEMMA RenewDealDeletions ==
  ASSUME WellFormed, DeletionsKept, NEW i \in IntentID, RenewDeal(i) \/ RenewRefused(i)
  PROVE  DeletionsKept'
<1> DEFINE e == expireGovernanceAction(intents[i])
           x == Renewed(e)
           n == x.LockedFee + RenewPrice
           k == now + x.Policy.Duration
           y == [x EXCEPT !.LockedFee = n, !.ExpiresAt = k]
<1>1. Exists(i) /\ intents[i] \in Intent(i) /\ x # None
  BY IntentExists DEF RenewDeal, RenewRefused, WellFormed
<1>2. e \in Intent(i) /\ SameShards(intents[i], e)
  BY <1>1, ExpireKeeps DEF SameShards
<1>3. x \in Intent(i) /\ SameShards(e, x) /\ x.Status = "finalized"
  BY <1>1, <1>2, RenewedTyped
<1>4. SameShards(intents[i], x)
  BY <1>2, <1>3 DEF SameShards
<1>5. n \in Nat /\ k \in Nat
  <2>1. x.LockedFee \in Nat /\ RenewPrice \in Nat
    BY <1>3, DealAssumption DEF Intent
  <2> QED
    BY <1>3, <2>1, DurationNat
<1>6. /\ intents' = [intents EXCEPT ![i] = x] \/ intents' = [intents EXCEPT ![i] = y]
      /\ UNCHANGED deleteVars /\ UNCHANGED late
  BY DEF RenewDeal, RenewRefused
<1> HIDE DEF n, k, x
<1>7. y \in Intent(i) /\ SameShards(x, y) /\ y.Status = x.Status
  BY <1>3, <1>5 DEF Intent, SameShards
<1>8. SameShards(intents[i], y)
  BY <1>4, <1>7 DEF SameShards
<1> HIDE DEF y
<1>9. CASE intents' = [intents EXCEPT ![i] = x]
  BY <1>1, <1>3, <1>4, <1>6, <1>9, DeletionsOfOne
<1>10. CASE intents' = [intents EXCEPT ![i] = y]
  BY <1>1, <1>3, <1>6, <1>7, <1>8, <1>10, DeletionsOfOne
<1> QED
  BY <1>6, <1>9, <1>10

LEMMA AutoRenewDeletions ==
  ASSUME WellFormed, DeletionsKept, autoRenewDeals
  PROVE  DeletionsKept'
<1>1. PICK S \in SUBSET {i \in IntentID : Exists(i) /\ autoRenewDue(intents[i])} :
        intents' = AutoRenewed(S)
  BY DEF autoRenewDeals, AutoRenewed
<1>2. UNCHANGED deleteVars /\ UNCHANGED late
  BY DEF autoRenewDeals
<1>3. ASSUME NEW j \in IntentID PROVE ShardsKept(j)
  <2>1. CASE j \notin S
    <3>1. intents'[j] = intents[j]
      BY <1>1, <2>1 DEF AutoRenewed
    <3> QED
      BY <3>1 DEF ShardsKept, SameShards, Exists
  <2>2. CASE j \in S
    <3> DEFINE x == intents[j]
               n == x.LockedFee + RenewPrice
               k == now + x.Policy.Duration
               y == [x EXCEPT !.LockedFee = n, !.ExpiresAt = k]
    <3>1. intents'[j] = y
      BY <1>1, <2>2 DEF AutoRenewed
    <3>2. Exists(j) /\ x \in Intent(j)
      BY <2>2, IntentExists DEF WellFormed
    <3>3. n \in Nat /\ k \in Nat
      <4>1. x.LockedFee \in Nat /\ RenewPrice \in Nat
        BY <3>2, DealAssumption DEF Intent
      <4> QED
        BY <3>2, <4>1, DurationNat
    <3> HIDE DEF n, k, x
    <3>4. y \in Intent(j) /\ SameShards(x, y) /\ y.Status = x.Status
      BY <3>2, <3>3 DEF Intent, SameShards
    <3>5. y # None
      BY <3>4, DealNone
    <3> HIDE DEF y
    <3> QED
      BY <3>1, <3>2, <3>4, <3>5 DEF ShardsKept, x
  <2> QED
    BY <2>1, <2>2
<1> QED
  BY <1>2, <1>3, DeletionsQuiet

LEMMA TopUpDeletions ==
  ASSUME WellFormed, DeletionsKept, NEW i \in IntentID, NEW amount \in Nat,
         TopUpPermanentFund(i, amount)
  PROVE  DeletionsKept'
<1> DEFINE x == intents[i]
           n == x.LockedFee + amount
           y == [x EXCEPT !.LockedFee = n]
<1>1. x \in Intent(i) /\ Exists(i)
  BY IntentExists DEF TopUpPermanentFund, WellFormed
<1>2. intents' = [intents EXCEPT ![i] = y] /\ UNCHANGED deleteVars /\ UNCHANGED late
  BY DEF TopUpPermanentFund
<1>3. n \in Nat
  BY <1>1 DEF Intent
<1> HIDE DEF n
<1>4. y \in Intent(i) /\ SameShards(x, y) /\ y.Status = x.Status
  <2> HIDE DEF x
  <2> QED
    BY <1>1, <1>3 DEF Intent, SameShards
<1> HIDE DEF y
<1> QED
  BY <1>1, <1>2, <1>4, DeletionsOfOne

LEMMA SetAccessDeletions ==
  ASSUME WellFormed, DeletionsKept, NEW i \in IntentID, NEW status \in AccessStatus,
         SetAccessPolicy(i, status)
  PROVE  DeletionsKept'
<1> DEFINE x == expireGovernanceAction(intents[i])
           y == [x EXCEPT !.AccessStatus = status]
<1>1. Exists(i) /\ intents[i] \in Intent(i)
  BY IntentExists DEF SetAccessPolicy, WellFormed
<1>2. x \in Intent(i) /\ SameShards(intents[i], x) /\ x.Status = intents[i].Status
  BY <1>1, ExpireKeeps DEF SameShards
<1>3. intents' = [intents EXCEPT ![i] = y] /\ UNCHANGED deleteVars /\ UNCHANGED late
  BY DEF SetAccessPolicy
<1> HIDE DEF x
<1>4. y \in Intent(i) /\ SameShards(x, y) /\ y.Status = x.Status
  BY <1>2 DEF Intent, SameShards, AccessStatus
<1>5. SameShards(intents[i], y)
  BY <1>2, <1>4 DEF SameShards
<1> HIDE DEF y
<1> QED
  BY <1>1, <1>2, <1>3, <1>4, <1>5, DeletionsOfOne

LEMMA PayDeletions ==
  ASSUME WellFormed, DeletionsKept, NEW i \in IntentID, Exists(i), NEW m \in Miner,
         NEW source \in {"proof", "repair"}, NEW reward \in Nat,
         payReward(i, m, source, reward), UNCHANGED deleteVars, UNCHANGED late
  PROVE  DeletionsKept'
<1> DEFINE x == intents[i]
           n == x.PaidFee + fromFees(i, reward)
           y == [x EXCEPT !.PaidFee = n]
<1>1. x \in Intent(i)
  BY IntentExists DEF WellFormed
<1>2. intents' = [intents EXCEPT ![i] = y]
  BY DEF payReward
<1>3. n \in Nat
  BY <1>1, FeesPayable DEF Intent
<1> HIDE DEF n
<1>4. y \in Intent(i) /\ SameShards(x, y) /\ y.Status = x.Status
  <2> HIDE DEF x
  <2> QED
    BY <1>1, <1>3 DEF Intent, SameShards
<1> HIDE DEF y
<1> QED
  BY <1>1, <1>2, <1>4, DeletionsOfOne

LEMMA SubmitProofDeletions ==
  ASSUME WellFormed, DeletionsKept, NEW c \in challenges, SubmitProof(c)
  PROVE  DeletionsKept'
<1> DEFINE i == c.Intent
           r == IF completeRepairTaskAfterProof(c) = {} THEN 0 ELSE RepairReward
           payable == payableStorageReward(i, Reward)
<1>1. i \in IntentID /\ Exists(i) /\ c.Miner \in Miner
  BY DEF WellFormed, WorkOK, StorageChallenge
<1>2. UNCHANGED deleteVars /\ UNCHANGED late
  BY DEF SubmitProof
<1>3. CASE c.Repair
  <2>1. payReward(i, c.Miner, "repair", r)
    BY <1>3 DEF SubmitProof
  <2>2. r \in Nat
    BY RewardAssumption
  <2> HIDE DEF i, r
  <2> QED
    BY <1>1, <1>2, <2>1, <2>2, PayDeletions
<1>4. CASE ~c.Repair
  <2>1. payReward(i, c.Miner, "proof", payable)
    BY <1>4 DEF SubmitProof
  <2> HIDE DEF i
  <2>2. payable \in Nat
    BY <1>1, PayableNat
  <2> HIDE DEF payable
  <2> QED
    BY <1>1, <1>2, <2>1, <2>2, PayDeletions
<1> QED
  BY <1>3, <1>4

\* A moderation that keeps the storage touches no shard.
LEMMA ModeratedStatus ==
  ASSUME NEW i \in IntentID, NEW x \in Intent(i), NEW until \in Nat
  PROVE  /\ Suspended(x, until).Status = x.Status /\ Blocked(x).Status = x.Status
         /\ Held(x).Status = x.Status /\ Appealed(x).Status = x.Status
<1> DEFINE e == expireGovernanceAction(x)
<1>1. e \in Intent(i) /\ e.Status = x.Status
  BY ExpireKeeps
<1> HIDE DEF e
<1>2. /\ [e EXCEPT !.AccessStatus = "blocked", !.ModerationStatus = "blocked",
                   !.ModerationExpires = 0].Status = x.Status
      /\ [e EXCEPT !.ModerationStatus = "appealed", !.ModerationExpires = 0].Status = x.Status
  BY <1>1 DEF Intent
<1>3. Suspended(x, until).Status = x.Status /\ Held(x).Status = x.Status
  BY DEF Suspended, Held, Intent
<1> QED
  BY <1>2, <1>3 DEF Blocked, Appealed, e

LEMMA ModerationDeletions ==
  ASSUME WellFormed, DeletionsKept, NEW i \in IntentID, NEW until \in Nat,
         Freeze(i, until) \/ LegalHold(i) \/ Appeal(i) \/ Block(i, TRUE)
  PROVE  DeletionsKept'
<1> DEFINE x == intents[i]
<1>1. Exists(i) /\ x \in Intent(i)
  BY IntentExists DEF Freeze, LegalHold, Appeal, Block, WellFormed
<1>2. PICK y \in {Suspended(x, until), Blocked(x), Held(x), Appealed(x)} :
        intents' = [intents EXCEPT ![i] = y] /\ UNCHANGED deleteVars /\ UNCHANGED late
  BY BlockMeans DEF Freeze, LegalHold, Appeal, Suspended, Held, Appealed
<1> HIDE DEF x
<1>3. y \in Intent(i) /\ SameShards(x, y) /\ y.Status = x.Status
  BY <1>1, <1>2, ModeratedTyped, ModeratedStatus
<1> QED
  BY <1>1, <1>2, <1>3, DeletionsOfOne DEF x

\* Marking a deal calls for a receipt of each miner that holds a shard of it.
LEMMA MarkedDeletions ==
  ASSUME WellFormed, DeletionsKept, late => late', NEW i \in IntentID, Exists(i),
         NEW x \in Intent(i), SameShards(intents[i], x), x.Status = intents[i].Status,
         ensureDeleteTasks(i, x), UNCHANGED deleteReceipts
  PROVE  DeletionsKept'
<1> DEFINE y == Marked(i, x)
<1>1. /\ intents'[i] = y /\ OthersLifted(i)
      /\ \A t \in deleteTasks' : t \in deleteTasks \/ (t.Intent = i /\ Stored(i, x) # {})
  BY EnsureForm
<1>2. /\ y \in Intent(i) /\ y.Receipts = x.Receipts
      /\ y.DeleteReceiptCount = x.DeleteReceiptCount
      /\ y.DeleteTaskCount = Cardinality(Stored(i, x))
      /\ Stored(i, x) # {} => y.Status = x.Status
  BY MarkedTyped
<1>3. y # None
  BY <1>2, DealNone
<1> HIDE DEF y
<1> SUFFICES ASSUME ~late', NEW j \in IntentID PROVE DeletionKept(j)'
  BY DEF DeletionsKept
<1>4. DeletionKept(j)
  BY DEF DeletionsKept
<1>5. KeysOf(j)' = KeysOf(j)
  BY DEF KeysOf
<1>6. CASE j # i
  <2>1. HasTasks(j)' => HasTasks(j)
    BY <1>1, <1>6 DEF HasTasks
  <2> QED
    BY <1>1, <1>4, <1>5, <1>6, <2>1, OthersShards, DeletionSame
<1>7. CASE j = i
  <2> DEFINE w == intents[i]
             H == HeldKeys(i, w)
             S == Stored(i, w)
             K == KeysOf(i)
  <2>1. /\ HasTasks(i) \/ K # {} => w.DeleteTaskCount > 0
        /\ K \subseteq H
        /\ w.DeleteTaskCount > 0 => w.DeleteTaskCount = Cardinality(S)
        /\ w.DeleteReceiptCount = Cardinality(K)
        /\ w.Status = "deleted" => H \subseteq K
    BY <1>4, <1>7 DEF DeletionKept
  <2>2. Stored(i, x) = S /\ Stored(i, y) = S /\ HeldKeys(i, y) = H
    BY <1>2 DEF SameShards, Stored, HeldKeys
  <2>3. x.DeleteReceiptCount = w.DeleteReceiptCount
    BY DEF SameShards
  <2>4. IsFiniteSet(S) /\ Cardinality(S) \in Nat /\ (S # {} => Cardinality(S) > 0)
    <3>1. IsFiniteSet(S)
      BY ShardsFinite, FS_Subset DEF Stored
    <3> HIDE DEF S
    <3> QED
      BY <3>1, FS_CardinalityType, FS_EmptySet
  <2>5. S = {} => Cardinality(S) = 0 /\ H = {}
    BY FS_EmptySet DEF HeldKeys
  <2>6. HasTasks(i)' => HasTasks(i) \/ S # {}
    BY <1>1, <2>2 DEF HasTasks
  <2>7. HasTasks(i)' \/ K # {} => S # {}
    <3>1. HasTasks(i) \/ K # {} => S # {}
      <4> HIDE DEF S, H, K, w
      <4> QED
        BY <2>1, <2>5
    <3> QED
      BY <2>6, <3>1
  <2> HIDE DEF S, H, K, w
  <2>8. /\ HasTasks(i)' \/ K # {} => y.DeleteTaskCount > 0
        /\ K \subseteq HeldKeys(i, y)
        /\ y.DeleteTaskCount > 0 => y.DeleteTaskCount = Cardinality(Stored(i, y))
        /\ y.DeleteReceiptCount = Cardinality(K)
    BY <1>2, <2>1, <2>2, <2>3, <2>4, <2>7
  <2>9. y.Status = "deleted" => HeldKeys(i, y) \subseteq K
    <3>1. CASE S = {}
      BY <2>2, <2>5, <3>1
    <3>2. CASE S # {}
      BY <1>2, <2>1, <2>2, <3>2 DEF w
    <3> QED
      BY <3>1, <3>2
  <2>10. HeldKeys(i, intents[i])' = HeldKeys(i, y) /\ Stored(i, intents[i])' = Stored(i, y)
    BY <1>1 DEF Stored, HeldKeys
  <2> QED
    BY <1>1, <1>3, <1>5, <1>7, <2>8, <2>9, <2>10 DEF DeletionKept, Exists, K
<1> QED
  BY <1>6, <1>7

LEMMA TerminateDeletions ==
  ASSUME WellFormed, DeletionsKept, NEW i \in IntentID, TerminateDeal(i)
  PROVE  DeletionsKept'
<1> DEFINE x == expireGovernanceAction(intents[i])
           burn == TerminateBurn(i, x)
           y == EndedWith(x, burn)
<1>1. /\ Exists(i) /\ x \in Intent(i) /\ y \in Intent(i)
      /\ \/ intents' = [intents EXCEPT ![i] = y] /\ UNCHANGED deleteTasks
         \/ ensureDeleteTasks(i, y)
      /\ UNCHANGED deleteReceipts /\ UNCHANGED late
  BY TerminateMeans
<1>2. intents[i] \in Intent(i)
  BY <1>1, IntentExists DEF WellFormed
<1>3. SameShards(intents[i], x) /\ x.Status = intents[i].Status
  BY <1>2, ExpireKeeps DEF SameShards
<1> HIDE DEF x
<1>4. SameShards(x, y) /\ y.Status = x.Status
  BY <1>1 DEF EndedWith, Intent, SameShards
<1>5. SameShards(intents[i], y) /\ y.Status = intents[i].Status
  BY <1>3, <1>4 DEF SameShards
<1> HIDE DEF y
<1>6. CASE intents' = [intents EXCEPT ![i] = y] /\ UNCHANGED deleteTasks
  BY <1>1, <1>5, <1>6, DeletionsOfOne DEF deleteVars
<1>7. CASE ensureDeleteTasks(i, y)
  BY <1>1, <1>5, <1>7, MarkedDeletions
<1> QED
  BY <1>1, <1>6, <1>7

LEMMA BlockDeletions ==
  ASSUME WellFormed, DeletionsKept, NEW i \in IntentID, NEW preserve \in BOOLEAN, Block(i, preserve)
  PROVE  DeletionsKept'
<1>1. CASE preserve
  BY <1>1, ModerationDeletions
<1>2. CASE ~preserve
  <2> DEFINE x == Blocked(intents[i])
             y == Closing(x, BlockBurn(i, x))
  <2>1. Exists(i) /\ x \in Intent(i) /\ Closes(i, x)
    BY <1>2, BlockMeans
  <2>2. ensureDeleteTasks(i, y) /\ UNCHANGED deleteReceipts /\ UNCHANGED late
    BY <2>1 DEF Closes, Block
  <2>3. intents[i] \in Intent(i)
    BY <2>1, IntentExists DEF WellFormed
  <2>4. SameShards(intents[i], x) /\ x.Status = intents[i].Status
    BY <2>3, ModeratedTyped, ModeratedStatus
  <2> HIDE DEF x
  <2>5. y \in Intent(i)
    BY <2>1, ClosingTyped
  <2>6. SameShards(x, y) /\ y.Status = x.Status
    BY <2>1 DEF Closing, Intent, SameShards
  <2>7. SameShards(intents[i], y) /\ y.Status = intents[i].Status
    BY <2>4, <2>6 DEF SameShards
  <2> HIDE DEF y
  <2> QED
    BY <2>1, <2>2, <2>5, <2>7, MarkedDeletions
<1> QED
  BY <1>1, <1>2

LEMMA HeldFinite ==
  ASSUME NEW i \in IntentID, NEW x
  PROVE  /\ IsFiniteSet(HeldKeys(i, x)) /\ IsFiniteSet(Stored(i, x))
         /\ Cardinality(HeldKeys(i, x)) \in Nat /\ Cardinality(Stored(i, x)) \in Nat
         /\ Cardinality(HeldKeys(i, x)) <= Cardinality(Stored(i, x))
<1> DEFINE S == Stored(i, x)
           f == [s \in S |-> <<i, HashOf[i][s], x.Receipts[s]>>]
<1>1. IsFiniteSet(S)
  BY ShardsFinite DEF Stored
<1>2. {f[s] : s \in S} = HeldKeys(i, x)
  BY DEF HeldKeys
<1> HIDE DEF f, S
<1>3. IsFiniteSet({f[s] : s \in S}) /\ Cardinality({f[s] : s \in S}) <= Cardinality(S)
  BY <1>1, ImageFinite
<1> QED
  BY <1>1, <1>2, <1>3, FS_CardinalityType DEF S

\* The last receipt is in when there are as many as there were shards to delete: two shards
\* with the same content on one miner need one receipt, so there may be fewer, never more.
LEMMA DeleteReceiptDeletions ==
  ASSUME WellFormed, DeletionsKept, NEW t \in deleteTasks, SubmitDeleteReceipt(t)
  PROVE  DeletionsKept'
<1> DEFINE i == t.Intent
           key == <<i, t.Hash, t.Miner>>
           x == expireGovernanceAction(intents[i])
           fresh == IF key \in deleteReceipts THEN 0 ELSE 1
           y == Deleting(x, fresh)
           u == [t EXCEPT !.Pending = (fresh = 0)]
<1>1. /\ t \in DeleteTask /\ i \in IntentID /\ Exists(i) /\ x \in Intent(i)
      /\ \E s \in Shards(i) : HashOf[i][s] = t.Hash /\ x.Receipts[s] = t.Miner
      /\ deleteReceipts' = deleteReceipts \cup {key}
      /\ deleteTasks' = (deleteTasks \ {t}) \cup {u}
      /\ intents' = [intents EXCEPT ![i] = y]
      /\ UNCHANGED late
  BY DeleteReceiptMeans
<1>2. fresh \in {0, 1} /\ (fresh = 0 <=> key \in deleteReceipts)
  OBVIOUS
<1>3. SameShards(intents[i], x) /\ x.Status = intents[i].Status
  <2>1. intents[i] \in Intent(i)
    BY <1>1, IntentExists DEF WellFormed
  <2> QED
    BY <1>1, <2>1, ExpireKeeps DEF SameShards
<1> HIDE DEF x, fresh
<1>4. /\ y \in Intent(i) /\ y.Receipts = x.Receipts /\ y.DeleteTaskCount = x.DeleteTaskCount
      /\ y.DeleteReceiptCount = x.DeleteReceiptCount + fresh
      /\ \/ y.Status = x.Status
         \/ x.DeleteTaskCount > 0 /\ x.DeleteReceiptCount + fresh >= x.DeleteTaskCount
  BY <1>1, <1>2, DeletingTyped
<1>5. u.Intent = i
  BY <1>1 DEF DeleteTask
<1>6. key \in HeldKeys(i, x)
  <2>1. PICK s \in Shards(i) : HashOf[i][s] = t.Hash /\ x.Receipts[s] = t.Miner
    BY <1>1
  <2>2. t.Miner # None
    BY <1>1, FileAssumption DEF DeleteTask
  <2> QED
    BY <2>1, <2>2 DEF HeldKeys, Stored
<1>7. key[1] = i
  OBVIOUS
<1> HIDE DEF y, u, key, i
<1>8. OthersLifted(i) /\ intents'[i] = y /\ y # None
  BY <1>1, <1>4, SetIsOthersLifted, DealNone
<1> SUFFICES ASSUME ~late', NEW j \in IntentID PROVE DeletionKept(j)'
  BY DEF DeletionsKept
<1>9. DeletionKept(j)
  BY <1>1 DEF DeletionsKept
<1>10. CASE j # i
  <2>1. KeysOf(j)' = KeysOf(j)
    BY <1>1, <1>7, <1>10 DEF KeysOf
  <2>2. HasTasks(j)' => HasTasks(j)
    BY <1>1, <1>5, <1>10 DEF HasTasks
  <2> QED
    BY <1>8, <1>1, <1>9, <1>10, <2>1, <2>2, OthersShards, DeletionSame
<1>11. CASE j = i
  <2> DEFINE w == intents[i]
             H == HeldKeys(i, w)
             S == Stored(i, w)
             K == KeysOf(i)
  <2>1. /\ HasTasks(i) \/ K # {} => w.DeleteTaskCount > 0
        /\ K \subseteq H
        /\ w.DeleteTaskCount > 0 => w.DeleteTaskCount = Cardinality(S)
        /\ w.DeleteReceiptCount = Cardinality(K)
        /\ w.Status = "deleted" => H \subseteq K
    BY <1>1, <1>9, <1>11 DEF DeletionKept
  <2>2. HasTasks(i)
    BY DEF HasTasks, i
  <2>3. /\ Stored(i, y) = S /\ HeldKeys(i, y) = H /\ HeldKeys(i, x) = H
        /\ y.DeleteTaskCount = w.DeleteTaskCount
        /\ y.DeleteReceiptCount = w.DeleteReceiptCount + fresh
    BY <1>3, <1>4 DEF SameShards, Stored, HeldKeys
  <2>4. KeysOf(i)' = K \cup {key} /\ (fresh = 0 <=> key \in K)
    BY <1>1, <1>2, <1>7 DEF KeysOf
  <2>5. /\ IsFiniteSet(H) /\ Cardinality(H) \in Nat /\ Cardinality(S) \in Nat
        /\ Cardinality(H) <= Cardinality(S)
    BY <1>1, HeldFinite
  <2>6. w.Status = x.Status /\ w.DeleteTaskCount = x.DeleteTaskCount
        /\ w.DeleteReceiptCount = x.DeleteReceiptCount
    BY <1>3 DEF SameShards
  <2> HIDE DEF w, H, S, K
  <2>7. IsFiniteSet(K)
    BY <2>1, <2>5, FS_Subset
  <2>8. Cardinality(K \cup {key}) = Cardinality(K) + fresh /\ IsFiniteSet(K \cup {key})
    <3>1. Cardinality(K) \in Nat
      BY <2>7, FS_CardinalityType
    <3>2. Cardinality(K \cup {key}) = (IF key \in K THEN Cardinality(K) ELSE Cardinality(K) + 1)
          /\ IsFiniteSet(K \cup {key})
      BY <2>7, FS_AddElement
    <3> QED
      BY <1>2, <2>4, <3>1, <3>2
  <2> DEFINE N == K \cup {key}
  <2>9. N \subseteq H
    BY <1>6, <2>1, <2>3
  <2>10. y.Status = "deleted" => H \subseteq N
    <3>1. CASE y.Status = x.Status
      BY <2>1, <2>6, <3>1
    <3>2. CASE x.DeleteTaskCount > 0 /\ x.DeleteReceiptCount + fresh >= x.DeleteTaskCount
      <4>1. Cardinality(N) >= Cardinality(H)
        <5>1. Cardinality(N) = x.DeleteReceiptCount + fresh /\ x.DeleteTaskCount = Cardinality(S)
          BY <2>1, <2>6, <2>8, <3>2
        <5>2. x.DeleteReceiptCount + fresh \in Nat
          BY <1>1, <1>2 DEF Intent
        <5> HIDE DEF N
        <5> QED
          BY <2>5, <3>2, <5>1, <5>2
      <4>2. IsFiniteSet(N)
        BY <2>8
      <4> HIDE DEF N
      <4>3. Cardinality(N) \in Nat /\ Cardinality(N) <= Cardinality(H)
            /\ (Cardinality(H) = Cardinality(N) => H = N)
        BY <2>5, <2>9, <4>2, FS_Subset, FS_CardinalityType
      <4> QED
        BY <2>5, <4>1, <4>3
    <3> QED
      BY <1>4, <3>1, <3>2
  <2>11. N = KeysOf(i)' /\ Cardinality(N) = Cardinality(K) + fresh
    BY <2>4, <2>8
  <2> HIDE DEF N
  <2>12. /\ y.DeleteTaskCount > 0 /\ N \subseteq HeldKeys(i, y)
         /\ y.DeleteTaskCount = Cardinality(Stored(i, y))
         /\ y.DeleteReceiptCount = Cardinality(N)
         /\ y.Status = "deleted" => HeldKeys(i, y) \subseteq N
    BY <2>1, <2>2, <2>3, <2>9, <2>10, <2>11
  <2>13. HeldKeys(i, intents[i])' = HeldKeys(i, y) /\ Stored(i, intents[i])' = Stored(i, y)
    BY <1>8 DEF Stored, HeldKeys
  <2> QED
    BY <1>8, <1>11, <2>11, <2>12, <2>13 DEF DeletionKept, Exists
<1> QED
  BY <1>10, <1>11

LEMMA DeletionsStep ==
  ASSUME WellFormed, DeletionsKept, [DealsNext]_<<accountVars, dealVars>>
  PROVE  DeletionsKept'
<1>1. ASSUME UploadStep PROVE DeletionsKept'
  BY <1>1, CreateIntentDeletions, BatchCommitLateDeletions, FinalizeDeletions, BatchCommitDeletions
     DEF UploadStep
<1>2. ASSUME TermStep PROVE DeletionsKept'
  <2>1. ASSUME NEW i \in IntentID, SettleIntent(i) \/ SettleExpiredIntents(i)
        PROVE  DeletionsKept'
    BY <2>1, SettleDeletions DEF SettleIntent, SettleExpiredIntents
  <2>2. ASSUME NEW i \in IntentID, NEW amount \in Nat \ {0}, TopUpPermanentFund(i, amount)
        PROVE  DeletionsKept'
    BY <2>2, TopUpDeletions
  <2>3. ASSUME NEW i \in IntentID, NEW status \in AccessStatus, SetAccessPolicy(i, status)
        PROVE  DeletionsKept'
    BY <2>3, SetAccessDeletions
  <2> QED
    BY <1>2, <2>1, <2>2, <2>3, AutoRenewDeletions, RenewDealDeletions DEF TermStep
<1>3. ASSUME ProofStep PROVE DeletionsKept'
  <2>1. ASSUME NEW i \in IntentID, NEW s \in Shards(i), CreateChallenge(i, s)
        PROVE  DeletionsKept'
    BY <2>1, DeletionsUntouched DEF CreateChallenge
  <2>2. ASSUME NEW c \in challenges, MissedProof(c) PROVE DeletionsKept'
    BY <2>2, DeletionsUntouched DEF MissedProof
  <2>3. ASSUME NEW i \in IntentID, NEW unavailable \in SUBSET Miner, NEW includeMissing \in BOOLEAN,
               CreateRepairTasks(i, unavailable, includeMissing)
        PROVE  DeletionsKept'
    BY <2>3, DeletionsUntouched DEF CreateRepairTasks
  <2> QED
    BY <1>3, <2>1, <2>2, <2>3, SubmitProofDeletions DEF ProofStep
<1>4. ASSUME NEW t \in deleteTasks, SubmitDeleteReceipt(t) PROVE DeletionsKept'
  BY <1>4, DeleteReceiptDeletions
<1>5. ASSUME ModerationStep PROVE DeletionsKept'
  <2>1. ASSUME NEW i \in IntentID, LegalHold(i) \/ Appeal(i) PROVE DeletionsKept'
    BY <2>1, 0 \in Nat, ModerationDeletions
  <2> QED
    BY <1>5, <2>1, ModerationDeletions, BlockDeletions DEF ModerationStep
<1>6. ASSUME NEW i \in IntentID, TerminateDeal(i) PROVE DeletionsKept'
  BY <1>6, TerminateDeletions
<1>7. ASSUME NextBlock /\ UNCHANGED dealVars PROVE DeletionsKept'
  BY <1>7, DeletionsUntouched DEF dealVars, deleteVars
<1>8. ASSUME UNCHANGED <<accountVars, dealVars>> PROVE DeletionsKept'
  BY <1>8, DeletionsUntouched DEF dealVars, deleteVars
<1> QED
  BY <1>1, <1>2, <1>3, <1>4, <1>5, <1>6, <1>7, <1>8 DEF DealsNext, DealStep

LEMMA DeletionsInit ==
  ASSUME DealsInit
  PROVE  DeletionsKept
<1>1. \A i \in IntentID : ~Exists(i) /\ KeysOf(i) = {}
  BY DEF DealsInit, Exists, KeysOf
<1> QED
  BY <1>1 DEF DeletionsKept, DeletionKept

\* A deal counts as deleted only when each miner that holds a shard of it has given its delete
\* receipt, whatever was marked, appealed, held and marked again in between; the exception is a
\* file that went on being uploaded after its end (lifecycle.go ensureDeleteTasks,
\* SubmitDeleteReceipt).
THEOREM DeletedIsDeleted == DealsSpec => []DeletedEverywhere
<1>1. AccountsInit /\ DealsInit => WellFormed /\ DeletionsKept
  BY InitForm, DeletionsInit
<1>2. WellFormed /\ DeletionsKept /\ [DealsNext]_<<accountVars, dealVars>>
        => (WellFormed /\ DeletionsKept)'
  BY DealsKeepForm, StutterForm, DeletionsStep
<1>3. WellFormed /\ DeletionsKept => DeletedEverywhere
  <2> SUFFICES ASSUME DeletionsKept, ~late, NEW i \in Live, intents[i].Status = "deleted",
                      NEW s \in Shards(i), intents[i].Receipts[s] # None
               PROVE  <<i, HashOf[i][s], intents[i].Receipts[s]>> \in deleteReceipts
    BY DEF DeletedEverywhere
  <2>1. HeldKeys(i, intents[i]) \subseteq KeysOf(i)
    BY DEF DeletionsKept, DeletionKept, Live
  <2> QED
    BY <2>1 DEF HeldKeys, Stored, KeysOf
<1> QED
  BY <1>1, <1>2, <1>3, PTL DEF DealsSpec

-----------------------------------------------------------------------------
(***************************************************************************)
(* What is moderated is on the blacklist                                   *)
(***************************************************************************)
\* No other deal has content in common with it.
Alone(i) == \A j \in Live \ {i} : hashesOf(j) \cap hashesOf(i) = {}

\* The entries of a deal's content end with its moderation.
Listed(i, x, list) ==
  \/ x.ModerationStatus \in {"none", "appealed"}
  \/ /\ x.ModerationStatus = "frozen" \/ x.ModerationExpires = 0
     /\ \A h \in hashesOf(i) : list[h] = x.ModerationExpires

ModerationKept == \A i \in Live : Alone(i) => Listed(i, intents[i], blacklist)

SameModeration(x, y) ==
  \/ y.ModerationStatus = "none"
  \/ y.ModerationStatus = x.ModerationStatus /\ y.ModerationExpires = x.ModerationExpires

ModerationOf(j) ==
  intents'[j] # None =>
    IF Exists(j) THEN SameModeration(intents[j], intents'[j]) ELSE intents'[j].ModerationStatus = "none"

LEMMA SameListed ==
  ASSUME NEW i, NEW x, NEW y, NEW list, Listed(i, x, list), SameModeration(x, y)
  PROVE  Listed(i, y, list)
BY DEF Listed, SameModeration

LEMMA StillAlone ==
  ASSUME Lasting, NEW i \in IntentID, Alone(i)'
  PROVE  Alone(i)
<1>1. \A j \in Live : j \in Live'
  BY DEF Live, Lasting, Exists
<1> QED
  BY <1>1 DEF Alone, hashesOf

LEMMA ModerationQuiet ==
  ASSUME ModerationKept, Lasting, \A j \in IntentID : ModerationOf(j), UNCHANGED blacklist
  PROVE  ModerationKept'
<1> SUFFICES ASSUME NEW i \in IntentID, intents'[i] # None, Alone(i)'
             PROVE  Listed(i, intents'[i], blacklist')
  BY DEF ModerationKept, Live, Exists
<1>1. Alone(i)
  BY StillAlone
<1>2. CASE Exists(i)
  BY <1>1, <1>2, SameListed DEF ModerationOf, ModerationKept, Live
<1>3. CASE ~Exists(i)
  BY <1>3 DEF ModerationOf, Listed
<1> QED
  BY <1>2, <1>3

LEMMA ModerationUntouched ==
  ASSUME ModerationKept, UNCHANGED intents, UNCHANGED blacklist
  PROVE  ModerationKept'
<1>1. Lasting /\ \A j \in IntentID : ModerationOf(j)
  BY DEF Lasting, ModerationOf, SameModeration, Exists
<1> QED
  BY <1>1, ModerationQuiet

LEMMA ExpireModeration ==
  ASSUME NEW i \in IntentID, NEW x \in Intent(i)
  PROVE  SameModeration(x, expireGovernanceAction(x))
<1> DEFINE d == defaultAccessStatus(x)
<1> HIDE DEF d
<1>1. [x EXCEPT !.ModerationStatus = "none", !.ModerationExpires = 0, !.AccessStatus = d].ModerationStatus
        = "none"
  BY DEF Intent
<1> QED
  BY <1>1 DEF expireGovernanceAction, SameModeration, d

LEMMA OthersModeration ==
  ASSUME WellFormed, NEW i \in IntentID, OthersLifted(i)
  PROVE  \A j \in IntentID \ {i} : ModerationOf(j)
<1> SUFFICES ASSUME NEW j \in IntentID \ {i} PROVE ModerationOf(j)
  OBVIOUS
<1>1. CASE intents'[j] = intents[j]
  BY <1>1 DEF ModerationOf, SameModeration, Exists
<1>2. CASE Exists(j) /\ intents'[j] = expireGovernanceAction(intents[j])
  <2>1. intents[j] \in Intent(j)
    BY <1>2, IntentExists DEF WellFormed
  <2> QED
    BY <1>2, <2>1, ExpireModeration DEF ModerationOf
<1> QED
  BY <1>1, <1>2 DEF OthersLifted

LEMMA ModerationOfOne ==
  ASSUME WellFormed, ModerationKept, Lasting, NEW i \in IntentID, Exists(i), NEW y,
         intents' = [intents EXCEPT ![i] = y] \/ (intents'[i] = y /\ OthersLifted(i)),
         SameModeration(intents[i], y), UNCHANGED blacklist
  PROVE  ModerationKept'
<1>1. OthersLifted(i) /\ intents'[i] = y
  BY SetIsOthersLifted
<1>2. ModerationOf(i)
  BY <1>1 DEF ModerationOf
<1> QED
  BY <1>1, <1>2, OthersModeration, ModerationQuiet

\* A moderation lists the content of one deal only.
LEMMA ModerationActs ==
  ASSUME WellFormed, ModerationKept, Lasting, NEW i \in IntentID, Exists(i), NEW y,
         intents' = [intents EXCEPT ![i] = y] \/ (intents'[i] = y /\ OthersLifted(i)),
         Listed(i, y, blacklist'), \A h \in Hash \ hashesOf(i) : blacklist'[h] = blacklist[h]
  PROVE  ModerationKept'
<1>1. OthersLifted(i) /\ intents'[i] = y
  BY SetIsOthersLifted
<1> SUFFICES ASSUME NEW j \in IntentID, intents'[j] # None, Alone(j)'
             PROVE  Listed(j, intents'[j], blacklist')
  BY DEF ModerationKept, Live, Exists
<1>2. Alone(j)
  BY StillAlone
<1>3. CASE j = i
  BY <1>1, <1>3
<1>4. CASE j # i
  <2>1. ModerationOf(j)
    BY <1>1, <1>4, OthersModeration
  <2>2. CASE ~Exists(j)
    BY <2>1, <2>2 DEF ModerationOf, Listed
  <2>3. CASE Exists(j)
    <3>1. Listed(j, intents'[j], blacklist)
      BY <1>2, <2>1, <2>3, SameListed DEF ModerationOf, ModerationKept, Live
    <3>2. \A h \in hashesOf(j) : h \in Hash \ hashesOf(i)
      <4>1. hashesOf(i) \cap hashesOf(j) = {}
        BY <1>2, <1>4 DEF Alone, Live
      <4>2. hashesOf(j) \subseteq Hash
        BY FileAssumption DEF hashesOf
      <4> QED
        BY <4>1, <4>2
    <3>3. \A h \in hashesOf(j) : blacklist'[h] = blacklist[h]
      BY <3>2
    <3> QED
      BY <3>1, <3>3 DEF Listed
  <2> QED
    BY <2>2, <2>3
<1> QED
  BY <1>3, <1>4

LEMMA CreateIntentModeration ==
  ASSUME WellFormed, ModerationKept, Lasting, NEW i \in IntentID, CreateIntent(i)
  PROVE  ModerationKept'
<1>1. PICK f \in buildStorageAssignments(i), p \in Policies[i] :
       intents' = [intents EXCEPT ![i] = NewIntent(i, f, p)]
  BY CreateMeans
<1>2. OthersLifted(i) /\ intents'[i] = NewIntent(i, f, p)
  BY <1>1, SetIsOthersLifted
<1>3. ~Exists(i) /\ UNCHANGED blacklist
  BY DEF CreateIntent
<1>4. ModerationOf(i)
  BY <1>2, <1>3 DEF ModerationOf, NewIntent
<1> QED
  BY <1>2, <1>3, <1>4, OthersModeration, ModerationQuiet

LEMMA BatchCommitModeration ==
  ASSUME WellFormed, ModerationKept, Lasting, NEW i \in IntentID, NEW s \in Shards(i), NEW m \in Miner,
         BatchCommit(i, s, m)
  PROVE  ModerationKept'
<1> DEFINE x == intents[i]
           tasks == IF x.Receipts[s] = m THEN {} ELSE pendingRepairTask(i, s, m)
           holder == IF tasks = {} THEN x.Assignments[s] ELSE m
           y == [x EXCEPT !.Receipts[s] = m, !.Status = "partial", !.Assignments[s] = holder]
<1>1. x \in Intent(i) /\ Exists(i)
  BY IntentExists DEF BatchCommit, WellFormed
<1>2. intents' = [intents EXCEPT ![i] = y] /\ UNCHANGED blacklist
  BY DEF BatchCommit
<1> HIDE DEF holder
<1>3. SameModeration(x, y)
  <2> HIDE DEF x
  <2> QED
    BY <1>1 DEF Intent, SameModeration
<1> HIDE DEF y
<1> QED
  BY <1>1, <1>2, <1>3, ModerationOfOne

LEMMA UploadModeration ==
  ASSUME WellFormed, ModerationKept, Lasting, NEW i \in IntentID, BatchCommitLate(i) \/ Finalize(i)
  PROVE  ModerationKept'
<1> DEFINE x == intents[i]
<1>1. x \in Intent(i) /\ Exists(i) /\ UNCHANGED blacklist
  BY IntentExists DEF BatchCommitLate, Finalize, WellFormed
<1>2. CASE BatchCommitLate(i)
  <2> DEFINE y == [x EXCEPT !.Status = "expired"]
  <2>1. intents' = [intents EXCEPT ![i] = y]
    BY <1>2 DEF BatchCommitLate
  <2>2. SameModeration(x, y)
    <3> HIDE DEF x
    <3> QED
      BY <1>1 DEF Intent, SameModeration
  <2> QED
    BY <1>1, <2>1, <2>2, ModerationOfOne
<1>3. CASE Finalize(i)
  <2> DEFINE w == Made(x)
             y == IF w.BurnDeferred THEN SplitOf(w) ELSE w
  <2>1. intents' = [intents EXCEPT ![i] = y]
    BY <1>3 DEF Finalize, Made, executeDeferredBurn, SplitOf
  <2>2. w \in Intent(i)
    BY <1>1, MadeTyped
  <2>3. w.ModerationStatus = "none"
    BY <1>1 DEF Made, Intent
  <2> HIDE DEF w
  <2>4. SplitOf(w).ModerationStatus = "none"
    BY <2>2, <2>3 DEF SplitOf, Intent
  <2>5. SameModeration(x, y)
    BY <2>3, <2>4 DEF SameModeration
  <2> HIDE DEF y
  <2> QED
    BY <1>1, <2>1, <2>5, ModerationOfOne
<1> QED
  BY <1>2, <1>3

LEMMA SettleModeration ==
  ASSUME WellFormed, ModerationKept, Lasting, NEW i \in IntentID, Exists(i), settleIntent(i)
  PROVE  ModerationKept'
<1> DEFINE w == intents[i]
           x == Settled(w)
           n == x.RefundedFee + Least({remainingIntentEscrow(x), lockedStorage[Owner]})
           z == [x EXCEPT !.RefundedFee = n]
<1>1. w \in Intent(i) /\ x # None
  BY IntentExists DEF settleIntent, WellFormed
<1>2. x \in Intent(i)
  BY <1>1, SettledTyped
<1>3. x.ModerationStatus = w.ModerationStatus /\ x.ModerationExpires = w.ModerationExpires
  <2> DEFINE y1 == [w EXCEPT !.Status = "expired", !.StorageStatus = "expired",
                             !.AccessStatus = "suspended"]
             y2 == [w EXCEPT !.AccessStatus = "suspended"]
  <2>1. x \in {y1, y2, w}
    BY <1>1 DEF Settled
  <2> HIDE DEF w, x
  <2>2. /\ y1.ModerationStatus = w.ModerationStatus /\ y1.ModerationExpires = w.ModerationExpires
        /\ y2.ModerationStatus = w.ModerationStatus /\ y2.ModerationExpires = w.ModerationExpires
    BY <1>1 DEF Intent
  <2> HIDE DEF y1, y2
  <2> QED
    BY <2>1, <2>2
<1>4. /\ intents' = [intents EXCEPT ![i] = x] \/ intents' = [intents EXCEPT ![i] = z]
      /\ UNCHANGED blacklist
  BY DEF settleIntent
<1> HIDE DEF n, x
<1>5. z.ModerationStatus = x.ModerationStatus /\ z.ModerationExpires = x.ModerationExpires
  BY <1>2 DEF Intent
<1>6. SameModeration(w, x) /\ SameModeration(w, z)
  BY <1>3, <1>5 DEF SameModeration
<1> HIDE DEF z
<1> QED
  BY <1>4, <1>6, ModerationOfOne

LEMMA RenewModeration ==
  ASSUME WellFormed, ModerationKept, Lasting, NEW i \in IntentID, RenewDeal(i) \/ RenewRefused(i)
  PROVE  ModerationKept'
<1> DEFINE e == expireGovernanceAction(intents[i])
           x == Renewed(e)
           n == x.LockedFee + RenewPrice
           k == now + x.Policy.Duration
           y == [x EXCEPT !.LockedFee = n, !.ExpiresAt = k]
<1>1. Exists(i) /\ intents[i] \in Intent(i) /\ x # None
  BY IntentExists DEF RenewDeal, RenewRefused, WellFormed
<1>2. e \in Intent(i) /\ SameModeration(intents[i], e)
  BY <1>1, ExpireKeeps, ExpireModeration
<1>3. x \in Intent(i)
  BY <1>1, <1>2, RenewedTyped
<1>4. /\ intents' = [intents EXCEPT ![i] = x] \/ intents' = [intents EXCEPT ![i] = y]
      /\ UNCHANGED blacklist
  BY DEF RenewDeal, RenewRefused
<1> HIDE DEF e
<1>5. x.ModerationStatus = e.ModerationStatus /\ x.ModerationExpires = e.ModerationExpires
  <2> DEFINE a == [e EXCEPT !.Status = "finalized", !.StorageStatus = "active"]
  <2>1. x \in {a, e}
    BY <1>1 DEF Renewed
  <2>2. a.ModerationStatus = e.ModerationStatus /\ a.ModerationExpires = e.ModerationExpires
    BY <1>2 DEF Intent
  <2> HIDE DEF a, x
  <2> QED
    BY <2>1, <2>2
<1> HIDE DEF n, k, x
<1>6. y.ModerationStatus = x.ModerationStatus /\ y.ModerationExpires = x.ModerationExpires
  BY <1>3 DEF Intent
<1>7. SameModeration(intents[i], x) /\ SameModeration(intents[i], y)
  BY <1>2, <1>5, <1>6 DEF SameModeration
<1> HIDE DEF y
<1> QED
  BY <1>1, <1>4, <1>7, ModerationOfOne

LEMMA AutoRenewModeration ==
  ASSUME WellFormed, ModerationKept, Lasting, autoRenewDeals
  PROVE  ModerationKept'
<1>1. PICK S \in SUBSET {i \in IntentID : Exists(i) /\ autoRenewDue(intents[i])} :
        intents' = AutoRenewed(S)
  BY DEF autoRenewDeals, AutoRenewed
<1>2. UNCHANGED blacklist
  BY DEF autoRenewDeals
<1>3. ASSUME NEW j \in IntentID PROVE ModerationOf(j)
  <2>1. CASE j \notin S
    <3>1. intents'[j] = intents[j]
      BY <1>1, <2>1 DEF AutoRenewed
    <3> QED
      BY <3>1 DEF ModerationOf, SameModeration, Exists
  <2>2. CASE j \in S
    <3> DEFINE x == intents[j]
               n == x.LockedFee + RenewPrice
               k == now + x.Policy.Duration
               y == [x EXCEPT !.LockedFee = n, !.ExpiresAt = k]
    <3>1. intents'[j] = y
      BY <1>1, <2>2 DEF AutoRenewed
    <3>2. Exists(j) /\ x \in Intent(j)
      BY <2>2, IntentExists DEF WellFormed
    <3> HIDE DEF n, k, x
    <3>3. SameModeration(x, y)
      BY <3>2 DEF Intent, SameModeration
    <3> HIDE DEF y
    <3> QED
      BY <3>1, <3>2, <3>3 DEF ModerationOf, x
  <2> QED
    BY <2>1, <2>2
<1> QED
  BY <1>2, <1>3, ModerationQuiet

LEMMA FieldsModeration ==
  ASSUME WellFormed, ModerationKept, Lasting, NEW i \in IntentID, NEW amount \in Nat,
         NEW status \in AccessStatus, TopUpPermanentFund(i, amount) \/ SetAccessPolicy(i, status)
  PROVE  ModerationKept'
<1> DEFINE x == intents[i]
           e == expireGovernanceAction(x)
           n == x.LockedFee + amount
           y == [x EXCEPT !.LockedFee = n]
           z == [e EXCEPT !.AccessStatus = status]
<1>1. x \in Intent(i) /\ Exists(i)
  BY IntentExists DEF TopUpPermanentFund, SetAccessPolicy, WellFormed
<1>2. /\ intents' = [intents EXCEPT ![i] = y] \/ intents' = [intents EXCEPT ![i] = z]
      /\ UNCHANGED blacklist
  BY DEF TopUpPermanentFund, SetAccessPolicy
<1>3. e \in Intent(i) /\ SameModeration(x, e)
  BY <1>1, ExpireKeeps, ExpireModeration
<1> HIDE DEF e, n
<1>4. SameModeration(x, z)
  <2>1. z.ModerationStatus = e.ModerationStatus /\ z.ModerationExpires = e.ModerationExpires
    BY <1>3 DEF Intent
  <2> HIDE DEF z
  <2> QED
    BY <1>3, <2>1 DEF SameModeration
<1>5. SameModeration(x, y)
  <2> HIDE DEF x
  <2> QED
    BY <1>1 DEF Intent, SameModeration
<1> HIDE DEF y, z
<1> QED
  BY <1>1, <1>2, <1>4, <1>5, ModerationOfOne

LEMMA SubmitProofModeration ==
  ASSUME WellFormed, ModerationKept, Lasting, NEW c \in challenges, SubmitProof(c)
  PROVE  ModerationKept'
<1> DEFINE i == c.Intent
           x == intents[i]
<1>1. i \in IntentID /\ Exists(i)
  BY DEF WellFormed, WorkOK, StorageChallenge
<1>2. x \in Intent(i)
  BY <1>1, IntentExists DEF WellFormed
<1>3. \E n : intents' = [intents EXCEPT ![i] = [x EXCEPT !.PaidFee = n]] /\ UNCHANGED blacklist
  BY DEF SubmitProof, payReward
<1>4. PICK n : intents' = [intents EXCEPT ![i] = [x EXCEPT !.PaidFee = n]] /\ UNCHANGED blacklist
  BY <1>3
<1> DEFINE y == [x EXCEPT !.PaidFee = n]
<1>5. SameModeration(x, y)
  <2> HIDE DEF x
  <2> QED
    BY <1>2 DEF Intent, SameModeration
<1> HIDE DEF y, i
<1> QED
  BY <1>1, <1>4, <1>5, ModerationOfOne DEF y

LEMMA EndModeration ==
  ASSUME WellFormed, ModerationKept, Lasting, NEW i \in IntentID, TerminateDeal(i)
  PROVE  ModerationKept'
<1> DEFINE x == expireGovernanceAction(intents[i])
           burn == TerminateBurn(i, x)
           y == EndedWith(x, burn)
<1>1. /\ Exists(i) /\ x \in Intent(i) /\ y \in Intent(i)
      /\ \/ intents' = [intents EXCEPT ![i] = y] /\ UNCHANGED deleteTasks
         \/ ensureDeleteTasks(i, y)
      /\ UNCHANGED blacklist
  BY TerminateMeans
<1>2. SameModeration(intents[i], x)
  BY <1>1, IntentExists, ExpireModeration DEF WellFormed
<1> HIDE DEF x, burn
<1>3. y.ModerationStatus = x.ModerationStatus /\ y.ModerationExpires = x.ModerationExpires
  BY <1>1 DEF EndedWith, Intent
<1>4. SameModeration(intents[i], y)
  BY <1>2, <1>3 DEF SameModeration
<1> HIDE DEF y
<1>5. CASE intents' = [intents EXCEPT ![i] = y]
  BY <1>1, <1>4, <1>5, ModerationOfOne
<1>6. CASE ensureDeleteTasks(i, y)
  <2> DEFINE z == Marked(i, y)
  <2>1. intents'[i] = z /\ OthersLifted(i)
    BY <1>1, <1>6, EnsureForm
  <2>2. z.ModerationStatus = y.ModerationStatus /\ z.ModerationExpires = y.ModerationExpires
    BY <1>1, MarkedTyped
  <2> HIDE DEF z
  <2>3. SameModeration(intents[i], z)
    BY <1>4, <2>2 DEF SameModeration
  <2> QED
    BY <1>1, <2>1, <2>3, ModerationOfOne
<1> QED
  BY <1>1, <1>5, <1>6

LEMMA DeleteReceiptModeration ==
  ASSUME WellFormed, ModerationKept, Lasting, NEW t \in deleteTasks, SubmitDeleteReceipt(t)
  PROVE  ModerationKept'
<1> DEFINE i == t.Intent
           x == expireGovernanceAction(intents[i])
           fresh == IF <<i, t.Hash, t.Miner>> \in deleteReceipts THEN 0 ELSE 1
           y == Deleting(x, fresh)
<1>1. /\ i \in IntentID /\ Exists(i) /\ x \in Intent(i)
      /\ intents' = [intents EXCEPT ![i] = y] /\ UNCHANGED blacklist
  BY DeleteReceiptMeans
<1>2. fresh \in {0, 1}
  OBVIOUS
<1>3. SameModeration(intents[i], x)
  BY <1>1, IntentExists, ExpireModeration DEF WellFormed
<1> HIDE DEF x, fresh, i
<1>4. y.ModerationStatus = x.ModerationStatus /\ y.ModerationExpires = x.ModerationExpires
  BY <1>1, <1>2, DeletingTyped
<1>5. SameModeration(intents[i], y)
  BY <1>3, <1>4 DEF SameModeration
<1> HIDE DEF y
<1> QED
  BY <1>1, <1>5, ModerationOfOne

LEMMA ModeratedFields ==
  ASSUME NEW i \in IntentID, NEW x \in Intent(i), NEW until \in Nat
  PROVE  /\ Suspended(x, until).ModerationStatus = "frozen"
         /\ Suspended(x, until).ModerationExpires = until
         /\ Blocked(x).ModerationStatus = "blocked" /\ Blocked(x).ModerationExpires = 0
         /\ Held(x).ModerationStatus = "legal_hold" /\ Held(x).ModerationExpires = 0
         /\ Appealed(x).ModerationStatus = "appealed"
<1> DEFINE e == expireGovernanceAction(x)
<1>1. e \in Intent(i)
  BY ExpireKeeps
<1> HIDE DEF e
<1> DEFINE b == [e EXCEPT !.AccessStatus = "blocked", !.ModerationStatus = "blocked", !.ModerationExpires = 0]
           a == [e EXCEPT !.ModerationStatus = "appealed", !.ModerationExpires = 0]
<1>2. b.ModerationStatus = "blocked" /\ b.ModerationExpires = 0 /\ a.ModerationStatus = "appealed"
  BY <1>1 DEF Intent
<1>3. Blocked(x) = b /\ Appealed(x) = a
  BY DEF Blocked, Appealed, e
<1> HIDE DEF a, b
<1>4. /\ Suspended(x, until).ModerationStatus = "frozen"
      /\ Suspended(x, until).ModerationExpires = until
      /\ Held(x).ModerationStatus = "legal_hold" /\ Held(x).ModerationExpires = 0
  BY DEF Suspended, Held, Intent
<1> QED
  BY <1>2, <1>3, <1>4

LEMMA ListedUntil ==
  ASSUME NEW i \in IntentID, NEW until, addBlacklistForIntent(i, until)
  PROVE  /\ \A h \in hashesOf(i) : blacklist'[h] = until
         /\ \A h \in Hash \ hashesOf(i) : blacklist'[h] = blacklist[h]
<1>1. hashesOf(i) \subseteq Hash
  BY FileAssumption DEF hashesOf
<1> QED
  BY <1>1 DEF addBlacklistForIntent

LEMMA ActModeration ==
  ASSUME WellFormed, ModerationKept, Lasting, NEW i \in IntentID, NEW until \in Nat,
         Freeze(i, until) \/ LegalHold(i) \/ Appeal(i)
  PROVE  ModerationKept'
<1> DEFINE x == intents[i]
<1>1. Exists(i) /\ x \in Intent(i)
  BY IntentExists DEF Freeze, LegalHold, Appeal, WellFormed
<1>2. CASE Freeze(i, until)
  <2> DEFINE y == Suspended(x, until)
  <2>1. intents' = [intents EXCEPT ![i] = y] /\ addBlacklistForIntent(i, until)
    BY <1>2 DEF Freeze, Suspended
  <2>2. y.ModerationStatus = "frozen" /\ y.ModerationExpires = until
    BY <1>1, ModeratedFields
  <2> HIDE DEF y
  <2>3. Listed(i, y, blacklist')
    BY <2>1, <2>2, ListedUntil DEF Listed
  <2> QED
    BY <1>1, <2>1, <2>3, ListedUntil, ModerationActs
<1>3. CASE LegalHold(i)
  <2> DEFINE y == Held(x)
  <2>1. intents' = [intents EXCEPT ![i] = y] /\ addBlacklistForIntent(i, 0)
    BY <1>3 DEF LegalHold, Held
  <2>2. y.ModerationExpires = 0
    BY <1>1, ModeratedFields
  <2> HIDE DEF y
  <2>3. Listed(i, y, blacklist')
    BY <2>1, <2>2, ListedUntil DEF Listed
  <2> QED
    BY <1>1, <2>1, <2>3, ListedUntil, ModerationActs
<1>4. CASE Appeal(i)
  <2> DEFINE y == Appealed(x)
  <2>1. intents' = [intents EXCEPT ![i] = y] /\ removeBlacklistForIntent(i)
    BY <1>4 DEF Appeal, Appealed
  <2>2. y.ModerationStatus = "appealed"
    BY <1>1, ModeratedFields
  <2> HIDE DEF y
  <2>3. Listed(i, y, blacklist')
    BY <2>2 DEF Listed
  <2>4. \A h \in Hash \ hashesOf(i) : blacklist'[h] = blacklist[h]
    BY <2>1 DEF removeBlacklistForIntent
  <2> QED
    BY <1>1, <2>1, <2>3, <2>4, ModerationActs
<1> QED
  BY <1>2, <1>3, <1>4

LEMMA BlockModeration ==
  ASSUME WellFormed, ModerationKept, Lasting, NEW i \in IntentID, NEW preserve \in BOOLEAN,
         Block(i, preserve)
  PROVE  ModerationKept'
<1> DEFINE x == Blocked(intents[i])
           burn == BlockBurn(i, x)
           y == Closing(x, burn)
           z == Marked(i, y)
<1>1. Exists(i) /\ x \in Intent(i) /\ addBlacklistForIntent(i, 0) /\ intents[i] \in Intent(i)
  BY BlockMeans, IntentExists DEF WellFormed
<1>2. x.ModerationExpires = 0
  BY <1>1, ModeratedFields
<1>3. /\ preserve => intents' = [intents EXCEPT ![i] = x]
      /\ ~preserve => ensureDeleteTasks(i, y)
  BY BlockMeans DEF Closes
<1>4. y \in Intent(i)
  BY <1>1, ClosingTyped
<1> HIDE DEF x, burn
<1>5. y.ModerationExpires = 0
  BY <1>1, <1>2 DEF Closing, Intent
<1> HIDE DEF y
<1>6. z.ModerationExpires = 0
  BY <1>4, <1>5, MarkedTyped
<1>7. ~preserve => intents'[i] = z /\ OthersLifted(i)
  BY <1>1, <1>3, <1>4, EnsureForm
<1> HIDE DEF z
<1>8. Listed(i, x, blacklist') /\ Listed(i, z, blacklist')
  BY <1>1, <1>2, <1>6, ListedUntil DEF Listed
<1> QED
  BY <1>1, <1>3, <1>7, <1>8, ListedUntil, ModerationActs

LEMMA ModerationIsKept ==
  ASSUME WellFormed, ModerationKept, [DealsNext]_<<accountVars, dealVars>>
  PROVE  ModerationKept'
<1>0. Lasting
  BY DealsKeepForm
<1>1. ASSUME UploadStep PROVE ModerationKept'
  BY <1>0, <1>1, CreateIntentModeration, UploadModeration, BatchCommitModeration DEF UploadStep
<1>2. ASSUME TermStep PROVE ModerationKept'
  <2>1. ASSUME NEW i \in IntentID, SettleIntent(i) \/ SettleExpiredIntents(i)
        PROVE  ModerationKept'
    BY <1>0, <2>1, SettleModeration DEF SettleIntent, SettleExpiredIntents
  <2>2. ASSUME NEW i \in IntentID, NEW amount \in Nat \ {0}, TopUpPermanentFund(i, amount)
        PROVE  ModerationKept'
    <3>1. "public" \in AccessStatus
      BY DEF AccessStatus
    <3> QED
      BY <1>0, <2>2, <3>1, FieldsModeration
  <2>3. ASSUME NEW i \in IntentID, NEW status \in AccessStatus, SetAccessPolicy(i, status)
        PROVE  ModerationKept'
    BY <1>0, <2>3, 0 \in Nat, FieldsModeration
  <2> QED
    BY <1>0, <1>2, <2>1, <2>2, <2>3, AutoRenewModeration, RenewModeration DEF TermStep
<1>3. ASSUME ProofStep PROVE ModerationKept'
  <2>1. ASSUME NEW i \in IntentID, NEW s \in Shards(i), CreateChallenge(i, s)
        PROVE  ModerationKept'
    BY <2>1, ModerationUntouched DEF CreateChallenge
  <2>2. ASSUME NEW c \in challenges, MissedProof(c) PROVE ModerationKept'
    BY <2>2, ModerationUntouched DEF MissedProof
  <2>3. ASSUME NEW i \in IntentID, NEW unavailable \in SUBSET Miner, NEW includeMissing \in BOOLEAN,
               CreateRepairTasks(i, unavailable, includeMissing)
        PROVE  ModerationKept'
    BY <2>3, ModerationUntouched DEF CreateRepairTasks
  <2> QED
    BY <1>0, <1>3, <2>1, <2>2, <2>3, SubmitProofModeration DEF ProofStep
<1>4. ASSUME NEW t \in deleteTasks, SubmitDeleteReceipt(t) PROVE ModerationKept'
  BY <1>0, <1>4, DeleteReceiptModeration
<1>5. ASSUME ModerationStep PROVE ModerationKept'
  <2>1. ASSUME NEW i \in IntentID, LegalHold(i) \/ Appeal(i) PROVE ModerationKept'
    BY <1>0, <2>1, 0 \in Nat, ActModeration
  <2> QED
    BY <1>0, <1>5, <2>1, ActModeration, BlockModeration DEF ModerationStep
<1>6. ASSUME NEW i \in IntentID, TerminateDeal(i) PROVE ModerationKept'
  BY <1>0, <1>6, EndModeration
<1>7. ASSUME NextBlock /\ UNCHANGED dealVars PROVE ModerationKept'
  BY <1>7, ModerationUntouched DEF dealVars
<1>8. ASSUME UNCHANGED <<accountVars, dealVars>> PROVE ModerationKept'
  BY <1>8, ModerationUntouched DEF dealVars
<1> QED
  BY <1>1, <1>2, <1>3, <1>4, <1>5, <1>6, <1>7, <1>8 DEF DealsNext, DealStep

\* While governance blocks, holds or freezes a deal its content is on the blacklist, through
\* access changes, renewals, uploads, terminations and the lifting of freezes that are over
\* (lifecycle.go governanceDealActionLocked, expireGovernanceActionLocked).
THEOREM ModerationLasts == DealsSpec => []ModerationHolds
<1>1. AccountsInit /\ DealsInit => WellFormed /\ ModerationKept
  <2>1. DealsInit => ModerationKept
    BY DEF DealsInit, ModerationKept, Live, Exists
  <2> QED
    BY <2>1, InitForm
<1>2. WellFormed /\ ModerationKept /\ [DealsNext]_<<accountVars, dealVars>>
        => (WellFormed /\ ModerationKept)'
  BY DealsKeepForm, ModerationIsKept
<1>3. WellFormed /\ ModerationKept => ModerationHolds
  <2> SUFFICES ASSUME WellFormed, ModerationKept, NEW i \in Live, Alone(i),
                      intents[i].ModerationStatus \notin {"none", "appealed"},
                      ~(intents[i].ModerationStatus = "frozen" /\ now > intents[i].ModerationExpires),
                      NEW h \in hashesOf(i)
               PROVE  IsShardBlacklisted(h)
    BY DEF ModerationHolds, Alone
  <2> DEFINE n == intents[i].ModerationExpires
  <2>1. n \in Nat /\ now \in Nat
    BY IntentExists, AccountAssumption DEF Live, Intent, WellFormed, MoneyOK, AccountsTypeOK
  <2>2. blacklist[h] = n /\ (intents[i].ModerationStatus = "frozen" \/ n = 0)
    BY DEF ModerationKept, Listed
  <2>3. n # None
    BY DealNone, <2>1
  <2>4. n = 0 \/ n >= now
    BY <2>1, <2>2
  <2> HIDE DEF n
  <2> QED
    BY <2>2, <2>3, <2>4 DEF IsShardBlacklisted
<1> QED
  BY <1>1, <1>2, <1>3, PTL DEF DealsSpec

-----------------------------------------------------------------------------
(***************************************************************************)
(* The committee keeps deals and its own records in form                   *)
(***************************************************************************)
\* What is proposed, or done under review, is about a deal there is.
AboutDeals ==
  /\ \A p \in ProposalID : proposals[p] # None /\ proposals[p].Req.Action \in Deal =>
                             Exists(proposals[p].Req.Intent)
  /\ \A r \in ActionID : records[r] # None => Exists(records[r].Intent)

Governed == GovernanceTypeOK /\ AboutDeals

\* What a moderation of the deal i may be.
Moderation(i, until, preserve) ==
  Freeze(i, until) \/ Block(i, preserve) \/ LegalHold(i) \/ Appeal(i)

LEMMA RequestTyped ==
  ASSUME NEW req \in GovernanceRequest
  PROVE  req.Intent \in IntentID /\ req.Preserve \in BOOLEAN
BY DEF GovernanceRequest

LEMMA ProposalTyped ==
  ASSUME Governed, NEW p \in ProposalID, proposals[p] # None
  PROVE  proposals[p] \in GovernanceProposal /\ proposals[p].Req \in GovernanceRequest
BY RequestAssumption DEF Governed, GovernanceTypeOK, GovernanceProposal

LEMMA RecordTyped ==
  ASSUME Governed, NEW r \in ActionID, records[r] # None
  PROVE  /\ records[r] \in DirectActionRecord /\ records[r].Intent \in IntentID
         /\ Exists(records[r].Intent)
BY DEF Governed, GovernanceTypeOK, AboutDeals, DirectActionRecord

LEMMA ModerationKeepsForm ==
  ASSUME WellFormed, NEW i \in IntentID, NEW until \in Nat, NEW preserve \in BOOLEAN,
         Moderation(i, until, preserve)
  PROVE  WellFormed' /\ Lasting
BY FreezeForm, BlockForm, LegalHoldForm, AppealForm DEF Moderation

\* What an executed proposal does to deals.
LEMMA EffectMeans ==
  ASSUME NEW p \in GovernanceProposal, Effect(p)
  PROVE  LET req == p.Req
         IN  \/ UNCHANGED <<accountVars, dealVars, tags>>
             \/ /\ req.Action \in Deal /\ UNCHANGED <<operators, config>>
                /\ Moderation(req.Intent, p.Until, req.Preserve) /\ TagWith(req.Intent, None)
                /\ req.Action = "block" \/ Moderation(req.Intent, p.Until, TRUE)
             \/ /\ req.Action \in Deal /\ UNCHANGED <<operators, config>>
                /\ intents' = [intents EXCEPT ![req.Intent] = expireGovernanceAction(@)]
                /\ UNCHANGED <<tags, accountVars, funds, feePool, subsidyPool, shardVars,
                               deleteVars, blacklist, vested, storageRewards, late>>
BY DEF Effect, governanceDealAction, Moderation

LEMMA EffectForm ==
  ASSUME WellFormed, NEW p \in GovernanceProposal, p.Req \in GovernanceRequest,
         p.Req.Action \in Deal => Exists(p.Req.Intent), Effect(p)
  PROVE  WellFormed' /\ Lasting
<1> DEFINE req == p.Req
           i == req.Intent
           x == expireGovernanceAction(intents[i])
<1>1. i \in IntentID /\ req.Preserve \in BOOLEAN /\ p.Until \in Nat
  BY RequestTyped DEF GovernanceProposal
<1>2. CASE UNCHANGED <<accountVars, dealVars, tags>>
  BY <1>2, StutterForm
<1>3. CASE Moderation(i, p.Until, req.Preserve)
  BY <1>1, <1>3, ModerationKeepsForm
<1>4. CASE /\ Exists(i) /\ intents' = [intents EXCEPT ![i] = x]
           /\ UNCHANGED <<accountVars, funds, feePool, subsidyPool, shardVars,
                          deleteVars, blacklist, vested, storageRewards, late>>
  <2>1. x \in Intent(i)
    BY <1>1, <1>4, IntentExists, ExpireKeeps DEF WellFormed
  <2> HIDE DEF x, i
  <2> QED
    BY <1>1, <1>4, <2>1, QuietForm, NonceSame, BlacklistSame DEF accountVars, moneyVars
<1> QED
  BY <1>2, <1>3, <1>4, EffectMeans

LEMMA DirectMeans ==
  ASSUME NEW o \in Operator, NEW r \in ActionID, NEW req \in DirectRequests,
         DirectGovernanceAction(o, r, req)
  PROVE  /\ req \in GovernanceRequest /\ req.Action \in {"freeze", "block", "legal_hold"}
         /\ Exists(req.Intent)
         /\ \/ Freeze(req.Intent, now + FreezeTime) \/ Block(req.Intent, TRUE)
            \/ LegalHold(req.Intent)
         /\ Moderation(req.Intent, now + FreezeTime, TRUE)
BY RequestAssumption DEF DirectGovernanceAction, moderateUnderReview, governanceDealAction, Moderation

LEMMA LaterNat ==
  ASSUME WellFormed, NEW d \in Nat
  PROVE  now \in Nat /\ now + d \in Nat
BY AccountAssumption DEF WellFormed, MoneyOK, AccountsTypeOK

LEMMA DirectForm ==
  ASSUME WellFormed, NEW o \in Operator, NEW r \in ActionID, NEW req \in DirectRequests,
         DirectGovernanceAction(o, r, req)
  PROVE  WellFormed' /\ Lasting
<1> DEFINE until == now + FreezeTime
<1>1. until \in Nat
  BY LaterNat, DealAssumption
<1>2. req.Intent \in IntentID /\ Moderation(req.Intent, until, TRUE)
  BY DirectMeans, RequestTyped
<1> HIDE DEF until
<1> QED
  BY <1>1, <1>2, ModerationKeepsForm

\* Ratifying closes the deal, or does nothing to it.
LEMMA RatifyMeans ==
  ASSUME Governed, WellFormed, NEW r \in ActionID, Reviewed(r), NEW status, ratifyDirectAction(r, status)
  PROVE  LET i == records[r].Intent
         IN  /\ records[r] \in DirectActionRecord
             /\ i \in IntentID /\ Exists(i) /\ intents[i] \in Intent(i)
             /\ records' = [records EXCEPT ![r].ReviewStatus = status]
             /\ clearBlacklistReviewStatus(r)
             /\ IF records[r].Action = "block" /\ ~records[r].Preserve
                THEN Closes(i, intents[i]) /\ UNCHANGED blacklist
                ELSE UNCHANGED <<accountVars, dealVars>>
<1> DEFINE i == records[r].Intent
           x == intents[i]
           z == [x EXCEPT !.StorageStatus = "terminating"]
           burn == IF isPermanentIntent(z) THEN closedFund(i, z).Burn ELSE 0
<1>1. records[r] \in DirectActionRecord /\ i \in IntentID /\ Exists(i)
  BY RecordTyped DEF Reviewed
<1>2. x \in Intent(i)
  BY <1>1, IntentExists DEF WellFormed
<1>3. CASE records[r].Action = "block" /\ ~records[r].Preserve
  <2>1. /\ ensureDeleteTasks(i, [z EXCEPT !.BurnedFee = @ + burn])
        /\ lockedStorage' = [lockedStorage EXCEPT ![Owner] = @ - burn]
        /\ recordStorageFeeBurn(burn)
        /\ funds' = IF isPermanentIntent(z) THEN [funds EXCEPT ![i] = closedFund(i, z).Fund] ELSE funds
        /\ UNCHANGED <<balance, nonce, now, subsidyPool, shardVars, deleteReceipts, blacklist,
                       vested, storageRewards, late>>
    BY <1>3 DEF ratifyDirectAction
  <2>2. isPermanentIntent(z) = isPermanentIntent(x) /\ closedFund(i, z) = closedFund(i, x)
    <3> HIDE DEF x
    <3>1. /\ z.Policy = x.Policy /\ z.LockedFee = x.LockedFee /\ z.PaidFee = x.PaidFee
          /\ z.RefundedFee = x.RefundedFee /\ z.BurnedFee = x.BurnedFee /\ z.Deadline = x.Deadline
      BY <1>2 DEF Intent
    <3> HIDE DEF z
    <3> QED
      BY <3>1 DEF isPermanentIntent, closedFund, ensurePermanentFund, remainingIntentEscrow, CreatedAt
  <2>3. burn = BlockBurn(i, x)
    BY <2>2 DEF BlockBurn
  <2>4. [z EXCEPT !.BurnedFee = @ + burn] = Closing(x, burn)
    <3> HIDE DEF x, burn
    <3> QED
      BY <1>2 DEF Closing, Intent
  <2> HIDE DEF burn, z
  <2>5. Closes(i, x) /\ UNCHANGED blacklist
    BY <2>1, <2>2, <2>3, <2>4 DEF Closes
  <2> QED
    BY <1>1, <1>2, <1>3, <2>5 DEF ratifyDirectAction
<1>4. CASE ~(records[r].Action = "block" /\ ~records[r].Preserve)
  BY <1>1, <1>2, <1>4 DEF ratifyDirectAction
<1> QED
  BY <1>3, <1>4

LEMMA RatifyForm ==
  ASSUME Governed, WellFormed, NEW r \in ActionID, Reviewed(r), NEW status, ratifyDirectAction(r, status)
  PROVE  WellFormed' /\ Lasting
<1> DEFINE i == records[r].Intent
<1>1. /\ i \in IntentID /\ Exists(i) /\ intents[i] \in Intent(i)
      /\ \/ Closes(i, intents[i]) /\ UNCHANGED blacklist
         \/ UNCHANGED <<accountVars, dealVars>>
  BY RatifyMeans
<1> HIDE DEF i
<1>2. CASE Closes(i, intents[i]) /\ UNCHANGED blacklist
  BY <1>1, <1>2, ClosesForm, BlacklistSame
<1>3. CASE UNCHANGED <<accountVars, dealVars>>
  BY <1>3, StutterForm
<1> QED
  BY <1>1, <1>2, <1>3

\* What a rejection makes of the deal.
Restored(x, pre) ==
  [x EXCEPT !.AccessStatus = pre.Access, !.ModerationStatus = pre.Moderation,
            !.StorageStatus = pre.Storage, !.ModerationExpires = pre.Expires]

LEMMA RejectForm ==
  ASSUME Governed, WellFormed, NEW r \in ActionID, Reviewed(r), rejectDirectAction(r)
  PROVE  WellFormed' /\ Lasting
<1> DEFINE i == records[r].Intent
           pre == records[r].Pre
           y == Restored(intents[i], pre)
<1>1. records[r] \in DirectActionRecord /\ i \in IntentID /\ Exists(i)
  BY RecordTyped DEF Reviewed
<1>2. intents[i] \in Intent(i)
  BY <1>1, IntentExists DEF WellFormed
<1>3. /\ intents' = [intents EXCEPT ![i] = y]
      /\ UNCHANGED <<accountVars, funds, feePool, subsidyPool, shardVars, deleteVars, vested,
                     storageRewards, late>>
      /\ blacklist' \in [Hash -> Nat \cup {None}]
  BY DEF rejectDirectAction, Restored, removeBlacklistByActionID, WellFormed, DeletionOK
<1>4. y \in Intent(i)
  <2>1. /\ pre.Access \in AccessStatus /\ pre.Expires \in Nat
        /\ pre.Moderation \in {"none", "frozen", "blocked", "legal_hold", "appealed"}
        /\ pre.Storage \in {"pending", "active", "expired", "terminating", "deleted"}
    BY <1>1 DEF DirectActionRecord
  <2> HIDE DEF pre, i
  <2> QED
    BY <1>2, <2>1 DEF Restored, Intent, AccessStatus
<1> HIDE DEF y, i
<1> QED
  BY <1>1, <1>3, <1>4, QuietForm, NonceSame DEF accountVars, moneyVars

\* Every step is one of the committee, of an operator at once, of the owner or of the deals.
LEMMA GovernanceForm ==
  ASSUME Governed, WellFormed, [GovernanceNext]_<<accountVars, dealVars, governanceVars>>
  PROVE  WellFormed' /\ Lasting
<1>1. ASSUME NEW p \in ProposalID, NEW o \in Operator, NEW decision \in {"approve", "reject"},
             CastGovernanceVote(o, p, decision)
      PROVE  WellFormed' /\ Lasting
  <2> DEFINE x == proposals[p]
             voted == [x EXCEPT !.Votes[o] = decision]
  <2>1. x \in GovernanceProposal /\ x.Req \in GovernanceRequest
        /\ (x.Req.Action \in Deal => Exists(x.Req.Intent))
    BY <1>1, ProposalTyped DEF CastGovernanceVote, Governed, AboutDeals
  <2>2. Effect(voted) \/ UNCHANGED <<accountVars, dealVars>>
    BY <1>1 DEF CastGovernanceVote
  <2> HIDE DEF x
  <2>3. voted \in GovernanceProposal /\ voted.Req = x.Req
    BY <2>1 DEF GovernanceProposal, Decision
  <2> HIDE DEF voted
  <2> QED
    BY <2>1, <2>2, <2>3, EffectForm, StutterForm
<1>2. ASSUME NEW p \in ProposalID, NEW o \in Operator, ExecuteGovernanceProposal(o, p)
      PROVE  WellFormed' /\ Lasting
  BY <1>2, ProposalTyped, EffectForm DEF ExecuteGovernanceProposal, Governed, AboutDeals
<1>3. ASSUME NEW o \in Operator, NEW r \in ActionID, CastDirectActionReviewVote(o, r)
      PROVE  WellFormed' /\ Lasting
  BY <1>3, RejectForm, StutterForm DEF CastDirectActionReviewVote
<1>4. ASSUME NEW o \in Operator, NEW r \in ActionID,
             CastDirectActionReviewVoteLate(o, r) \/ RatifyDirectAction(r)
      PROVE  WellFormed' /\ Lasting
  BY <1>4, RatifyForm DEF CastDirectActionReviewVoteLate, RatifyDirectAction
<1>5. ASSUME NEW r \in ActionID, RatifyDirectAction(r) PROVE WellFormed' /\ Lasting
  BY <1>5, RatifyForm DEF RatifyDirectAction
<1>6. ASSUME NEW o \in Operator, NEW p \in ProposalID, NEW req \in Requests,
             CreateGovernanceProposal(o, p, req)
      PROVE  WellFormed' /\ Lasting
  BY <1>6, StutterForm DEF CreateGovernanceProposal
<1>7. ASSUME NEW p \in ProposalID, ExpireOnUse(p) \/ CancelGovernanceProposal(p)
      PROVE  WellFormed' /\ Lasting
  BY <1>7, StutterForm DEF ExpireOnUse, CancelGovernanceProposal
<1>8. CASE CommitteeStep
  BY <1>1, <1>2, <1>6, <1>7, <1>8 DEF CommitteeStep
<1>9. CASE DirectStep
  BY <1>3, <1>4, <1>5, <1>9, DirectForm DEF DirectStep
<1>10. CASE TerminateStep
  BY <1>10, TerminateForm DEF TerminateStep
<1>11. CASE DealStep
  BY <1>11, DealForm
<1>12. CASE NextBlock /\ UNCHANGED dealVars
  BY <1>12, NextBlockForm
<1>13. CASE UNCHANGED <<accountVars, dealVars>>
  BY <1>13, StutterForm
<1> QED
  BY <1>8, <1>9, <1>10, <1>11, <1>12, <1>13 DEF GovernanceNext

-----------------------------------------------------------------------------
\* What is decided stays, and nothing is forgotten.
ProposalsStay ==
  /\ proposals' \in [ProposalID -> GovernanceProposal \cup {None}]
  /\ \A p \in ProposalID : proposals[p] # None =>
       /\ proposals'[p] # None /\ proposals'[p].Req = proposals[p].Req
       /\ proposals[p].Status # "pending" => proposals'[p] = proposals[p]

RecordsStay ==
  /\ records' \in [ActionID -> DirectActionRecord \cup {None}]
  /\ \A r \in ActionID : records[r] # None =>
       /\ records'[r] # None /\ records'[r].Intent = records[r].Intent
       /\ records[r].ReviewStatus # "pending_review" => records'[r] = records[r]

\* Steps that make no proposal, no record.
ProposalsKnown == \A p \in ProposalID : proposals'[p] # None => proposals[p] # None

RecordsKnown == \A r \in ActionID : records'[r] # None => records[r] # None

\* A list in which proposals have expired.
Expired(ps, qs) ==
  /\ DOMAIN qs = ProposalID
  /\ \A p \in ProposalID :
       qs[p] = ps[p] \/ (ps[p] # None /\ ps[p].Status = "pending" /\ qs[p] = [ps[p] EXCEPT !.Status = "expired"])

LEMMA ExpiresOnly ==
  ASSUME Governed
  PROVE  Expired(proposals, expireUnreachableProposals(expireGovernanceProposals(proposals)))
<1> DEFINE q == expireGovernanceProposals(proposals)
           w == expireUnreachableProposals(q)
<1>1. DOMAIN proposals = ProposalID
  BY DEF Governed, GovernanceTypeOK
<1>2. DOMAIN q = ProposalID
      /\ \A p \in ProposalID : q[p] = proposals[p]
           \/ (proposals[p] # None /\ proposals[p].Status = "pending"
               /\ q[p] = [proposals[p] EXCEPT !.Status = "expired"])
  BY <1>1 DEF expireGovernanceProposals
<1> HIDE DEF q
<1>3. DOMAIN w = ProposalID
      /\ \A p \in ProposalID : w[p] = q[p]
           \/ (q[p] # None /\ q[p].Status = "pending" /\ w[p] = [q[p] EXCEPT !.Status = "expired"])
  BY <1>2 DEF expireUnreachableProposals
<1> HIDE DEF w
<1>4. ASSUME NEW p \in ProposalID, proposals[p] # None
      PROVE  [proposals[p] EXCEPT !.Status = "expired"].Status = "expired"
  BY <1>4, ProposalTyped DEF GovernanceProposal
<1>5. ASSUME NEW p \in ProposalID
      PROVE  w[p] = proposals[p] \/ (proposals[p] # None /\ proposals[p].Status = "pending"
                                     /\ w[p] = [proposals[p] EXCEPT !.Status = "expired"])
  <2>1. CASE q[p] = proposals[p]
    BY <1>3, <2>1
  <2>2. CASE /\ proposals[p] # None /\ proposals[p].Status = "pending"
             /\ q[p] = [proposals[p] EXCEPT !.Status = "expired"]
    <3>1. q[p].Status = "expired"
      BY <1>4, <2>2
    <3>2. w[p] = q[p]
      BY <1>3, <3>1
    <3> QED
      BY <2>2, <3>2
  <2> QED
    BY <1>2, <2>1, <2>2
<1>6. w = expireUnreachableProposals(expireGovernanceProposals(proposals))
  BY DEF w, q
<1> QED
  BY <1>3, <1>5, <1>6 DEF Expired

\* Proposals change one at a time.
LEMMA OneProposal ==
  ASSUME Governed, NEW p \in ProposalID, proposals[p] # None, proposals[p].Status = "pending",
         NEW x \in GovernanceProposal, x.Req = proposals[p].Req,
         proposals' = [proposals EXCEPT ![p] = x]
  PROVE  ProposalsStay /\ ProposalsKnown
BY GovernanceNone DEF Governed, GovernanceTypeOK, ProposalsStay, ProposalsKnown

LEMMA OneRecord ==
  ASSUME Governed, NEW r \in ActionID, Reviewed(r), NEW x \in DirectActionRecord,
         x.Intent = records[r].Intent, records' = [records EXCEPT ![r] = x]
  PROVE  RecordsStay /\ RecordsKnown
BY GovernanceNone DEF Governed, GovernanceTypeOK, Reviewed, RecordsStay, RecordsKnown

LEMMA SameProposals ==
  ASSUME Governed, UNCHANGED proposals
  PROVE  ProposalsStay /\ ProposalsKnown
BY DEF Governed, GovernanceTypeOK, ProposalsStay, ProposalsKnown

LEMMA SameRecords ==
  ASSUME Governed, UNCHANGED records
  PROVE  RecordsStay /\ RecordsKnown
BY DEF Governed, GovernanceTypeOK, RecordsStay, RecordsKnown

LEMMA CreateProposals ==
  ASSUME Governed, WellFormed, NEW o \in Operator, NEW p \in ProposalID, NEW req \in Requests,
         CreateGovernanceProposal(o, p, req)
  PROVE  /\ ProposalsStay
         /\ proposals'[p].Req = req
         /\ \A q \in ProposalID \ {p} : proposals'[q] # None =>
              proposals[q] # None /\ proposals'[q].Req = proposals[q].Req
<1> DEFINE w == expireUnreachableProposals(expireGovernanceProposals(proposals))
           x == governanceProposalFromRequest(o, req)
<1>1. Expired(proposals, w)
  BY ExpiresOnly
<1>2. proposals' = [w EXCEPT ![p] = x] /\ proposals[p] = None
  BY DEF CreateGovernanceProposal
<1>3. x \in GovernanceProposal /\ x.Req = req
  <2>1. now \in Nat /\ now + FreezeTime \in Nat
    BY LaterNat, DealAssumption
  <2> QED
    BY <2>1 DEF governanceProposalFromRequest, GovernanceProposal, Decision, enabledOperatorAddresses
<1> HIDE DEF w, x
<1>4. ASSUME NEW q \in ProposalID, proposals[q] # None
      PROVE  LET y == [proposals[q] EXCEPT !.Status = "expired"]
             IN  y \in GovernanceProposal /\ y.Req = proposals[q].Req
  <2>1. proposals[q] \in GovernanceProposal
    BY <1>4, ProposalTyped
  <2> QED
    BY <2>1 DEF GovernanceProposal
<1>5. ASSUME NEW q \in ProposalID, proposals[q] # None
      PROVE  /\ w[q] \in GovernanceProposal /\ w[q].Req = proposals[q].Req
             /\ proposals[q].Status # "pending" => w[q] = proposals[q]
  BY <1>1, <1>4, <1>5, ProposalTyped DEF Expired
<1>6. \A q \in ProposalID : proposals[q] = None => w[q] = None
  BY <1>1 DEF Expired
<1>7. \A q \in ProposalID : proposals'[q] = IF q = p THEN x ELSE w[q]
  BY <1>1, <1>2 DEF Expired
<1>8. DOMAIN proposals' = ProposalID
  BY <1>1, <1>2 DEF Expired
<1>9. ASSUME NEW q \in ProposalID
      PROVE  /\ proposals'[q] \in GovernanceProposal \cup {None}
             /\ proposals[q] # None =>
                  /\ proposals'[q] # None /\ proposals'[q].Req = proposals[q].Req
                  /\ proposals[q].Status # "pending" => proposals'[q] = proposals[q]
  BY <1>2, <1>3, <1>5, <1>6, <1>7, GovernanceNone
<1>10. proposals' = [q \in ProposalID |-> proposals'[q]]
  BY <1>1, <1>2 DEF Expired
<1>11. ProposalsStay
  BY <1>9, <1>10 DEF ProposalsStay
<1> QED
  BY <1>3, <1>5, <1>6, <1>7, <1>11

LEMMA VoteProposals ==
  ASSUME Governed, NEW o \in Operator, NEW p \in ProposalID, NEW decision \in {"approve", "reject"},
         CastGovernanceVote(o, p, decision)
  PROVE  ProposalsStay /\ ProposalsKnown
<1> DEFINE x == proposals[p]
           voted == [x EXCEPT !.Votes[o] = decision]
           reached == countProposalVotes(voted, "approve") >= Threshold(voted)
           status == IF reached THEN "executed"
                     ELSE IF Unreachable(voted) THEN "rejected" ELSE voted.Status
           y == [voted EXCEPT !.Status = status]
<1>1. x \in GovernanceProposal /\ x # None /\ x.Status = "pending"
  BY ProposalTyped DEF CastGovernanceVote
<1>2. proposals' = [proposals EXCEPT ![p] = y]
  BY DEF CastGovernanceVote
<1> HIDE DEF x, reached
<1>3. voted \in GovernanceProposal /\ voted.Req = x.Req
  BY <1>1 DEF GovernanceProposal, Decision
<1> HIDE DEF voted
<1>4. status \in {"pending", "executed", "rejected", "expired", "cancelled"}
  BY <1>3 DEF GovernanceProposal
<1> HIDE DEF status
<1>5. y \in GovernanceProposal /\ y.Req = x.Req
  BY <1>3, <1>4 DEF GovernanceProposal
<1> HIDE DEF y
<1> QED
  BY <1>1, <1>2, <1>5, OneProposal DEF x

LEMMA StatusProposals ==
  ASSUME Governed, NEW p \in ProposalID, proposals[p] # None, proposals[p].Status = "pending",
         NEW status \in {"executed", "expired", "cancelled"},
         proposals' = [proposals EXCEPT ![p].Status = status]
  PROVE  ProposalsStay /\ ProposalsKnown
<1> DEFINE x == proposals[p]
           y == [x EXCEPT !.Status = status]
<1>1. x \in GovernanceProposal
  BY ProposalTyped
<1>2. proposals' = [proposals EXCEPT ![p] = y]
  OBVIOUS
<1>3. y \in GovernanceProposal /\ y.Req = x.Req
  <2> HIDE DEF x
  <2> QED
    BY <1>1 DEF GovernanceProposal
<1> HIDE DEF y
<1> QED
  BY <1>2, <1>3, OneProposal

LEMMA DirectRecords ==
  ASSUME Governed, WellFormed, NEW o \in Operator, NEW r \in ActionID, NEW req \in DirectRequests,
         DirectGovernanceAction(o, r, req)
  PROVE  /\ RecordsStay
         /\ records[r] = None /\ records'[r] # None /\ records'[r].Intent = req.Intent
         /\ records'[r].ReviewStatus = "pending_review"
         /\ \A q \in ActionID \ {r} : records'[q] = records[q]
<1> DEFINE x == expireGovernanceAction(intents[req.Intent])
           y == [Intent |-> req.Intent, Action |-> req.Action, Preserve |-> req.Preserve,
                 Deadline |-> now + ReviewWindow, ReviewStatus |-> "pending_review",
                 Pre |-> [Access |-> x.AccessStatus, Moderation |-> x.ModerationStatus,
                          Storage |-> x.StorageStatus, Expires |-> x.ModerationExpires],
                 Rejects |-> [v \in Operator |-> 0]]
<1>1. records' = [records EXCEPT ![r] = y] /\ records[r] = None
  BY DEF DirectGovernanceAction
<1>2. /\ req \in GovernanceRequest /\ req.Action \in Deal /\ req.Intent \in IntentID
      /\ req.Preserve \in BOOLEAN /\ Exists(req.Intent)
  BY DirectMeans, RequestTyped DEF Deal
<1>3. x \in Intent(req.Intent)
  BY <1>2, IntentExists, ExpireKeeps DEF WellFormed
<1>4. now + ReviewWindow \in Nat
  BY LaterNat, GovernanceAssumption
<1> HIDE DEF x
<1>5. /\ x.AccessStatus \in AccessStatus /\ x.ModerationExpires \in Nat
      /\ x.ModerationStatus \in {"none", "frozen", "blocked", "legal_hold", "appealed"}
      /\ x.StorageStatus \in {"pending", "active", "expired", "terminating", "deleted"}
  BY <1>3 DEF Intent, AccessStatus
<1>6. /\ y \in DirectActionRecord /\ y.Intent = req.Intent /\ y.ReviewStatus = "pending_review"
  BY <1>2, <1>4, <1>5 DEF DirectActionRecord
<1> HIDE DEF y
<1>7. /\ \A q \in ActionID : records'[q] = IF q = r THEN y ELSE records[q]
      /\ records' \in [ActionID -> DirectActionRecord \cup {None}]
  BY <1>1, <1>6 DEF Governed, GovernanceTypeOK
<1>8. RecordsStay
  BY <1>1, <1>7 DEF RecordsStay
<1> QED
  BY <1>1, <1>6, <1>7, <1>8, GovernanceNone

LEMMA VoteRecords ==
  ASSUME Governed, NEW o \in Operator, NEW r \in ActionID, CastDirectActionReviewVote(o, r)
  PROVE  /\ RecordsStay /\ RecordsKnown /\ Reviewed(r) /\ records'[r].Intent = records[r].Intent
         /\ \A q \in ActionID \ {r} : records'[q] = records[q]
         /\ \/ rejectDirectAction(r)
            \/ records'[r].ReviewStatus = "pending_review" /\ UNCHANGED <<tags, accountVars, dealVars>>
<1> DEFINE x == records[r]
           n == x.Rejects[o] + 1
           voted == [x EXCEPT !.Rejects[o] = n]
           count == SumFunctionOnSet(voted.Rejects, enabledOperatorAddresses)
           rejected == count >= governanceThresholdFor(voted.Action, Cardinality(enabledOperatorAddresses))
           y == IF rejected THEN [voted EXCEPT !.ReviewStatus = "rejected"] ELSE voted
<1>1. Reviewed(r) /\ x \in DirectActionRecord /\ x.ReviewStatus = "pending_review"
  BY RecordTyped DEF CastDirectActionReviewVote, Reviewed
<1>2. /\ records' = [records EXCEPT ![r] = y]
      /\ IF rejected THEN rejectDirectAction(r) ELSE UNCHANGED <<tags, accountVars, dealVars>>
  BY DEF CastDirectActionReviewVote
<1>3. n \in Nat
  BY <1>1 DEF DirectActionRecord
<1> HIDE DEF x, n, rejected
<1>4. voted \in DirectActionRecord /\ voted.Intent = x.Intent /\ voted.ReviewStatus = "pending_review"
  BY <1>1, <1>3 DEF DirectActionRecord
<1> HIDE DEF voted
<1>5. [voted EXCEPT !.ReviewStatus = "rejected"] \in DirectActionRecord
      /\ [voted EXCEPT !.ReviewStatus = "rejected"].Intent = x.Intent
  BY <1>4 DEF DirectActionRecord
<1>6. y \in DirectActionRecord /\ y.Intent = x.Intent /\ (rejected \/ y.ReviewStatus = "pending_review")
  BY <1>4, <1>5
<1> HIDE DEF y
<1>7. RecordsStay /\ RecordsKnown
  BY <1>1, <1>2, <1>6, OneRecord DEF x
<1>8. \A q \in ActionID : records'[q] = IF q = r THEN y ELSE records[q]
  BY <1>2 DEF Governed, GovernanceTypeOK
<1> QED
  BY <1>1, <1>2, <1>6, <1>7, <1>8 DEF x

LEMMA RatifyRecords ==
  ASSUME Governed, WellFormed, NEW r \in ActionID, Reviewed(r),
         NEW status \in {"ratified", "auto_ratified"}, ratifyDirectAction(r, status)
  PROVE  /\ RecordsStay /\ RecordsKnown /\ records'[r].Intent = records[r].Intent
         /\ records'[r].ReviewStatus = status /\ records'[r].Action = records[r].Action
         /\ records'[r].Preserve = records[r].Preserve
         /\ \A q \in ActionID \ {r} : records'[q] = records[q]
<1> DEFINE x == records[r]
           y == [x EXCEPT !.ReviewStatus = status]
<1>1. x \in DirectActionRecord /\ records' = [records EXCEPT ![r] = y]
  BY RatifyMeans
<1>2. /\ y \in DirectActionRecord /\ y.Intent = x.Intent /\ y.Action = x.Action
      /\ y.Preserve = x.Preserve /\ y.ReviewStatus = status
  <2> HIDE DEF x
  <2> QED
    BY <1>1 DEF DirectActionRecord
<1> HIDE DEF y
<1>3. RecordsStay /\ RecordsKnown
  BY <1>1, <1>2, OneRecord
<1>4. \A q \in ActionID : records'[q] = IF q = r THEN y ELSE records[q]
  BY <1>1 DEF Governed, GovernanceTypeOK
<1> QED
  BY <1>2, <1>3, <1>4

-----------------------------------------------------------------------------
LEMMA ExecutableTarget ==
  ASSUME NEW p, Executable(p), p.Req.Action \in {"remove_operator", "update_operator"}
  PROVE  Enabled(p.Req.Target)
<1>1. p.Req.Action # "freeze" /\ ~isMiningParamsAction(p.Req.Action)
  BY DEF isMiningParamsAction
<1> QED
  BY <1>1 DEF Executable

\* What an executed proposal changes has the type it had.
LEMMA EffectTyped ==
  ASSUME Governed, NEW p \in GovernanceProposal, p.Req \in Requests, Effect(p)
  PROVE  /\ operators' \in [Operator -> GovernanceOperator \cup {None}]
         /\ config' \in Config
         /\ tags' \in [Hash -> ActionID \cup {None}]
<1> DEFINE req == p.Req
<1>1. /\ req \in GovernanceRequest
      /\ isOperatorManagementAction(req.Action) => req.Target \in Operator
  BY RequestAssumption
<1>2. /\ operators \in [Operator -> GovernanceOperator \cup {None}] /\ config \in Config
      /\ tags \in [Hash -> ActionID \cup {None}]
  BY DEF Governed, GovernanceTypeOK
<1>3. ASSUME isOperatorManagementAction(req.Action), Executable(p), executeOperatorManagement(req)
      PROVE  operators' \in [Operator -> GovernanceOperator \cup {None}]
  <2> DEFINE t == req.Target
             a == [Enabled |-> TRUE, Permissions |-> req.Permissions]
             b == [operators[t] EXCEPT !.Enabled = FALSE]
             c == [operators[t] EXCEPT !.Permissions = req.Permissions]
  <2>1. t \in Operator /\ req.Permissions \in SUBSET (Deal \cup {"all"})
    BY <1>1, <1>3 DEF GovernanceRequest
  <2>2. a \in GovernanceOperator
    BY <2>1 DEF GovernanceOperator
  <2>3. CASE req.Action = "add_operator"
    <3>1. operators' = [operators EXCEPT ![t] = a]
      BY <1>3, <2>3 DEF executeOperatorManagement
    <3> HIDE DEF a, t
    <3> QED
      BY <1>2, <2>2, <3>1
  <2>4. CASE req.Action # "add_operator"
    <3>1. req.Action \in {"remove_operator", "update_operator"}
      BY <1>3, <2>4 DEF isOperatorManagementAction
    <3>2. operators[t] \in GovernanceOperator
      <4>1. Enabled(t)
        BY <1>3, <3>1, ExecutableTarget
      <4> QED
        BY <1>2, <2>1, <4>1 DEF Enabled
    <3>3. operators' = [operators EXCEPT ![t] = b] \/ operators' = [operators EXCEPT ![t] = c]
      BY <1>3, <3>1 DEF executeOperatorManagement
    <3>4. b \in GovernanceOperator /\ c \in GovernanceOperator
      BY <2>1, <3>2 DEF GovernanceOperator
    <3> HIDE DEF b, c, t
    <3> QED
      BY <1>2, <3>3, <3>4
  <2> QED
    BY <2>3, <2>4
<1>4. ASSUME executeConfigChange(req) PROVE config' \in Config
  <2> DEFINE m == IF req.Moderation = None THEN config.Moderation ELSE req.Moderation
             c == IF req.Change = None THEN config.Change ELSE req.Change
  <2>1. m \in Fraction /\ c \in Fraction
    BY <1>1, <1>2 DEF GovernanceRequest, Config
  <2>2. config' = [config EXCEPT !.Moderation = m, !.Change = c]
    BY <1>4 DEF executeConfigChange
  <2> HIDE DEF m, c
  <2> QED
    BY <1>2, <2>1, <2>2 DEF Config
<1>5. ASSUME executeMiningParamsChange(req) PROVE config' \in Config
  <2>1. NewWeights(req) \in [Weight -> Nat]
    BY <1>1, <1>2 DEF NewWeights, GovernanceRequest, Config
  <2> QED
    BY <1>2, <1>5, <2>1 DEF executeMiningParamsChange, Config
<1>6. ASSUME executeFeeMarketChange(req) PROVE config' \in Config
  BY <1>1, <1>2, <1>6 DEF executeFeeMarketChange, Config, GovernanceRequest
<1>7. ASSUME NEW i, TagWith(i, None) PROVE tags' \in [Hash -> ActionID \cup {None}]
  BY <1>2, <1>7 DEF TagWith
<1> HIDE DEF req
<1>8. \/ /\ isOperatorManagementAction(req.Action)
         /\ (Executable(p) /\ executeOperatorManagement(req)) \/ UNCHANGED operators
         /\ UNCHANGED <<config, tags>>
      \/ /\ executeConfigChange(req) \/ executeMiningParamsChange(req) \/ executeFeeMarketChange(req)
         /\ UNCHANGED <<operators, tags>>
      \/ TagWith(req.Intent, None) /\ UNCHANGED <<operators, config>>
      \/ UNCHANGED <<operators, config, tags>>
  BY DEF Effect, req
<1> QED
  BY <1>2, <1>3, <1>4, <1>5, <1>6, <1>7, <1>8

LEMMA NonceCounted ==
  ASSUME Governed, NEW o \in Operator, consumeOperatorNonce(o)
  PROVE  operatorNonces' \in [Operator -> 0..MaxRequests]
<1>1. operatorNonces \in [Operator -> 0..MaxRequests] /\ MaxRequests \in Nat
  BY GovernanceAssumption DEF Governed, GovernanceTypeOK
<1>2. operatorNonces[o] + 1 \in 0..MaxRequests
  BY <1>1 DEF consumeOperatorNonce
<1> QED
  BY <1>1, <1>2 DEF consumeOperatorNonce

LEMMA UntaggedTyped ==
  ASSUME Governed, NEW r
  PROVE  Untagged(r) \in [Hash -> ActionID \cup {None}]
BY DEF Untagged, Governed, GovernanceTypeOK

\* The committee's own variables, where they stay.
LEMMA CommitteeSame ==
  ASSUME Governed
  PROVE  /\ UNCHANGED operators => operators' \in [Operator -> GovernanceOperator \cup {None}]
         /\ UNCHANGED operatorNonces => operatorNonces' \in [Operator -> 0..MaxRequests]
         /\ UNCHANGED config => config' \in Config
         /\ UNCHANGED tags => tags' \in [Hash -> ActionID \cup {None}]
         /\ UNCHANGED terminated => terminated' \subseteq IntentID
BY DEF Governed, GovernanceTypeOK

CommitteeTyped ==
  /\ operators' \in [Operator -> GovernanceOperator \cup {None}]
  /\ operatorNonces' \in [Operator -> 0..MaxRequests]
  /\ config' \in Config
  /\ tags' \in [Hash -> ActionID \cup {None}]
  /\ terminated' \subseteq IntentID

LEMMA AboutSame ==
  ASSUME Governed, Lasting, ProposalsStay, RecordsStay, CommitteeTyped,
         ProposalsKnown \/ \E p \in ProposalID, req \in Requests :
           /\ proposals'[p].Req = req /\ (req.Action \in Deal => intents'[req.Intent] # None)
           /\ \A q \in ProposalID \ {p} : proposals'[q] # None => proposals[q] # None,
         RecordsKnown \/ \E r \in ActionID :
           /\ intents'[records'[r].Intent] # None
           /\ \A q \in ActionID \ {r} : records'[q] # None => records[q] # None
  PROVE  Governed'
<1>1. GovernanceTypeOK'
  BY DEF ProposalsStay, RecordsStay, CommitteeTyped, GovernanceTypeOK
<1>2. ASSUME NEW p \in ProposalID, proposals[p] # None, proposals'[p].Req.Action \in Deal
      PROVE  intents'[proposals'[p].Req.Intent] # None
  <2>1. /\ proposals'[p].Req = proposals[p].Req /\ Exists(proposals[p].Req.Intent)
        /\ proposals[p].Req.Intent \in IntentID
    BY <1>2, ProposalTyped, RequestTyped DEF ProposalsStay, Governed, AboutDeals
  <2>2. intents'[proposals[p].Req.Intent] # None
    BY <2>1 DEF Lasting
  <2> QED
    BY <2>1, <2>2
<1>3. ASSUME NEW r \in ActionID, records[r] # None
      PROVE  intents'[records'[r].Intent] # None
  <2>1. records'[r].Intent = records[r].Intent /\ Exists(records[r].Intent)
        /\ records[r].Intent \in IntentID
    BY <1>3, RecordTyped DEF RecordsStay
  <2>2. intents'[records[r].Intent] # None
    BY <2>1 DEF Lasting
  <2> QED
    BY <2>1, <2>2
<1>4. \A p \in ProposalID : proposals'[p] # None /\ proposals'[p].Req.Action \in Deal =>
                              intents'[proposals'[p].Req.Intent] # None
  <2>1. CASE ProposalsKnown
    BY <1>2, <2>1 DEF ProposalsKnown
  <2>2. CASE ~ProposalsKnown
    BY <1>2, <2>2
  <2> QED
    BY <2>1, <2>2
<1>5. \A r \in ActionID : records'[r] # None => intents'[records'[r].Intent] # None
  <2>1. CASE RecordsKnown
    BY <1>3, <2>1 DEF RecordsKnown
  <2>2. CASE ~RecordsKnown
    BY <1>3, <2>2
  <2> QED
    BY <2>1, <2>2
<1>6. AboutDeals'
  BY <1>4, <1>5 DEF AboutDeals, Exists
<1> QED
  BY <1>1, <1>6 DEF Governed

LEMMA VotedTyped ==
  ASSUME Governed, NEW p \in ProposalID, NEW o \in Operator, NEW decision \in {"approve", "reject"},
         CastGovernanceVote(o, p, decision)
  PROVE  LET voted == [proposals[p] EXCEPT !.Votes[o] = decision]
         IN  /\ voted \in GovernanceProposal /\ voted.Req \in Requests
             /\ voted.Req = proposals[p].Req
             /\ Effect(voted) \/ UNCHANGED <<operators, config, tags, accountVars, dealVars>>
<1> DEFINE x == proposals[p]
           voted == [x EXCEPT !.Votes[o] = decision]
<1>1. x \in GovernanceProposal
  BY ProposalTyped DEF CastGovernanceVote
<1>2. Effect(voted) \/ UNCHANGED <<operators, config, tags, accountVars, dealVars>>
  BY DEF CastGovernanceVote
<1>3. voted \in GovernanceProposal /\ voted.Req \in Requests /\ voted.Req = x.Req
  <2> HIDE DEF x
  <2> QED
    BY <1>1 DEF GovernanceProposal, Decision
<1> QED
  BY <1>2, <1>3

\* What is proposed for a deal is for one there is.
LEMMA ValidDeal ==
  ASSUME NEW req, ValidRequest(req), req.Action \in Deal
  PROVE  Exists(req.Intent)
<1>1. /\ ~isOperatorManagementAction(req.Action) /\ ~isConfigAction(req.Action)
      /\ ~isMiningParamsAction(req.Action) /\ ~isFeeMarketAction(req.Action)
  BY DEF Deal, isOperatorManagementAction, isConfigAction, isMiningParamsAction, isFeeMarketAction
<1> QED
  BY <1>1 DEF ValidRequest

LEMMA CreateGoverned ==
  ASSUME Governed, WellFormed, Lasting, NEW o \in Operator, NEW p \in ProposalID, NEW req \in Requests,
         CreateGovernanceProposal(o, p, req)
  PROVE  Governed' /\ ProposalsStay /\ RecordsStay
<1>1. /\ ProposalsStay /\ proposals'[p].Req = req
      /\ \A q \in ProposalID \ {p} : proposals'[q] # None => proposals[q] # None
  BY CreateProposals
<1>2. RecordsStay /\ RecordsKnown
  BY SameRecords DEF CreateGovernanceProposal
<1>3. CommitteeTyped
  BY CommitteeSame, NonceCounted DEF CreateGovernanceProposal, CommitteeTyped
<1>4. req.Action \in Deal => intents'[req.Intent] # None
  BY ValidDeal DEF CreateGovernanceProposal, dealVars, Exists
<1> QED
  BY <1>1, <1>2, <1>3, <1>4, AboutSame

LEMMA VoteGoverned ==
  ASSUME Governed, Lasting, NEW o \in Operator, NEW p \in ProposalID,
         NEW decision \in {"approve", "reject"}, CastGovernanceVote(o, p, decision)
  PROVE  Governed' /\ ProposalsStay /\ RecordsStay
<1>1. ProposalsStay /\ ProposalsKnown
  BY VoteProposals
<1>2. RecordsStay /\ RecordsKnown
  BY SameRecords DEF CastGovernanceVote
<1>3. CommitteeTyped
  <2>1. operatorNonces' \in [Operator -> 0..MaxRequests] /\ UNCHANGED terminated
    BY NonceCounted DEF CastGovernanceVote
  <2> DEFINE voted == [proposals[p] EXCEPT !.Votes[o] = decision]
  <2>2. /\ voted \in GovernanceProposal /\ voted.Req \in Requests
        /\ Effect(voted) \/ UNCHANGED <<operators, config, tags>>
    BY VotedTyped
  <2> HIDE DEF voted
  <2> QED
    BY <2>1, <2>2, EffectTyped, CommitteeSame DEF CommitteeTyped
<1> QED
  BY <1>1, <1>2, <1>3, AboutSame

LEMMA ExecuteGoverned ==
  ASSUME Governed, Lasting, NEW o \in Operator, NEW p \in ProposalID, ExecuteGovernanceProposal(o, p)
  PROVE  Governed' /\ ProposalsStay /\ RecordsStay
<1>1. ProposalsStay /\ ProposalsKnown
  BY StatusProposals DEF ExecuteGovernanceProposal
<1>2. RecordsStay /\ RecordsKnown
  BY SameRecords DEF ExecuteGovernanceProposal
<1>3. CommitteeTyped
  <2>1. operatorNonces' \in [Operator -> 0..MaxRequests] /\ UNCHANGED terminated
    BY NonceCounted, CommitteeSame DEF ExecuteGovernanceProposal
  <2>2. proposals[p] \in GovernanceProposal /\ Effect(proposals[p])
    BY ProposalTyped DEF ExecuteGovernanceProposal
  <2>3. proposals[p].Req \in Requests
    BY <2>2 DEF GovernanceProposal
  <2> QED
    BY <2>1, <2>2, <2>3, EffectTyped, CommitteeSame DEF CommitteeTyped
<1> QED
  BY <1>1, <1>2, <1>3, AboutSame

LEMMA WithdrawGoverned ==
  ASSUME Governed, Lasting, NEW p \in ProposalID, ExpireOnUse(p) \/ CancelGovernanceProposal(p)
  PROVE  Governed' /\ ProposalsStay /\ RecordsStay
<1>1. ProposalsStay /\ ProposalsKnown
  BY StatusProposals DEF ExpireOnUse, CancelGovernanceProposal
<1>2. RecordsStay /\ RecordsKnown
  BY SameRecords DEF ExpireOnUse, CancelGovernanceProposal
<1>3. proposals[p].Proposer \in Operator
  BY ProposalTyped DEF ExpireOnUse, CancelGovernanceProposal, GovernanceProposal
<1>4. operatorNonces' \in [Operator -> 0..MaxRequests]
  BY <1>3, CommitteeSame, NonceCounted DEF ExpireOnUse, CancelGovernanceProposal
<1>5. UNCHANGED <<operators, config, tags, terminated>>
  BY DEF ExpireOnUse, CancelGovernanceProposal
<1>6. CommitteeTyped
  BY <1>4, <1>5, CommitteeSame DEF CommitteeTyped
<1> QED
  BY <1>1, <1>2, <1>6, AboutSame

LEMMA DirectGoverned ==
  ASSUME Governed, WellFormed, Lasting, NEW o \in Operator, NEW r \in ActionID,
         NEW req \in DirectRequests, DirectGovernanceAction(o, r, req)
  PROVE  Governed' /\ ProposalsStay /\ RecordsStay
<1>1. ProposalsStay /\ ProposalsKnown
  BY SameProposals DEF DirectGovernanceAction
<1>2. /\ RecordsStay /\ records'[r].Intent = req.Intent
      /\ \A q \in ActionID \ {r} : records'[q] # None => records[q] # None
  BY DirectRecords
<1>3. req.Intent \in IntentID /\ Exists(req.Intent)
  BY DirectMeans, RequestTyped
<1>4. intents'[records'[r].Intent] # None
  BY <1>2, <1>3 DEF Lasting
<1>5. tags' \in [Hash -> ActionID \cup {None}]
  BY DEF DirectGovernanceAction, TagWith, Governed, GovernanceTypeOK
<1>6. CommitteeTyped
  BY <1>5, CommitteeSame, NonceCounted DEF DirectGovernanceAction, CommitteeTyped
<1> QED
  BY <1>1, <1>2, <1>4, <1>6, AboutSame

LEMMA ReviewGoverned ==
  ASSUME Governed, Lasting, NEW o \in Operator, NEW r \in ActionID, CastDirectActionReviewVote(o, r)
  PROVE  Governed' /\ ProposalsStay /\ RecordsStay
<1>1. ProposalsStay /\ ProposalsKnown
  BY SameProposals DEF CastDirectActionReviewVote
<1>2. RecordsStay /\ RecordsKnown
  BY VoteRecords
<1>3. tags' \in [Hash -> ActionID \cup {None}]
  <2>1. CASE rejectDirectAction(r)
    BY <2>1, UntaggedTyped DEF rejectDirectAction, removeBlacklistByActionID
  <2>2. CASE UNCHANGED tags
    BY <2>2, CommitteeSame
  <2> QED
    BY <2>1, <2>2, VoteRecords
<1>4. CommitteeTyped
  BY <1>3, CommitteeSame, NonceCounted DEF CastDirectActionReviewVote, CommitteeTyped
<1> QED
  BY <1>1, <1>2, <1>4, AboutSame

LEMMA RatifyGoverned ==
  ASSUME Governed, WellFormed, Lasting, NEW r \in ActionID, Reviewed(r),
         NEW status \in {"ratified", "auto_ratified"}, ratifyDirectAction(r, status),
         UNCHANGED <<committeeVars, terminated>>
  PROVE  Governed' /\ ProposalsStay /\ RecordsStay
<1>1. ProposalsStay /\ ProposalsKnown
  BY SameProposals DEF committeeVars
<1>2. RecordsStay /\ RecordsKnown
  BY RatifyRecords
<1>3. tags' \in [Hash -> ActionID \cup {None}]
  BY RatifyMeans, UntaggedTyped DEF clearBlacklistReviewStatus
<1>4. CommitteeTyped
  BY <1>3, CommitteeSame DEF committeeVars, CommitteeTyped
<1> QED
  BY <1>1, <1>2, <1>4, AboutSame

LEMMA OthersGoverned ==
  ASSUME Governed, Lasting, UNCHANGED <<committeeVars, records, tags>>, terminated' \subseteq IntentID
  PROVE  Governed' /\ ProposalsStay /\ RecordsStay
<1>1. ProposalsStay /\ ProposalsKnown
  BY SameProposals DEF committeeVars
<1>2. RecordsStay /\ RecordsKnown
  BY SameRecords
<1>3. CommitteeTyped
  BY CommitteeSame DEF committeeVars, CommitteeTyped
<1> QED
  BY <1>1, <1>2, <1>3, AboutSame

LEMMA GovernedStep ==
  ASSUME Governed, WellFormed, [GovernanceNext]_<<accountVars, dealVars, governanceVars>>
  PROVE  Governed' /\ ProposalsStay /\ RecordsStay
<1>1. Lasting
  BY GovernanceForm
<1>2. terminated \subseteq IntentID
  BY DEF Governed, GovernanceTypeOK
<1>3. CASE CommitteeStep
  BY <1>1, <1>3, CreateGoverned, VoteGoverned, ExecuteGoverned, WithdrawGoverned DEF CommitteeStep
<1>4. ASSUME NEW o \in Operator, NEW r \in ActionID, CastDirectActionReviewVoteLate(o, r)
      PROVE  Governed' /\ ProposalsStay /\ RecordsStay
  BY <1>1, <1>4, RatifyGoverned DEF CastDirectActionReviewVoteLate
<1>5. ASSUME NEW r \in ActionID, RatifyDirectAction(r)
      PROVE  Governed' /\ ProposalsStay /\ RecordsStay
  BY <1>1, <1>5, RatifyGoverned DEF RatifyDirectAction
<1>6. CASE DirectStep
  BY <1>1, <1>4, <1>5, <1>6, DirectGoverned, ReviewGoverned DEF DirectStep
<1>7. CASE TerminateStep
  <2>1. UNCHANGED <<committeeVars, records, tags>> /\ terminated' \subseteq IntentID
    BY <1>2, <1>7 DEF TerminateStep
  <2> QED
    BY <1>1, <2>1, OthersGoverned
<1>8. CASE UNCHANGED governanceVars
  <2>1. UNCHANGED <<committeeVars, records, tags>> /\ terminated' \subseteq IntentID
    BY <1>2, <1>8 DEF governanceVars
  <2> QED
    BY <1>1, <2>1, OthersGoverned
<1> QED
  BY <1>3, <1>6, <1>7, <1>8 DEF GovernanceNext

LEMMA GovernedInit == GovernanceInit => Governed
<1> SUFFICES ASSUME GovernanceInit PROVE Governed
  OBVIOUS
<1>1. operators \in [Operator -> GovernanceOperator \cup {None}]
  BY DEF GovernanceInit, GovernanceOperator
<1>2. operatorNonces \in [Operator -> 0..MaxRequests]
  BY GovernanceAssumption DEF GovernanceInit
<1>3. config \in Config
  BY RequestAssumption DEF GovernanceInit
<1>4. /\ proposals = [p \in ProposalID |-> None] /\ records = [r \in ActionID |-> None]
      /\ tags = [h \in Hash |-> None] /\ terminated = {}
  BY DEF GovernanceInit
<1> QED
  BY <1>1, <1>2, <1>3, <1>4 DEF Governed, GovernanceTypeOK, AboutDeals

-----------------------------------------------------------------------------
(***************************************************************************)
(* What is decided, and what is under review                               *)
(***************************************************************************)
\* A deal of which something is gone: its fund is closed, or it is to be deleted.
Gone(i) == (funds[i] # None /\ funds[i].Closed) \/ (\E t \in deleteTasks : t.Intent = i)

\* Who may have it closed and deleted.
ByProposal(i) ==
  \E p \in ProposalID : /\ proposals[p] # None /\ proposals[p].Status = "executed"
                        /\ proposals[p].Req.Action = "block" /\ proposals[p].Req.Intent = i
                        /\ ~proposals[p].Req.Preserve

ByReview(i) ==
  \E r \in ActionID : /\ records[r] # None /\ records[r].Intent = i
                      /\ records[r].ReviewStatus \in {"ratified", "auto_ratified"}
                      /\ records[r].Action = "block" /\ ~records[r].Preserve

Warrant(i) == i \in terminated \/ ByProposal(i) \/ ByReview(i)

LEMMA WarrantStays ==
  ASSUME ProposalsStay, RecordsStay, terminated \subseteq terminated', NEW i, Warrant(i)
  PROVE  Warrant(i)'
<1>1. CASE i \in terminated
  BY <1>1 DEF Warrant
<1>2. CASE ByProposal(i)
  <2>1. PICK p \in ProposalID :
          /\ proposals[p] # None /\ proposals[p].Status = "executed"
          /\ proposals[p].Req.Action = "block" /\ proposals[p].Req.Intent = i
          /\ ~proposals[p].Req.Preserve
    BY <1>2 DEF ByProposal
  <2>2. proposals'[p] = proposals[p]
    BY <2>1 DEF ProposalsStay
  <2>3. ByProposal(i)'
    BY <2>1, <2>2 DEF ByProposal
  <2> QED
    BY <2>3 DEF Warrant
<1>3. CASE ByReview(i)
  <2>1. PICK r \in ActionID :
          /\ records[r] # None /\ records[r].Intent = i
          /\ records[r].ReviewStatus \in {"ratified", "auto_ratified"}
          /\ records[r].Action = "block" /\ ~records[r].Preserve
    BY <1>3 DEF ByReview
  <2>2. records'[r] = records[r]
    BY <2>1 DEF RecordsStay
  <2>3. ByReview(i)'
    BY <2>1, <2>2 DEF ByReview
  <2> QED
    BY <2>3 DEF Warrant
<1> QED
  BY <1>1, <1>2, <1>3 DEF Warrant

\* Deals other than i lose nothing.
OthersStay(i) == \A j \in IntentID \ {i} : Gone(j)' => Gone(j)

LEMMA FundsSame ==
  ASSUME UNCHANGED <<funds, deleteTasks>>, NEW i
  PROVE  Gone(i)' => Gone(i)
BY DEF Gone

\* A fund that is made, filled or spent is not closed by that.
LEMMA FundStays ==
  ASSUME WellFormed, NEW i \in IntentID, NEW f, f.Closed => funds[i] # None /\ funds[i].Closed,
         funds' = [funds EXCEPT ![i] = f] \/ UNCHANGED funds, UNCHANGED deleteTasks
  PROVE  \A j \in IntentID : Gone(j)' => Gone(j)
<1>1. DOMAIN funds = IntentID
  BY DEF WellFormed, MoneyOK
<1>2. ASSUME NEW j \in IntentID, funds'[j] # None /\ funds'[j].Closed
      PROVE  funds[j] # None /\ funds[j].Closed
  <2>1. CASE j = i
    BY <1>1, <1>2, <2>1
  <2>2. CASE j # i
    BY <1>1, <1>2, <2>2
  <2> QED
    BY <2>1, <2>2
<1> QED
  BY <1>2 DEF Gone

LEMMA EnsuredOpen ==
  ASSUME NEW i \in IntentID, NEW x
  PROVE  ensurePermanentFund(i, x).Closed => funds[i] # None /\ funds[i].Closed
BY DEF ensurePermanentFund

LEMMA FinalizeStays ==
  ASSUME WellFormed, NEW i \in IntentID, Finalize(i)
  PROVE  \A j \in IntentID : Gone(j)' => Gone(j)
<1> DEFINE x == [intents[i] EXCEPT !.Status = "finalized", !.StorageStatus = "active",
                   !.ModerationStatus = "none",
                   !.ExpiresAt = IF isPermanentIntent(intents[i]) THEN @ ELSE now + intents[i].Policy.Duration,
                   !.StartAt = IF @ = None THEN now ELSE @]
           share == Share(x.LockedFee)
           y == [x EXCEPT !.LockedFee = @ - 3 * share, !.BurnedFee = share, !.BurnDeferred = FALSE]
<1>1. executeDeferredBurn(i, x) /\ UNCHANGED deleteTasks
  BY DEF Finalize, deleteVars
<1> HIDE DEF x
<1>2. funds' = [funds EXCEPT ![i] = ensurePermanentFund(i, y)] \/ UNCHANGED funds
  BY <1>1 DEF executeDeferredBurn
<1> HIDE DEF y
<1> QED
  BY <1>1, <1>2, EnsuredOpen, FundStays

LEMMA TopUpStays ==
  ASSUME WellFormed, NEW i \in IntentID, NEW amount \in Nat, TopUpPermanentFund(i, amount)
  PROVE  \A j \in IntentID : Gone(j)' => Gone(j)
<1> DEFINE fund == ensurePermanentFund(i, intents[i])
           b == fund.Balance + amount
           g == [fund EXCEPT !.Balance = b, !.Closed = FALSE]
<1>1. funds' = [funds EXCEPT ![i] = g] /\ UNCHANGED deleteTasks
  BY DEF TopUpPermanentFund, deleteVars
<1>2. fund \in PermanentStorageFund
  BY IntentExists, FundTyped DEF TopUpPermanentFund, WellFormed
<1> HIDE DEF fund
<1>3. b \in Nat
  BY <1>2 DEF PermanentStorageFund
<1> HIDE DEF b
<1>4. ~g.Closed
  BY <1>2, <1>3 DEF PermanentStorageFund
<1> HIDE DEF g
<1> QED
  BY <1>1, <1>4, FundStays

LEMMA PayStays ==
  ASSUME WellFormed, NEW i \in IntentID, Exists(i), NEW m, NEW source, NEW reward,
         payReward(i, m, source, reward), UNCHANGED deleteTasks
  PROVE  \A j \in IntentID : Gone(j)' => Gone(j)
<1> DEFINE fund == ensurePermanentFund(i, intents[i])
           paid == fromFees(i, reward)
           b == fund.Balance - paid
           n == fund.Paid + paid
           g == [fund EXCEPT !.Balance = b, !.Paid = n]
<1>1. funds' = [funds EXCEPT ![i] = g] \/ UNCHANGED funds
  BY DEF payReward
<1>2. fund \in PermanentStorageFund /\ (fund.Closed => funds[i] # None /\ funds[i].Closed)
  BY IntentExists, FundTyped, EnsuredOpen DEF WellFormed
<1> HIDE DEF fund, b, n
<1>3. g.Closed = fund.Closed
  BY <1>2 DEF PermanentStorageFund
<1> HIDE DEF g
<1> QED
  BY <1>1, <1>2, <1>3, FundStays

LEMMA SubmitProofStays ==
  ASSUME WellFormed, NEW c \in challenges, SubmitProof(c)
  PROVE  \A j \in IntentID : Gone(j)' => Gone(j)
<1>1. c.Intent \in IntentID /\ Exists(c.Intent) /\ UNCHANGED deleteTasks
  BY DEF WellFormed, WorkOK, StorageChallenge, SubmitProof, deleteVars
<1>2. \/ payReward(c.Intent, c.Miner, "repair",
                   IF completeRepairTaskAfterProof(c) = {} THEN 0 ELSE RepairReward)
      \/ payReward(c.Intent, c.Miner, "proof", payableStorageReward(c.Intent, Reward))
  BY DEF SubmitProof
<1> QED
  BY <1>1, <1>2, PayStays

LEMMA DeleteReceiptStays ==
  ASSUME WellFormed, NEW t \in deleteTasks, SubmitDeleteReceipt(t)
  PROVE  \A j \in IntentID : Gone(j)' => Gone(j)
<1> DEFINE fresh == IF <<t.Intent, t.Hash, t.Miner>> \in deleteReceipts THEN 0 ELSE 1
           p == fresh = 0
           u == [t EXCEPT !.Pending = p]
<1>1. deleteTasks' = (deleteTasks \ {t}) \cup {u} /\ UNCHANGED funds
  BY DEF SubmitDeleteReceipt
<1>2. t \in DeleteTask
  BY DEF WellFormed, DeletionOK
<1> HIDE DEF p
<1>3. u.Intent = t.Intent
  BY <1>2 DEF DeleteTask
<1> HIDE DEF u
<1> QED
  BY <1>1, <1>3 DEF Gone

\* Nothing the owner, the miners and the node do until the owner terminates the deal
\* closes it or has it deleted.
LEMMA DealStays ==
  ASSUME WellFormed, DealStep
  PROVE  \A j \in IntentID : Gone(j)' => Gone(j)
<1> USE DEF moneyVars, deleteVars, shardVars
<1>1. ASSUME NEW i \in IntentID,
             \/ CreateIntent(i) \/ BatchCommitLate(i)
             \/ \E s \in Shards(i), m \in Miner : BatchCommit(i, s, m)
      PROVE  \A j \in IntentID : Gone(j)' => Gone(j)
  BY <1>1, FundsSame DEF CreateIntent, BatchCommitLate, BatchCommit
<1>2. CASE UploadStep
  BY <1>1, <1>2, FinalizeStays DEF UploadStep
<1>3. ASSUME NEW i \in IntentID,
             \/ SettleIntent(i) \/ SettleExpiredIntents(i) \/ RenewDeal(i) \/ RenewRefused(i)
             \/ \E status \in AccessStatus : SetAccessPolicy(i, status)
      PROVE  \A j \in IntentID : Gone(j)' => Gone(j)
  BY <1>3, FundsSame
  DEF SettleIntent, SettleExpiredIntents, settleIntent, RenewDeal, RenewRefused, SetAccessPolicy
<1>4. CASE autoRenewDeals
  BY <1>4, FundsSame DEF autoRenewDeals
<1>5. CASE TermStep
  BY <1>3, <1>4, <1>5, TopUpStays DEF TermStep
<1>6. ASSUME NEW i, NEW s, NEW c, NEW b,
             CreateChallenge(i, s) \/ MissedProof(c) \/ CreateRepairTasks(i, s, b)
      PROVE  \A j \in IntentID : Gone(j)' => Gone(j)
  <2>1. CreateChallenge(i, s) => UNCHANGED <<funds, deleteTasks>>
    BY DEF CreateChallenge
  <2>2. MissedProof(c) => UNCHANGED <<funds, deleteTasks>>
    BY DEF MissedProof
  <2>3. CreateRepairTasks(i, s, b) => UNCHANGED <<funds, deleteTasks>>
    BY DEF CreateRepairTasks
  <2> QED
    BY <1>6, <2>1, <2>2, <2>3, FundsSame
<1>7. CASE ProofStep
  BY <1>6, <1>7, SubmitProofStays DEF ProofStep
<1> QED
  BY <1>2, <1>5, <1>7, DeleteReceiptStays DEF DealStep

LEMMA ClosedOthers ==
  ASSUME WellFormed, NEW i \in IntentID, Exists(i), NEW x \in Intent(i),
         NEW f, funds' = [funds EXCEPT ![i] = f] \/ UNCHANGED funds,
         ensureDeleteTasks(i, x) \/ UNCHANGED deleteTasks
  PROVE  OthersStay(i)
<1>1. \A t \in deleteTasks' : t \in deleteTasks \/ t.Intent = i
  BY EnsureForm
<1>2. \A j \in IntentID \ {i} : funds'[j] = funds[j]
  BY DEF WellFormed, MoneyOK
<1> QED
  BY <1>1, <1>2 DEF OthersStay, Gone

LEMMA ClosesOthers ==
  ASSUME WellFormed, NEW i \in IntentID, Exists(i), NEW x \in Intent(i), Closes(i, x)
  PROVE  OthersStay(i)
<1>1. Closing(x, BlockBurn(i, x)) \in Intent(i)
  BY ClosingTyped
<1>2. /\ ensureDeleteTasks(i, Closing(x, BlockBurn(i, x)))
      /\ funds' = [funds EXCEPT ![i] = closedFund(i, x).Fund] \/ UNCHANGED funds
  BY DEF Closes
<1> QED
  BY <1>1, <1>2, ClosedOthers

LEMMA TerminateOthers ==
  ASSUME WellFormed, NEW i \in IntentID, TerminateDeal(i)
  PROVE  OthersStay(i)
<1> DEFINE x == expireGovernanceAction(intents[i])
           y == EndedWith(x, TerminateBurn(i, x))
<1>1. /\ Exists(i) /\ y \in Intent(i)
      /\ funds' = [funds EXCEPT ![i] = closedFund(i, x).Fund] \/ UNCHANGED funds
      /\ ensureDeleteTasks(i, y) \/ UNCHANGED deleteTasks
  BY TerminateMeans
<1> HIDE DEF x, y
<1> QED
  BY <1>1, ClosedOthers

\* A moderation that preserves the storage closes nothing, another one at most its deal.
LEMMA ModerationStays ==
  ASSUME WellFormed, NEW i \in IntentID, NEW until \in Nat, NEW preserve \in BOOLEAN,
         Moderation(i, until, preserve)
  PROVE  /\ OthersStay(i)
         /\ preserve => UNCHANGED <<funds, deleteTasks>>
<1>1. CASE Freeze(i, until) \/ LegalHold(i) \/ Appeal(i)
  <2>1. UNCHANGED <<funds, deleteTasks>>
    BY <1>1 DEF Freeze, LegalHold, Appeal, deleteVars
  <2> QED
    BY <2>1, FundsSame DEF OthersStay
<1>2. CASE Block(i, preserve) /\ preserve
  <2>1. UNCHANGED <<funds, deleteTasks>>
    BY <1>2, BlockMeans DEF deleteVars
  <2> QED
    BY <2>1, FundsSame DEF OthersStay
<1>3. CASE Block(i, preserve) /\ ~preserve
  BY <1>3, BlockMeans, ClosesOthers
<1> QED
  BY <1>1, <1>2, <1>3 DEF Moderation

\* What is gone of a deal has gone by who may do that.
GoneByWarrant == \A i \in IntentID : Gone(i) => Warrant(i)

LEMMA GoneByOthers ==
  ASSUME GoneByWarrant, ProposalsStay, RecordsStay, terminated \subseteq terminated',
         NEW i \in IntentID, OthersStay(i), Warrant(i)' \/ (Gone(i)' => Gone(i))
  PROVE  GoneByWarrant'
<1>1. ASSUME NEW j \in IntentID, Gone(j)' PROVE Warrant(j)'
  <2>1. CASE Gone(j)
    BY <2>1, WarrantStays DEF GoneByWarrant
  <2>2. CASE ~Gone(j)
    BY <1>1, <2>2 DEF OthersStay
  <2> QED
    BY <2>1, <2>2
<1> QED
  BY <1>1 DEF GoneByWarrant

LEMMA GoneBySame ==
  ASSUME GoneByWarrant, ProposalsStay, RecordsStay, terminated \subseteq terminated',
         \A j \in IntentID : Gone(j)' => Gone(j)
  PROVE  GoneByWarrant'
BY WarrantStays DEF GoneByWarrant

\* Executing a proposal closes a deal only where it says so.
LEMMA EffectGone ==
  ASSUME Governed, WellFormed, GoneByWarrant, ProposalsStay, RecordsStay,
         terminated \subseteq terminated',
         NEW x \in GovernanceProposal, x.Req \in Requests, Effect(x),
         NEW p \in ProposalID, proposals'[p] # None, proposals'[p].Req = x.Req,
         proposals'[p].Status = "executed"
  PROVE  GoneByWarrant'
<1> DEFINE req == x.Req
           i == req.Intent
<1>1. i \in IntentID /\ req.Preserve \in BOOLEAN /\ x.Until \in Nat
  BY RequestAssumption, RequestTyped DEF GovernanceProposal
<1>2. \/ UNCHANGED <<funds, deleteTasks>>
      \/ /\ Moderation(i, x.Until, req.Preserve)
         /\ req.Action = "block" \/ Moderation(i, x.Until, TRUE)
  BY EffectMeans DEF dealVars, deleteVars
<1> HIDE DEF i, req
<1>3. CASE UNCHANGED <<funds, deleteTasks>>
  BY <1>3, FundsSame, GoneBySame
<1>4. CASE Moderation(i, x.Until, TRUE)
  BY <1>1, <1>4, FundsSame, ModerationStays, GoneBySame
<1>5. CASE Moderation(i, x.Until, req.Preserve) /\ req.Preserve
  BY <1>1, <1>5, FundsSame, ModerationStays, GoneBySame
<1>6. CASE Moderation(i, x.Until, req.Preserve) /\ ~req.Preserve /\ req.Action = "block"
  <2>1. ByProposal(i)'
    BY <1>6 DEF ByProposal, i, req
  <2> QED
    BY <1>1, <1>6, <2>1, ModerationStays, GoneByOthers DEF Warrant
<1> QED
  BY <1>1, <1>2, <1>3, <1>4, <1>5, <1>6

LEMMA VoteGone ==
  ASSUME Governed, WellFormed, GoneByWarrant, ProposalsStay, RecordsStay, NEW o \in Operator,
         NEW p \in ProposalID, NEW decision \in {"approve", "reject"}, CastGovernanceVote(o, p, decision)
  PROVE  GoneByWarrant'
<1> DEFINE voted == [proposals[p] EXCEPT !.Votes[o] = decision]
           reached == countProposalVotes(voted, "approve") >= Threshold(voted)
           status == IF reached THEN "executed" ELSE IF Unreachable(voted) THEN "rejected" ELSE voted.Status
           y == [voted EXCEPT !.Status = status]
<1>1. voted \in GovernanceProposal /\ voted.Req \in Requests
  BY VotedTyped
<1>2. /\ proposals' = [proposals EXCEPT ![p] = y]
      /\ IF reached THEN Effect(voted) ELSE UNCHANGED <<operators, config, tags, accountVars, dealVars>>
      /\ UNCHANGED terminated
  BY DEF CastGovernanceVote
<1>3. proposals'[p] = y
  BY <1>2 DEF Governed, GovernanceTypeOK
<1>4. proposals'[p] # None
  BY DEF ProposalsStay, CastGovernanceVote
<1> HIDE DEF voted, reached
<1>5. CASE reached
  <2>1. status = "executed" /\ Effect(voted)
    BY <1>2, <1>5
  <2> HIDE DEF status
  <2>2. y.Status = "executed" /\ y.Req = voted.Req
    BY <1>1, <2>1 DEF GovernanceProposal
  <2> HIDE DEF y
  <2> QED
    BY <1>1, <1>2, <1>3, <1>4, <2>1, <2>2, EffectGone
<1>6. CASE ~reached
  <2>1. UNCHANGED <<funds, deleteTasks>>
    BY <1>2, <1>6 DEF dealVars
  <2> QED
    BY <1>2, <2>1, FundsSame, GoneBySame
<1> QED
  BY <1>5, <1>6

LEMMA ExecuteGone ==
  ASSUME Governed, WellFormed, GoneByWarrant, ProposalsStay, RecordsStay, NEW o \in Operator,
         NEW p \in ProposalID, ExecuteGovernanceProposal(o, p)
  PROVE  GoneByWarrant'
<1> DEFINE x == proposals[p]
           y == [x EXCEPT !.Status = "executed"]
<1>1. x \in GovernanceProposal /\ x # None
  BY ProposalTyped DEF ExecuteGovernanceProposal
<1>2. proposals' = [proposals EXCEPT ![p] = y] /\ Effect(x) /\ UNCHANGED terminated
  BY DEF ExecuteGovernanceProposal
<1>3. proposals'[p] = y
  BY <1>2 DEF Governed, GovernanceTypeOK
<1>4. proposals'[p] # None
  BY <1>1 DEF ProposalsStay
<1> HIDE DEF x
<1>5. y.Status = "executed" /\ y.Req = x.Req /\ x.Req \in Requests
  BY <1>1 DEF GovernanceProposal
<1> HIDE DEF y
<1> QED
  BY <1>1, <1>2, <1>3, <1>4, <1>5, EffectGone

LEMMA DirectGone ==
  ASSUME WellFormed, GoneByWarrant, ProposalsStay, RecordsStay, NEW o \in Operator, NEW r \in ActionID,
         NEW req \in DirectRequests, DirectGovernanceAction(o, r, req)
  PROVE  GoneByWarrant'
<1> DEFINE until == now + FreezeTime
<1>1. until \in Nat /\ req.Intent \in IntentID /\ Moderation(req.Intent, until, TRUE)
  BY LaterNat, DealAssumption, DirectMeans, RequestTyped
<1>2. UNCHANGED terminated
  BY DEF DirectGovernanceAction
<1> HIDE DEF until
<1> QED
  BY <1>1, <1>2, ModerationStays, FundsSame, GoneBySame

LEMMA ReviewGone ==
  ASSUME Governed, GoneByWarrant, ProposalsStay, RecordsStay, NEW o \in Operator, NEW r \in ActionID,
         CastDirectActionReviewVote(o, r)
  PROVE  GoneByWarrant'
<1>1. UNCHANGED terminated
  BY DEF CastDirectActionReviewVote
<1>2. UNCHANGED <<funds, deleteTasks>>
  BY VoteRecords DEF rejectDirectAction, dealVars, deleteVars
<1> QED
  BY <1>1, <1>2, FundsSame, GoneBySame

LEMMA RatifyGone ==
  ASSUME Governed, WellFormed, GoneByWarrant, ProposalsStay, RecordsStay, NEW r \in ActionID, Reviewed(r),
         NEW status \in {"ratified", "auto_ratified"}, ratifyDirectAction(r, status), UNCHANGED terminated
  PROVE  GoneByWarrant'
<1>1. PICK i \in IntentID :
        /\ i = records[r].Intent /\ Exists(i) /\ intents[i] \in Intent(i)
        /\ IF records[r].Action = "block" /\ ~records[r].Preserve
           THEN Closes(i, intents[i]) /\ UNCHANGED blacklist
           ELSE UNCHANGED <<accountVars, dealVars>>
  BY RatifyMeans
<1>2. /\ records'[r].Intent = i /\ records'[r].ReviewStatus \in {"ratified", "auto_ratified"}
      /\ records'[r].Action = records[r].Action /\ records'[r].Preserve = records[r].Preserve
      /\ records'[r] # None
  BY <1>1, RatifyRecords DEF RecordsStay, Reviewed
<1>3. CASE records[r].Action = "block" /\ ~records[r].Preserve
  <2>1. ByReview(i)'
    BY <1>2, <1>3 DEF ByReview
  <2>2. OthersStay(i)
    BY <1>1, <1>3, ClosesOthers
  <2> QED
    BY <1>1, <2>1, <2>2, GoneByOthers DEF Warrant
<1>4. CASE ~(records[r].Action = "block" /\ ~records[r].Preserve)
  BY <1>1, <1>4, FundsSame, GoneBySame DEF dealVars
<1> QED
  BY <1>3, <1>4

LEMMA TerminateGone ==
  ASSUME WellFormed, GoneByWarrant, ProposalsStay, RecordsStay, TerminateStep
  PROVE  GoneByWarrant'
<1>1. PICK i \in IntentID : TerminateDeal(i) /\ terminated' = terminated \cup {i}
  BY DEF TerminateStep
<1>2. OthersStay(i)
  BY <1>1, TerminateOthers
<1> QED
  BY <1>1, <1>2, GoneByOthers DEF Warrant

LEMMA GoneStep ==
  ASSUME Governed, WellFormed, GoneByWarrant, [GovernanceNext]_<<accountVars, dealVars, governanceVars>>
  PROVE  GoneByWarrant'
<1>1. ProposalsStay /\ RecordsStay
  BY GovernedStep
<1>2. ASSUME UNCHANGED <<terminated, funds, deleteTasks>> PROVE GoneByWarrant'
  BY <1>1, <1>2, FundsSame, GoneBySame
<1>3. ASSUME NEW o \in Operator, NEW p \in ProposalID, NEW req \in Requests,
             CreateGovernanceProposal(o, p, req)
      PROVE  GoneByWarrant'
  BY <1>2, <1>3 DEF CreateGovernanceProposal, dealVars
<1>4. ASSUME NEW p \in ProposalID, ExpireOnUse(p) \/ CancelGovernanceProposal(p)
      PROVE  GoneByWarrant'
  BY <1>2, <1>4 DEF ExpireOnUse, CancelGovernanceProposal, dealVars
<1>5. CASE CommitteeStep
  BY <1>1, <1>3, <1>4, <1>5, VoteGone, ExecuteGone DEF CommitteeStep
<1>6. ASSUME NEW o \in Operator, NEW r \in ActionID, CastDirectActionReviewVoteLate(o, r)
      PROVE  GoneByWarrant'
  BY <1>1, <1>6, RatifyGone DEF CastDirectActionReviewVoteLate
<1>7. ASSUME NEW r \in ActionID, RatifyDirectAction(r)
      PROVE  GoneByWarrant'
  BY <1>1, <1>7, RatifyGone DEF RatifyDirectAction
<1>8. CASE DirectStep
  BY <1>1, <1>6, <1>7, <1>8, DirectGone, ReviewGone DEF DirectStep
<1>9. CASE TerminateStep
  BY <1>1, <1>9, TerminateGone
<1>10. CASE DealStep /\ UNCHANGED governanceVars
  BY <1>1, <1>10, DealStays, GoneBySame DEF governanceVars
<1>11. CASE UNCHANGED dealVars /\ UNCHANGED governanceVars
  BY <1>2, <1>11 DEF dealVars, governanceVars
<1> QED
  BY <1>5, <1>8, <1>9, <1>10, <1>11 DEF GovernanceNext

-----------------------------------------------------------------------------
\* An entry that is under review is there, and there is what it is under review for.
TagsKept ==
  \A h \in Hash : tags[h] # None =>
    /\ blacklist[h] # None
    /\ Reviewed(tags[h])
    /\ h \in hashesOf(records[tags[h]].Intent)

\* What is still under review remains so, except for r.
ReviewsStay(r) ==
  \A q \in ActionID \ {r} : Reviewed(q) => Reviewed(q)' /\ records'[q].Intent = records[q].Intent

\* Each entry that is under review was, or is so now for r.
LEMMA TagsStay ==
  ASSUME Governed, TagsKept, NEW r \in ActionID \cup {None}, ReviewsStay(r),
         \A h \in Hash : tags'[h] # None =>
           \/ tags'[h] = tags[h] /\ tags[h] # r /\ blacklist'[h] # None
           \/ /\ tags'[h] = r /\ blacklist'[h] # None
              /\ Reviewed(r)' /\ h \in hashesOf(records'[r].Intent)
  PROVE  TagsKept'
<1>1. ASSUME NEW h \in Hash, tags'[h] # None
      PROVE  /\ blacklist'[h] # None /\ records'[tags'[h]] # None
             /\ records'[tags'[h]].ReviewStatus = "pending_review"
             /\ h \in hashesOf(records'[tags'[h]].Intent)
  <2>1. CASE tags'[h] = tags[h] /\ tags[h] # r /\ blacklist'[h] # None
    <3>1. tags[h] \in ActionID
      BY <1>1, <2>1 DEF Governed, GovernanceTypeOK
    <3>2. Reviewed(tags[h]) /\ h \in hashesOf(records[tags[h]].Intent)
      BY <1>1, <2>1 DEF TagsKept
    <3>3. /\ records'[tags[h]] # None /\ records'[tags[h]].ReviewStatus = "pending_review"
          /\ records'[tags[h]].Intent = records[tags[h]].Intent
      BY <2>1, <3>1, <3>2 DEF ReviewsStay, Reviewed
    <3> QED
      BY <2>1, <3>2, <3>3
  <2>2. CASE /\ tags'[h] = r /\ blacklist'[h] # None
             /\ records'[r] # None /\ records'[r].ReviewStatus = "pending_review"
             /\ h \in hashesOf(records'[r].Intent)
    BY <2>2
  <2> QED
    BY <1>1, <2>1, <2>2 DEF Reviewed
<1> QED
  BY <1>1 DEF TagsKept, Reviewed, hashesOf, Shards, Segments, Parity

LEMMA TagsSame ==
  ASSUME Governed, TagsKept, UNCHANGED <<tags, blacklist, records>>
  PROVE  TagsKept'
BY DEF TagsKept, Reviewed

\* A moderation changes the entries of its deal only.
LEMMA OthersListed ==
  ASSUME WellFormed, NEW i \in IntentID, NEW until \in Nat, NEW preserve \in BOOLEAN,
         Moderation(i, until, preserve), NEW h \in Hash, h \notin hashesOf(i)
  PROVE  blacklist'[h] = blacklist[h]
<1>1. \/ \E e : addBlacklistForIntent(i, e)
      \/ removeBlacklistForIntent(i)
  BY BlockMeans DEF Moderation, Freeze, LegalHold, Appeal
<1> QED
  BY <1>1 DEF addBlacklistForIntent, removeBlacklistForIntent

LEMMA EffectTags ==
  ASSUME Governed, WellFormed, TagsKept, NEW x \in GovernanceProposal, x.Req \in Requests,
         Effect(x), UNCHANGED records
  PROVE  TagsKept'
<1> DEFINE req == x.Req
           i == req.Intent
<1>1. i \in IntentID /\ req.Preserve \in BOOLEAN /\ x.Until \in Nat
  BY RequestAssumption, RequestTyped DEF GovernanceProposal
<1>2. \/ UNCHANGED <<tags, blacklist>>
      \/ Moderation(i, x.Until, req.Preserve) /\ TagWith(i, None)
  BY EffectMeans DEF dealVars
<1> HIDE DEF i, req
<1>3. CASE UNCHANGED <<tags, blacklist>>
  BY <1>3, TagsSame
<1>4. CASE Moderation(i, x.Until, req.Preserve) /\ TagWith(i, None)
  <2>1. ASSUME NEW h \in Hash, tags'[h] # None
        PROVE  tags'[h] = tags[h] /\ tags[h] # None /\ blacklist'[h] # None
    <3>1. h \notin hashesOf(i) /\ tags'[h] = tags[h]
      BY <1>4, <2>1 DEF TagWith
    <3>2. blacklist'[h] = blacklist[h]
      BY <1>1, <1>4, <3>1, OthersListed
    <3> QED
      BY <2>1, <3>1, <3>2 DEF TagsKept
  <2>2. ReviewsStay(None)
    BY DEF ReviewsStay, Reviewed
  <2> QED
    BY <2>1, <2>2, TagsStay
<1> QED
  BY <1>2, <1>3, <1>4

LEMMA DirectListed ==
  ASSUME WellFormed, NEW i \in IntentID, NEW until \in Nat, Freeze(i, until) \/ Block(i, TRUE) \/ LegalHold(i),
         NEW h \in Hash, h \in hashesOf(i)
  PROVE  blacklist'[h] # None
<1>1. \E e \in Nat : addBlacklistForIntent(i, e)
  BY BlockMeans DEF Freeze, LegalHold
<1> QED
  BY <1>1, DealNone DEF addBlacklistForIntent

LEMMA DirectTags ==
  ASSUME Governed, WellFormed, TagsKept, NEW o \in Operator, NEW r \in ActionID,
         NEW req \in DirectRequests, DirectGovernanceAction(o, r, req)
  PROVE  TagsKept'
<1> DEFINE i == req.Intent
           until == now + FreezeTime
<1>1. /\ i \in IntentID /\ until \in Nat /\ Moderation(i, until, TRUE)
      /\ Freeze(i, until) \/ Block(i, TRUE) \/ LegalHold(i)
  BY LaterNat, DealAssumption, DirectMeans, RequestTyped
<1>2. TagWith(i, r)
  BY DEF DirectGovernanceAction
<1>3. /\ RecordsStay /\ records[r] = None /\ records'[r] # None /\ records'[r].Intent = i
      /\ records'[r].ReviewStatus = "pending_review"
      /\ \A q \in ActionID \ {r} : records'[q] = records[q]
  BY DirectRecords
<1> HIDE DEF i, until
<1>4. ASSUME NEW h \in Hash, tags'[h] # None
      PROVE  \/ tags'[h] = tags[h] /\ tags[h] # r /\ blacklist'[h] # None
             \/ /\ tags'[h] = r /\ blacklist'[h] # None
                /\ Reviewed(r)' /\ h \in hashesOf(records'[r].Intent)
  <2>1. CASE h \in hashesOf(i)
    <3>1. tags'[h] = r /\ blacklist'[h] # None
      BY <1>1, <1>2, <2>1, DirectListed DEF TagWith
    <3> QED
      BY <1>3, <2>1, <3>1 DEF Reviewed
  <2>2. CASE h \notin hashesOf(i)
    <3>1. tags'[h] = tags[h] /\ blacklist'[h] = blacklist[h]
      BY <1>1, <1>2, <2>2, OthersListed DEF TagWith
    <3>2. blacklist[h] # None /\ Reviewed(tags[h])
      BY <1>4, <3>1 DEF TagsKept
    <3> QED
      BY <1>3, <3>1, <3>2 DEF Reviewed
  <2> QED
    BY <2>1, <2>2
<1>5. ReviewsStay(r)
  BY <1>3 DEF ReviewsStay, Reviewed
<1> QED
  BY <1>4, <1>5, TagsStay

LEMMA UntaggedTags ==
  ASSUME Governed, TagsKept, NEW r \in ActionID, tags' = Untagged(r),
         \A h \in Hash : tags[h] # r => blacklist'[h] = blacklist[h],
         \A q \in ActionID \ {r} : records'[q] = records[q]
  PROVE  TagsKept'
<1>1. ASSUME NEW h \in Hash, tags'[h] # None
      PROVE  tags'[h] = tags[h] /\ tags[h] # r /\ blacklist'[h] # None
  BY <1>1 DEF Untagged, TagsKept
<1>2. ReviewsStay(r)
  BY DEF ReviewsStay, Reviewed
<1> QED
  BY <1>1, <1>2, TagsStay

LEMMA ReviewTags ==
  ASSUME Governed, TagsKept, NEW o \in Operator, NEW r \in ActionID, CastDirectActionReviewVote(o, r)
  PROVE  TagsKept'
<1>1. /\ Reviewed(r) /\ records'[r].Intent = records[r].Intent /\ RecordsStay
      /\ \A q \in ActionID \ {r} : records'[q] = records[q]
  BY VoteRecords
<1>2. CASE rejectDirectAction(r)
  <2>1. tags' = Untagged(r) /\ \A h \in Hash : tags[h] # r => blacklist'[h] = blacklist[h]
    BY <1>2 DEF rejectDirectAction, removeBlacklistByActionID
  <2> QED
    BY <1>1, <2>1, UntaggedTags
<1>3. CASE records'[r].ReviewStatus = "pending_review" /\ UNCHANGED <<tags, dealVars>>
  <2>1. UNCHANGED <<tags, blacklist>>
    BY <1>3 DEF dealVars
  <2>2. records'[r] # None
    BY <1>1 DEF RecordsStay, Reviewed
  <2>3. ReviewsStay(None)
    <3>1. ASSUME NEW q \in ActionID, records[q] # None, records[q].ReviewStatus = "pending_review"
          PROVE  /\ records'[q] # None /\ records'[q].ReviewStatus = "pending_review"
                 /\ records'[q].Intent = records[q].Intent
      BY <1>1, <1>3, <2>2, <3>1
    <3> QED
      BY <3>1 DEF ReviewsStay, Reviewed
  <2> QED
    BY <2>1, <2>3, TagsStay DEF TagsKept
<1> QED
  BY <1>2, <1>3, VoteRecords

LEMMA RatifyTags ==
  ASSUME Governed, WellFormed, TagsKept, NEW r \in ActionID, Reviewed(r),
         NEW status \in {"ratified", "auto_ratified"}, ratifyDirectAction(r, status)
  PROVE  TagsKept'
<1>1. UNCHANGED blacklist /\ tags' = Untagged(r)
  BY RatifyMeans DEF clearBlacklistReviewStatus, dealVars
<1>2. \A q \in ActionID \ {r} : records'[q] = records[q]
  BY RatifyRecords
<1> QED
  BY <1>1, <1>2, UntaggedTags

LEMMA DealListed ==
  ASSUME DealStep PROVE UNCHANGED blacklist
<1> USE DEF moneyVars, deleteVars, shardVars
<1>1. ASSUME NEW i \in IntentID,
             \/ CreateIntent(i) \/ BatchCommitLate(i)
             \/ \E s \in Shards(i), m \in Miner : BatchCommit(i, s, m)
      PROVE  UNCHANGED blacklist
  BY <1>1 DEF CreateIntent, BatchCommitLate, BatchCommit
<1>2. ASSUME NEW i \in IntentID, Finalize(i) PROVE UNCHANGED blacklist
  BY <1>2 DEF Finalize
<1>3. ASSUME NEW i \in IntentID,
             \/ SettleIntent(i) \/ SettleExpiredIntents(i) \/ RenewDeal(i) \/ RenewRefused(i)
             \/ \E status \in AccessStatus : SetAccessPolicy(i, status)
      PROVE  UNCHANGED blacklist
  BY <1>3
  DEF SettleIntent, SettleExpiredIntents, settleIntent, RenewDeal, RenewRefused, SetAccessPolicy
<1>4. ASSUME NEW i \in IntentID, NEW a \in Nat, TopUpPermanentFund(i, a) PROVE UNCHANGED blacklist
  BY <1>4 DEF TopUpPermanentFund
<1>5. CASE autoRenewDeals
  BY <1>5 DEF autoRenewDeals
<1>6. ASSUME NEW i, NEW s, CreateChallenge(i, s) PROVE UNCHANGED blacklist
  BY <1>6 DEF CreateChallenge
<1>7. ASSUME NEW c, MissedProof(c) PROVE UNCHANGED blacklist
  BY <1>7 DEF MissedProof
<1>8. ASSUME NEW c, SubmitProof(c) PROVE UNCHANGED blacklist
  BY <1>8 DEF SubmitProof
<1>9. ASSUME NEW i, NEW u, NEW b, CreateRepairTasks(i, u, b) PROVE UNCHANGED blacklist
  BY <1>9 DEF CreateRepairTasks
<1>10. ASSUME NEW t, SubmitDeleteReceipt(t) PROVE UNCHANGED blacklist
  BY <1>10 DEF SubmitDeleteReceipt
<1>11. CASE UploadStep
  BY <1>1, <1>2, <1>11 DEF UploadStep
<1>12. CASE TermStep
  BY <1>3, <1>4, <1>5, <1>12 DEF TermStep
<1>13. CASE ProofStep
  BY <1>6, <1>7, <1>8, <1>9, <1>13 DEF ProofStep
<1> QED
  BY <1>10, <1>11, <1>12, <1>13 DEF DealStep

LEMMA TagsStep ==
  ASSUME Governed, WellFormed, TagsKept, [GovernanceNext]_<<accountVars, dealVars, governanceVars>>
  PROVE  TagsKept'
<1>1. ASSUME NEW o \in Operator, NEW p \in ProposalID, NEW req \in Requests,
             CreateGovernanceProposal(o, p, req)
      PROVE  TagsKept'
  BY <1>1, TagsSame DEF CreateGovernanceProposal, dealVars
<1>2. ASSUME NEW o \in Operator, NEW p \in ProposalID, NEW decision \in {"approve", "reject"},
             CastGovernanceVote(o, p, decision)
      PROVE  TagsKept'
  <2> DEFINE voted == [proposals[p] EXCEPT !.Votes[o] = decision]
  <2>1. /\ voted \in GovernanceProposal /\ voted.Req \in Requests
        /\ Effect(voted) \/ UNCHANGED <<tags, dealVars>>
    BY <1>2, VotedTyped
  <2>2. UNCHANGED records
    BY <1>2 DEF CastGovernanceVote
  <2> HIDE DEF voted
  <2> QED
    BY <2>1, <2>2, EffectTags, TagsSame DEF dealVars
<1>3. ASSUME NEW o \in Operator, NEW p \in ProposalID, ExecuteGovernanceProposal(o, p)
      PROVE  TagsKept'
  <2>1. proposals[p] \in GovernanceProposal /\ Effect(proposals[p]) /\ UNCHANGED records
    BY <1>3, ProposalTyped DEF ExecuteGovernanceProposal
  <2>2. proposals[p].Req \in Requests
    BY <2>1 DEF GovernanceProposal
  <2> QED
    BY <2>1, <2>2, EffectTags
<1>4. ASSUME NEW p \in ProposalID, ExpireOnUse(p) \/ CancelGovernanceProposal(p)
      PROVE  TagsKept'
  BY <1>4, TagsSame DEF ExpireOnUse, CancelGovernanceProposal, dealVars
<1>5. CASE CommitteeStep
  BY <1>1, <1>2, <1>3, <1>4, <1>5 DEF CommitteeStep
<1>6. ASSUME NEW o \in Operator, NEW r \in ActionID, CastDirectActionReviewVoteLate(o, r)
      PROVE  TagsKept'
  BY <1>6, RatifyTags DEF CastDirectActionReviewVoteLate
<1>7. ASSUME NEW r \in ActionID, RatifyDirectAction(r)
      PROVE  TagsKept'
  BY <1>7, RatifyTags DEF RatifyDirectAction
<1>8. CASE DirectStep
  BY <1>6, <1>7, <1>8, DirectTags, ReviewTags DEF DirectStep
<1>9. CASE TerminateStep
  BY <1>9, TerminateMeans, TagsSame DEF TerminateStep
<1>10. CASE DealStep /\ UNCHANGED governanceVars
  BY <1>10, DealListed, TagsSame DEF governanceVars
<1>11. CASE UNCHANGED dealVars /\ UNCHANGED governanceVars
  BY <1>11, TagsSame DEF dealVars, governanceVars
<1> QED
  BY <1>5, <1>8, <1>9, <1>10, <1>11 DEF GovernanceNext

-----------------------------------------------------------------------------
LEMMA ReviewInit ==
  ASSUME AccountsInit, DealsInit, GovernanceInit
  PROVE  WellFormed /\ Governed /\ GoneByWarrant /\ TagsKept
<1>1. WellFormed
  BY InitForm
<1>2. Governed
  BY GovernedInit
<1>3. GoneByWarrant
  BY DEF DealsInit, GoneByWarrant, Gone
<1>4. TagsKept
  BY DEF GovernanceInit, TagsKept
<1> QED
  BY <1>1, <1>2, <1>3, <1>4

LEMMA ReviewKept ==
  GovernanceSpec => [](WellFormed /\ Governed /\ GoneByWarrant /\ TagsKept)
<1>1. AccountsInit /\ DealsInit /\ GovernanceInit => WellFormed /\ Governed /\ GoneByWarrant /\ TagsKept
  BY ReviewInit
<1>2. /\ WellFormed /\ Governed /\ GoneByWarrant /\ TagsKept
      /\ [GovernanceNext]_<<accountVars, dealVars, governanceVars>>
      => (WellFormed /\ Governed /\ GoneByWarrant /\ TagsKept)'
  BY GovernanceForm, GovernedStep, GoneStep, TagsStep
<1> QED
  BY <1>1, <1>2, PTL DEF GovernanceSpec

\* What cannot be undone is done only on the word of the owner, of the committee, or
\* after a review (governance_proposals.go, ratifyDirectAction); an entry that is marked
\* as under review has a record that is.
THEOREM ReviewIsRespected == GovernanceSpec => []ReviewRespected
<1>1. WellFormed /\ Governed /\ GoneByWarrant /\ TagsKept => ReviewRespected
  <2> SUFFICES ASSUME Governed, GoneByWarrant, TagsKept PROVE ReviewRespected
    OBVIOUS
  <2>1. GovernanceTypeOK
    BY DEF Governed
  <2>2. NothingDeletedUnderReview
    BY DEF GoneByWarrant, Gone, Warrant, ByProposal, ByReview, NothingDeletedUnderReview
  <2>3. TagsUnderReview
    BY DEF TagsKept, Reviewed, TagsUnderReview
  <2> QED
    BY <2>1, <2>2, <2>3 DEF ReviewRespected
<1> QED
  BY <1>1, ReviewKept, PTL

-----------------------------------------------------------------------------
\* As many as a part of n, rounded up, are at least that part.
LEMMA RoundedUp ==
  ASSUME NEW n \in Nat, NEW a \in Nat, NEW b \in Nat \ {0}, NEW k \in Nat,
         k >= (n * a + b - 1) \div b
  PROVE  k * b >= n * a
<1> DEFINE m == n * a
           q == (m + b - 1) \div b
<1>1. m \in Nat
  OBVIOUS
<1> HIDE DEF m
<1>2. q \in Nat /\ m + b - 1 < b * q + b
  <2> DEFINE z == m + b - 1
  <2>1. z \in Nat
    BY <1>1
  <2> HIDE DEF z
  <2>2. z \div b \in Nat /\ z < b * (z \div b) + b
    BY <2>1
  <2> QED
    BY <2>2 DEF z
<1> HIDE DEF q
<1>3. b * q >= m
  <2> DEFINE r == b * q
  <2>1. r \in Nat
    BY <1>2
  <2>2. m + b - 1 < r + b
    BY <1>2
  <2> HIDE DEF r
  <2>3. r >= m
    BY <1>1, <2>1, <2>2
  <2> QED
    BY <2>3 DEF r
<1>4. k >= q
  BY DEF q, m
<1>5. k * b >= b * q
  <2>1. PICK d \in Nat : k = q + d
    <3>1. k - q \in Nat /\ k = q + (k - q)
      BY <1>2, <1>4
    <3> QED
      BY <3>1
  <2>2. (q + d) * b = b * q + d * b
    BY <1>2
  <2>3. d * b \in Nat /\ b * q \in Nat
    BY <1>2
  <2> QED
    BY <2>1, <2>2, <2>3
<1>6. b * q \in Nat /\ k * b \in Nat
  BY <1>2
<1>7. k * b >= m
  BY <1>1, <1>3, <1>5, <1>6
<1> QED
  BY <1>7 DEF m

\* As many approve as the thresholds in force ask for.
Approved(x) ==
  Cardinality({o \in x.Snapshot : x.Votes[o] = "approve"}) * config.Change[2]
    >= Cardinality(x.Snapshot) * config.Change[1]

LEMMA ThresholdReached ==
  ASSUME Governed, NEW x \in GovernanceProposal, x.Req.Action \notin Deal,
         countProposalVotes(x, "approve") >= Threshold(x)
  PROVE  Approved(x)
<1> DEFINE k == Cardinality({o \in x.Snapshot : x.Votes[o] = "approve"})
           n == Cardinality(x.Snapshot)
<1>1. x.Snapshot \subseteq Operator
  BY DEF GovernanceProposal
<1>2. IsFiniteSet(x.Snapshot)
  BY <1>1, GovernanceAssumption, FS_Subset
<1>3. n \in Nat
  BY <1>2, FS_CardinalityType
<1>4. k \in Nat
  <2>1. IsFiniteSet({o \in x.Snapshot : x.Votes[o] = "approve"})
    BY <1>2, FS_Subset
  <2> QED
    BY <2>1, FS_CardinalityType
<1>5. config.Change[1] \in Nat /\ config.Change[2] \in Nat \ {0}
  BY DEF Governed, GovernanceTypeOK, Config, Fraction
<1>6. k >= (n * config.Change[1] + config.Change[2] - 1) \div config.Change[2]
  BY DEF countProposalVotes, Threshold, governanceThresholdFor
<1> HIDE DEF k, n
<1>7. k * config.Change[2] >= n * config.Change[1]
  BY <1>3, <1>4, <1>5, <1>6, RoundedUp
<1> QED
  BY <1>7 DEF Approved, k, n

LEMMA EffectChange ==
  ASSUME NEW x, Effect(x), operators' # operators \/ config' # config
  PROVE  x.Req.Action \notin Deal
BY DEF Effect, Deal, isOperatorManagementAction, isConfigAction, isMiningParamsAction, isFeeMarketAction

\* Operators, thresholds and parameters change only when p is executed.
ChangedBy(p) ==
  /\ proposals[p] # None /\ proposals[p].Status = "pending"
  /\ proposals'[p].Status = "executed"
  /\ Cardinality({o \in proposals[p].Snapshot : proposals'[p].Votes[o] = "approve"}) * config.Change[2]
       >= Cardinality(proposals[p].Snapshot) * config.Change[1]

LEMMA VoteChange ==
  ASSUME Governed, NEW o \in Operator, NEW p \in ProposalID, NEW decision \in {"approve", "reject"},
         CastGovernanceVote(o, p, decision), operators' # operators \/ config' # config
  PROVE  ChangedBy(p)
<1> DEFINE x == proposals[p]
           voted == [x EXCEPT !.Votes[o] = decision]
           reached == countProposalVotes(voted, "approve") >= Threshold(voted)
           status == IF reached THEN "executed" ELSE IF Unreachable(voted) THEN "rejected" ELSE voted.Status
           y == [voted EXCEPT !.Status = status]
<1>1. x \in GovernanceProposal /\ x # None /\ x.Status = "pending"
  BY ProposalTyped DEF CastGovernanceVote
<1>2. voted \in GovernanceProposal
  BY VotedTyped
<1>3. /\ proposals' = [proposals EXCEPT ![p] = y]
      /\ IF reached THEN Effect(voted) ELSE UNCHANGED <<operators, config, tags, accountVars, dealVars>>
  BY DEF CastGovernanceVote
<1>4. proposals'[p] = y
  BY <1>3 DEF Governed, GovernanceTypeOK
<1> HIDE DEF x
<1>5. voted.Snapshot = x.Snapshot
  BY <1>1 DEF GovernanceProposal
<1> HIDE DEF voted
<1>6. reached /\ Effect(voted)
  BY <1>3
<1>7. Approved(voted)
  BY <1>2, <1>6, EffectChange, ThresholdReached
<1>8. status = "executed"
  BY <1>6
<1> HIDE DEF status
<1>9. y.Status = "executed" /\ y.Votes = voted.Votes
  BY <1>2, <1>8 DEF GovernanceProposal
<1> HIDE DEF y
<1> QED
  BY <1>1, <1>4, <1>5, <1>7, <1>9 DEF ChangedBy, Approved, x

LEMMA ExecuteChange ==
  ASSUME Governed, NEW o \in Operator, NEW p \in ProposalID, ExecuteGovernanceProposal(o, p),
         operators' # operators \/ config' # config
  PROVE  ChangedBy(p)
<1> DEFINE x == proposals[p]
           y == [x EXCEPT !.Status = "executed"]
<1>1. x \in GovernanceProposal /\ x # None /\ x.Status = "pending"
  BY ProposalTyped DEF ExecuteGovernanceProposal
<1>2. /\ proposals' = [proposals EXCEPT ![p] = y] /\ Effect(x)
      /\ countProposalVotes(x, "approve") >= Threshold(x)
  BY DEF ExecuteGovernanceProposal
<1>3. proposals'[p] = y
  BY <1>2 DEF Governed, GovernanceTypeOK
<1>4. Approved(x)
  BY <1>1, <1>2, EffectChange, ThresholdReached
<1> HIDE DEF x
<1>5. y.Status = "executed" /\ y.Votes = x.Votes
  BY <1>1 DEF GovernanceProposal
<1> HIDE DEF y
<1> QED
  BY <1>1, <1>3, <1>4, <1>5 DEF ChangedBy, Approved, x

LEMMA ChangeStep ==
  ASSUME Governed, [GovernanceNext]_<<accountVars, dealVars, governanceVars>>,
         operators' # operators \/ config' # config
  PROVE  \E p \in ProposalID : ChangedBy(p)
<1>1. CASE CommitteeStep
  BY <1>1, VoteChange, ExecuteChange
  DEF CommitteeStep, CreateGovernanceProposal, ExpireOnUse, CancelGovernanceProposal
<1>2. CASE DirectStep
  <2>1. ASSUME NEW o, NEW r, NEW req, DirectGovernanceAction(o, r, req)
        PROVE  UNCHANGED <<operators, config>>
    BY <2>1 DEF DirectGovernanceAction
  <2>2. ASSUME NEW o, NEW r, CastDirectActionReviewVote(o, r)
        PROVE  UNCHANGED <<operators, config>>
    BY <2>2 DEF CastDirectActionReviewVote
  <2>3. ASSUME NEW o, NEW r, CastDirectActionReviewVoteLate(o, r) \/ RatifyDirectAction(r)
        PROVE  UNCHANGED <<operators, config>>
    BY <2>3 DEF CastDirectActionReviewVoteLate, RatifyDirectAction, committeeVars
  <2> QED
    BY <1>2, <2>1, <2>2, <2>3 DEF DirectStep
<1>3. CASE TerminateStep
  BY <1>3 DEF TerminateStep, committeeVars
<1>4. CASE UNCHANGED governanceVars
  BY <1>4 DEF governanceVars, committeeVars
<1> QED
  BY <1>1, <1>2, <1>3, <1>4 DEF GovernanceNext

\* The committee decides by the thresholds in force (countProposalVotes,
\* governanceThresholdFor), and nothing that is decided is opened again.
THEOREM DecidedByQuorum == GovernanceSpec => QuorumDecides
<1> DEFINE Next == [GovernanceNext]_<<accountVars, dealVars, governanceVars>>
           Changed == operators' # operators \/ config' # config => \E p \in ProposalID : ChangedBy(p)
           Decided == /\ \A p \in ProposalID : proposals[p] # None /\ proposals[p].Status # "pending" =>
                           proposals'[p] = proposals[p]
                      /\ \A r \in ActionID : records[r] # None /\ records[r].ReviewStatus # "pending_review" =>
                           records'[r] = records[r]
<1>1. WellFormed /\ Governed /\ GoneByWarrant /\ TagsKept /\ Next => Changed /\ Decided
  <2> SUFFICES ASSUME WellFormed, Governed, Next PROVE Changed /\ Decided
    OBVIOUS
  <2>1. Changed
    BY ChangeStep
  <2>2. Decided
    BY GovernedStep DEF ProposalsStay, RecordsStay
  <2> QED
    BY <2>1, <2>2
<1>2. [][Changed]_<<operators, config, proposals>> <=> ChangedByQuorum
  BY DEF ChangedByQuorum, ChangedBy
<1>3. [][Decided]_<<proposals, records>> <=> DecidedStays
  BY DEF DecidedStays
<1> QED
  BY <1>1, <1>2, <1>3, ReviewKept, PTL DEF GovernanceSpec, QuorumDecides
=============================================================================
