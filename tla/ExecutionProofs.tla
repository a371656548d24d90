--------------------------- MODULE ExecutionProofs ---------------------------
(***************************************************************************)
(* Proofs about module Execution: tokens are conserved, no nonce is used   *)
(* twice in the chain, and where nothing is executed ahead of its block    *)
(* every node can replay what any node produces.                           *)
(***************************************************************************)
EXTENDS Execution, Lemmas

\* The fields of a transaction.
LEMMA TxFields ==
  ASSUME NEW t \in Tx
  PROVE  /\ t.from \in Account /\ t.to \in Account
         /\ t.amount \in Nat /\ t.fee \in Nat /\ t.nonce \in Nat /\ t.id \in Nat
  BY LedgerAssumption

\* The fields of a state.
LEMMA Fields ==
  ASSUME NEW s \in State
  PROVE  /\ s.bal \in [Account -> Nat] /\ s.nonce \in [Account -> Nat]
         /\ s.PendingTxs \subseteq Tx /\ s.AppliedTxs \subseteq Tx
         /\ s.FeeChargedTxs \subseteq Tx /\ s.ConfirmedTxs \subseteq Tx
         /\ s.BaseFee \in Nat /\ s.BaseFee >= defaultBaseFee /\ s.height \in Nat
  BY DEF State

\* A state is what its fields are.
LEMMA SameState ==
  ASSUME NEW s \in State, NEW r \in State,
         r.bal = s.bal, r.nonce = s.nonce, r.PendingTxs = s.PendingTxs,
         r.AppliedTxs = s.AppliedTxs, r.FeeChargedTxs = s.FeeChargedTxs,
         r.ConfirmedTxs = s.ConfirmedTxs, r.BaseFee = s.BaseFee, r.height = s.height
  PROVE  r = s
  BY DEF State

-----------------------------------------------------------------------------
(***************************************************************************)
(* Balances                                                                *)
(***************************************************************************)
Paid(bal, from, to, x) == [bal EXCEPT ![from] = @ - x, ![to] = @ + x]

\* A payment between two accounts, of what the first one has.
LEMMA Payment ==
  ASSUME NEW bal \in [Account -> Nat], NEW f \in Account, NEW g \in Account, f # g,
         NEW x \in Nat, x <= bal[f]
  PROVE  /\ Paid(bal, f, g, x) \in [Account -> Nat]
         /\ Paid(bal, f, g, x)[f] = bal[f] - x
         /\ SumFunctionOnSet(Paid(bal, f, g, x), Account) = SumFunctionOnSet(bal, Account)
<1> DEFINE h == Paid(bal, f, g, x)
<1>1. /\ h \in [Account -> Nat] /\ h[f] = bal[f] - x /\ h[g] = bal[g] + x
      /\ \A a \in Account \ {f, g} : h[a] = bal[a]
  BY DEF Paid
<1>2. /\ bal[f] \in Nat /\ bal[g] \in Nat
      /\ \A a \in Account : bal[a] \in Int /\ h[a] \in Int
  BY <1>1
<1> HIDE DEF h
<1>3. IsFiniteSet(Account)
  BY LedgerAssumption
<1>4. /\ SumFunctionOnSet(bal, Account) \in Int
      /\ SumFunctionOnSet(h, Account)
           = SumFunctionOnSet(bal, Account) + (h[f] - bal[f]) + (h[g] - bal[g])
  BY <1>1, <1>2, <1>3, SumUpdateTwo, SumInt
<1>5. SumFunctionOnSet(h, Account) = SumFunctionOnSet(bal, Account)
  BY <1>1, <1>2, <1>4
<1> QED
  BY <1>1, <1>5 DEF h

-----------------------------------------------------------------------------
(***************************************************************************)
(* Sound states                                                            *)
(***************************************************************************)
Used(s) == s.AppliedTxs \cup s.ConfirmedTxs

\* A transaction that was executed has used its nonce, and no other one has it.
NoncesUsed(s) ==
  \A t \in Used(s) :
    /\ t.nonce < s.nonce[t.from]
    /\ \A u \in Used(s) : t.from = u.from /\ t.nonce = u.nonce => t = u

Sound(s) ==
  /\ s \in State /\ IsFiniteSet(s.PendingTxs)
  /\ SumFunctionOnSet(s.bal, Account) = SumFunctionOnSet(Balance, Account)
  /\ NoncesUsed(s)

\* What a transfer does to each field.
LEMMA TransferFields ==
  ASSUME NEW s \in State, NEW t \in Tx
  PROVE  LET r == applyTransfer(s, t)
         IN  /\ r.bal = Paid(s.bal, t.from, t.to, t.amount)
             /\ r.nonce = [s.nonce EXCEPT ![t.from] = @ + 1]
             /\ r.PendingTxs = s.PendingTxs /\ r.AppliedTxs = s.AppliedTxs
             /\ r.FeeChargedTxs = s.FeeChargedTxs /\ r.ConfirmedTxs = s.ConfirmedTxs
             /\ r.BaseFee = s.BaseFee /\ r.height = s.height
  BY DEF applyTransfer, State, Paid

\* An applicable transfer moves tokens and uses its nonce.
LEMMA Transferred ==
  ASSUME NEW s \in State, NEW t \in Tx, applicable(s, t)
  PROVE  LET r == applyTransfer(s, t)
         IN  /\ r \in State
             /\ r.bal[t.from] >= t.fee
             /\ SumFunctionOnSet(r.bal, Account) = SumFunctionOnSet(s.bal, Account)
             /\ r.nonce[t.from] = t.nonce + 1
             /\ \A a \in Account \ {t.from} : r.nonce[a] = s.nonce[a]
<1> DEFINE r == applyTransfer(s, t)
<1>1. /\ t.from \in Account /\ t.to \in Account /\ t.from # t.to
      /\ t.amount \in Nat /\ t.fee \in Nat /\ t.nonce \in Nat
      /\ t.nonce = s.nonce[t.from] /\ s.bal[t.from] >= t.amount + t.fee
  BY TxFields DEF applicable
<1>2. s.bal \in [Account -> Nat] /\ s.nonce \in [Account -> Nat] /\ s.bal[t.from] \in Nat
  BY <1>1, Fields
<1>3. t.amount <= s.bal[t.from]
  BY <1>1, <1>2
<1>4. /\ r.bal \in [Account -> Nat] /\ r.bal[t.from] = s.bal[t.from] - t.amount
      /\ SumFunctionOnSet(r.bal, Account) = SumFunctionOnSet(s.bal, Account)
  <2>1. r.bal = Paid(s.bal, t.from, t.to, t.amount)
    BY TransferFields
  <2> HIDE DEF r
  <2> QED
    BY <1>1, <1>2, <1>3, <2>1, Payment
<1>5. r.bal[t.from] >= t.fee
  BY <1>1, <1>2, <1>4
<1>6. /\ r.nonce \in [Account -> Nat] /\ r.nonce[t.from] = t.nonce + 1
      /\ \A a \in Account \ {t.from} : r.nonce[a] = s.nonce[a]
  <2>1. r.nonce = [s.nonce EXCEPT ![t.from] = @ + 1]
    BY TransferFields
  <2> HIDE DEF r
  <2> QED
    BY <1>1, <1>2, <2>1
<1>7. r \in State
  <2>1. r = [s EXCEPT !.bal = r.bal, !.nonce = r.nonce]
    BY DEF applyTransfer, State
  <2> HIDE DEF r
  <2> QED
    BY <1>4, <1>6, <2>1 DEF State
<1> QED
  BY <1>4, <1>5, <1>6, <1>7

\* A transaction that is executed uses the nonce that no other one has used.
LEMMA NonceUsed ==
  ASSUME NEW s \in State, NoncesUsed(s), NEW t \in Tx, t.nonce = s.nonce[t.from],
         NEW r, Used(r) \subseteq Used(s) \cup {t}, r.nonce[t.from] = t.nonce + 1,
         \A a \in Account \ {t.from} : r.nonce[a] = s.nonce[a]
  PROVE  NoncesUsed(r)
<1>1. \A u \in Used(s) : u \in Tx
  BY Fields DEF Used
<1>2. \A u \in Used(s) : u.from \in Account /\ u.nonce \in Nat /\ u.nonce < s.nonce[u.from]
  BY <1>1, TxFields DEF NoncesUsed
<1>3. t.from \in Account /\ t.nonce \in Nat
  BY TxFields
<1>4. \A u \in Used(s) : u.nonce < r.nonce[u.from] /\ (u.from = t.from => u.nonce < t.nonce)
  BY <1>2, <1>3
<1>5. t.nonce < r.nonce[t.from]
  BY <1>3
<1>6. \A u, v \in Used(s) : u.from = v.from /\ u.nonce = v.nonce => u = v
  BY DEF NoncesUsed
<1>7. \A u \in Used(s) : ~(u.from = t.from /\ u.nonce = t.nonce)
  BY <1>2, <1>3, <1>4
<1> QED
  BY <1>4, <1>5, <1>6, <1>7 DEF NoncesUsed

\* Executing t once more changes nothing, the first time it is a transfer.
LEMMA Executed ==
  ASSUME NEW s, Sound(s), NEW t \in Tx, t \in s.AppliedTxs \/ applicable(s, t)
  PROVE  LET r == executed(s, t)
         IN  /\ Sound(r)
             /\ r.AppliedTxs = s.AppliedTxs \cup {t}
             /\ r.PendingTxs = s.PendingTxs /\ r.FeeChargedTxs = s.FeeChargedTxs
             /\ r.ConfirmedTxs = s.ConfirmedTxs /\ r.BaseFee = s.BaseFee /\ r.height = s.height
<1>1. CASE t \in s.AppliedTxs
  BY <1>1 DEF executed
<1>2. CASE t \notin s.AppliedTxs
  <2> DEFINE p == applyTransfer(s, t)
             r == executed(s, t)
  <2>1. s \in State /\ IsFiniteSet(s.PendingTxs) /\ NoncesUsed(s) /\ applicable(s, t)
        /\ SumFunctionOnSet(s.bal, Account) = SumFunctionOnSet(Balance, Account)
    BY <1>2 DEF Sound
  <2>2. /\ p \in State /\ SumFunctionOnSet(p.bal, Account) = SumFunctionOnSet(s.bal, Account)
        /\ p.nonce[t.from] = t.nonce + 1
        /\ \A a \in Account \ {t.from} : p.nonce[a] = s.nonce[a]
    BY <2>1, Transferred
  <2>3. /\ p.PendingTxs = s.PendingTxs /\ p.AppliedTxs = s.AppliedTxs
        /\ p.FeeChargedTxs = s.FeeChargedTxs /\ p.ConfirmedTxs = s.ConfirmedTxs
        /\ p.BaseFee = s.BaseFee /\ p.height = s.height
    BY <2>1, TransferFields
  <2>4. r = [p EXCEPT !.AppliedTxs = @ \cup {t}]
    BY <1>2 DEF executed
  <2>5. t.nonce = s.nonce[t.from]
    BY <2>1 DEF applicable
  <2> HIDE DEF p, r
  <2>6. /\ r.bal = p.bal /\ r.nonce = p.nonce /\ r.PendingTxs = p.PendingTxs
        /\ r.AppliedTxs = p.AppliedTxs \cup {t} /\ r.FeeChargedTxs = p.FeeChargedTxs
        /\ r.ConfirmedTxs = p.ConfirmedTxs /\ r.BaseFee = p.BaseFee /\ r.height = p.height
    BY <2>2, <2>4 DEF State
  <2>7. r \in State
    BY <2>2, <2>4 DEF State
  <2>8. NoncesUsed(r)
    <3>1. Used(r) \subseteq Used(s) \cup {t}
      BY <2>3, <2>6 DEF Used
    <3> QED
      BY <2>1, <2>2, <2>5, <2>6, <3>1, NonceUsed
  <2>9. Sound(r)
    BY <2>1, <2>2, <2>3, <2>6, <2>7, <2>8 DEF Sound
  <2> QED
    BY <2>3, <2>6, <2>9 DEF r
<1> QED
  BY <1>1, <1>2

\* What a fee does to each field but the balances.
LEMMA ChargeFields ==
  ASSUME NEW s \in State, NEW t \in Tx, NEW p \in Account
  PROVE  LET r == chargeTransactionFee(s, t, p)
         IN  /\ r.nonce = s.nonce /\ r.PendingTxs = s.PendingTxs /\ r.AppliedTxs = s.AppliedTxs
             /\ r.ConfirmedTxs = s.ConfirmedTxs /\ r.BaseFee = s.BaseFee /\ r.height = s.height
  BY DEF chargeTransactionFee, State

\* A fee that can be paid moves tokens.
LEMMA Charged ==
  ASSUME NEW s, Sound(s), NEW t \in Tx, NEW p \in Account, chargeable(s, t)
  PROVE  LET r == chargeTransactionFee(s, t, p)
         IN  /\ Sound(r)
             /\ r.PendingTxs = s.PendingTxs /\ r.AppliedTxs = s.AppliedTxs
             /\ r.ConfirmedTxs = s.ConfirmedTxs /\ r.BaseFee = s.BaseFee /\ r.height = s.height
<1> DEFINE r == chargeTransactionFee(s, t, p)
<1>1. s \in State /\ IsFiniteSet(s.PendingTxs) /\ NoncesUsed(s)
      /\ SumFunctionOnSet(s.bal, Account) = SumFunctionOnSet(Balance, Account)
  BY DEF Sound
<1>2. CASE t.fee = 0 \/ t \in s.FeeChargedTxs
  BY <1>2 DEF chargeTransactionFee
<1>3. CASE ~(t.fee = 0 \/ t \in s.FeeChargedTxs)
  <2>1. t.from \in Account /\ t.fee \in Nat /\ s.bal \in [Account -> Nat]
    BY <1>1, TxFields, Fields
  <2>2. s.bal[t.from] \in Nat /\ t.fee <= s.bal[t.from]
    BY <1>3, <2>1 DEF chargeable
  <2>3. /\ r.bal = IF t.from = p THEN s.bal ELSE Paid(s.bal, t.from, p, t.fee)
        /\ r = [s EXCEPT !.bal = r.bal, !.FeeChargedTxs = @ \cup {t}]
    BY <1>1, <1>3 DEF chargeTransactionFee, State, Paid
  <2>4. /\ r.nonce = s.nonce /\ r.PendingTxs = s.PendingTxs /\ r.AppliedTxs = s.AppliedTxs
        /\ r.ConfirmedTxs = s.ConfirmedTxs /\ r.BaseFee = s.BaseFee /\ r.height = s.height
    BY <1>1, ChargeFields
  <2> HIDE DEF r
  <2>5. /\ r.bal \in [Account -> Nat]
        /\ SumFunctionOnSet(r.bal, Account) = SumFunctionOnSet(s.bal, Account)
    <3>1. CASE t.from = p
      BY <2>1, <2>3, <3>1
    <3>2. CASE t.from # p
      BY <2>1, <2>2, <2>3, <3>2, Payment
    <3> QED
      BY <3>1, <3>2
  <2>6. r \in State
    <3>1. \A b \in [Account -> Nat], F \in SUBSET Tx :
            [s EXCEPT !.bal = b, !.FeeChargedTxs = F] \in State
      BY <1>1 DEF State
    <3>2. s.FeeChargedTxs \cup {t} \in SUBSET Tx
      BY <1>1, Fields
    <3> QED
      BY <2>3, <2>5, <3>1, <3>2
  <2>7. NoncesUsed(r)
    BY <1>1, <2>4 DEF NoncesUsed, Used
  <2>8. Sound(r)
    BY <1>1, <2>4, <2>5, <2>6, <2>7 DEF Sound
  <2> QED
    BY <2>4, <2>8 DEF r
<1> QED
  BY <1>2, <1>3

\* A transaction that passes the checks is executed and pays its fee.
LEMMA AcceptedInBlock ==
  ASSUME NEW s, Sound(s), NEW t \in Tx, Accepts(s, t), NEW p \in Account
  PROVE  LET r == inBlock(s, t, p)
         IN  /\ Sound(r) /\ r.AppliedTxs = s.AppliedTxs \cup {t}
             /\ r.PendingTxs = s.PendingTxs /\ r.ConfirmedTxs = s.ConfirmedTxs
             /\ r.BaseFee = s.BaseFee /\ r.height = s.height
<1> DEFINE e == executed(s, t)
<1>1. t \in s.AppliedTxs \/ applicable(s, t)
  BY DEF Accepts
<1>2. chargeable(e, t)
  BY DEF Accepts
<1>3. /\ Sound(e) /\ e.AppliedTxs = s.AppliedTxs \cup {t}
      /\ e.PendingTxs = s.PendingTxs /\ e.ConfirmedTxs = s.ConfirmedTxs
      /\ e.BaseFee = s.BaseFee /\ e.height = s.height
  BY <1>1, Executed
<1>4. inBlock(s, t, p) = chargeTransactionFee(e, t, p)
  BY DEF inBlock
<1> HIDE DEF e
<1> QED
  BY <1>2, <1>3, <1>4, Charged

Confirm(s, X) == [s EXCEPT !.ConfirmedTxs = @ \cup X]

\* What was executed can be confirmed.
LEMMA Confirmed ==
  ASSUME NEW s, Sound(s), NEW X, X \subseteq Used(s)
  PROVE  LET r == Confirm(s, X)
         IN  /\ Sound(r) /\ Used(r) = Used(s)
             /\ r.ConfirmedTxs = s.ConfirmedTxs \cup X
             /\ r.bal = s.bal /\ r.nonce = s.nonce /\ r.PendingTxs = s.PendingTxs
             /\ r.AppliedTxs = s.AppliedTxs /\ r.FeeChargedTxs = s.FeeChargedTxs
             /\ r.BaseFee = s.BaseFee /\ r.height = s.height
<1> DEFINE r == Confirm(s, X)
<1>1. s \in State /\ IsFiniteSet(s.PendingTxs) /\ NoncesUsed(s)
      /\ SumFunctionOnSet(s.bal, Account) = SumFunctionOnSet(Balance, Account)
  BY DEF Sound
<1>2. /\ r.ConfirmedTxs = s.ConfirmedTxs \cup X
      /\ r.bal = s.bal /\ r.nonce = s.nonce /\ r.PendingTxs = s.PendingTxs
      /\ r.AppliedTxs = s.AppliedTxs /\ r.FeeChargedTxs = s.FeeChargedTxs
      /\ r.BaseFee = s.BaseFee /\ r.height = s.height
  BY <1>1 DEF Confirm, State
<1>3. X \subseteq Tx
  BY <1>1, Fields DEF Used
<1>4. r \in State
  BY <1>1, <1>3 DEF Confirm, State
<1> HIDE DEF r
<1>5. Used(r) = Used(s)
  BY <1>2 DEF Used
<1>6. Sound(r)
  BY <1>1, <1>2, <1>4, <1>5 DEF Sound, NoncesUsed
<1> QED
  BY <1>2, <1>5, <1>6 DEF r

\* The base fee keeps above its floor.
LEMMA FeeFloor ==
  ASSUME NEW fee \in Nat, fee >= defaultBaseFee, NEW n \in Nat
  PROVE  /\ adjustFeeMarket(fee, n) \in Nat
         /\ adjustFeeMarket(fee, n) >= defaultBaseFee
<1> DEFINE step == IF fee \div 8 = 0 THEN 1 ELSE fee \div 8
<1>1. step \in Nat
  OBVIOUS
<1>2. defaultBaseFee \in Nat /\ TargetBlockTxs \in Nat
  BY LedgerAssumption
<1>3. adjustFeeMarket(fee, n) =
        IF n > TargetBlockTxs THEN fee + step
        ELSE IF n < TargetBlockTxs /\ fee > defaultBaseFee
        THEN IF fee <= defaultBaseFee + step THEN defaultBaseFee ELSE fee - step
        ELSE fee
  BY DEF adjustFeeMarket
<1> HIDE DEF step
<1> QED
  BY <1>1, <1>2, <1>3

\* The end of a block, field by field.
LEMMA ClosedFields ==
  ASSUME NEW s \in State, NEW txs \in Seq(Tx)
  PROVE  LET r == closeBlock(s, txs)
         IN  /\ r \in State
             /\ r.bal = s.bal /\ r.nonce = s.nonce /\ r.AppliedTxs = s.AppliedTxs
             /\ r.FeeChargedTxs = s.FeeChargedTxs
             /\ r.ConfirmedTxs = s.ConfirmedTxs \cup Range(txs)
             /\ r.PendingTxs = s.PendingTxs \ Range(txs)
             /\ r.BaseFee = adjustFeeMarket(s.BaseFee, Len(txs))
             /\ r.height = s.height + 1
<1> DEFINE X == Range(txs)
           c == confirmed(s, X)
           fee == adjustFeeMarket(s.BaseFee, Len(txs))
           r == closeBlock(s, txs)
<1>1. X \subseteq Tx /\ Len(txs) \in Nat
  BY DEF Range
<1>2. fee \in Nat /\ fee >= defaultBaseFee
  BY <1>1, Fields, FeeFloor
<1> HIDE DEF X
<1>3. /\ c \in State /\ c.bal = s.bal /\ c.nonce = s.nonce /\ c.AppliedTxs = s.AppliedTxs
      /\ c.FeeChargedTxs = s.FeeChargedTxs
      /\ c.ConfirmedTxs = s.ConfirmedTxs \cup X /\ c.PendingTxs = s.PendingTxs \ X
      /\ c.BaseFee = s.BaseFee /\ c.height = s.height
  BY <1>1 DEF confirmed, State
<1>4. r = [c EXCEPT !.BaseFee = adjustFeeMarket(@, Len(txs)), !.height = @ + 1]
  BY DEF closeBlock, X
<1> HIDE DEF c, r, fee
<1>5. /\ r.bal = c.bal /\ r.nonce = c.nonce /\ r.AppliedTxs = c.AppliedTxs
      /\ r.FeeChargedTxs = c.FeeChargedTxs /\ r.ConfirmedTxs = c.ConfirmedTxs
      /\ r.PendingTxs = c.PendingTxs /\ r.BaseFee = fee /\ r.height = s.height + 1
  BY <1>3, <1>4 DEF State, fee
<1>6. r \in State
  <2>1. \A f \in Nat, h \in Nat : f >= defaultBaseFee =>
          [c EXCEPT !.BaseFee = f, !.height = h] \in State
    BY <1>3 DEF State
  <2>2. r = [c EXCEPT !.BaseFee = fee, !.height = s.height + 1]
    BY <1>3, <1>4 DEF State, fee
  <2>3. s.height + 1 \in Nat
    BY Fields
  <2> QED
    BY <1>2, <2>1, <2>2, <2>3
<1> QED
  BY <1>3, <1>5, <1>6 DEF r, fee, X

\* A block that ends leaves a sound state.
LEMMA Closed ==
  ASSUME NEW s, Sound(s), NEW txs \in Seq(Tx), Range(txs) \subseteq Used(s)
  PROVE  Sound(closeBlock(s, txs))
<1> DEFINE r == closeBlock(s, txs)
<1>1. s \in State /\ IsFiniteSet(s.PendingTxs) /\ NoncesUsed(s)
      /\ SumFunctionOnSet(s.bal, Account) = SumFunctionOnSet(Balance, Account)
  BY DEF Sound
<1>2. /\ r \in State /\ r.bal = s.bal /\ r.nonce = s.nonce /\ r.AppliedTxs = s.AppliedTxs
      /\ r.ConfirmedTxs = s.ConfirmedTxs \cup Range(txs)
      /\ r.PendingTxs = s.PendingTxs \ Range(txs)
  BY <1>1, ClosedFields
<1> HIDE DEF r
<1>3. Used(r) = Used(s)
  BY <1>2 DEF Used
<1>4. IsFiniteSet(r.PendingTxs)
  BY <1>1, <1>2, FS_Subset
<1>5. Sound(r)
  BY <1>1, <1>2, <1>3, <1>4 DEF Sound, NoncesUsed
<1> QED
  BY <1>5 DEF r

-----------------------------------------------------------------------------
(***************************************************************************)
(* Execution does not look at the mempool, nor at what is confirmed        *)
(***************************************************************************)
With(s, P, C) == [s EXCEPT !.PendingTxs = P, !.ConfirmedTxs = C]

\* Its fields.
LEMMA WithFields ==
  ASSUME NEW s \in State, NEW P \in SUBSET Tx, NEW C \in SUBSET Tx
  PROVE  LET w == With(s, P, C)
         IN  /\ w \in State /\ w.PendingTxs = P /\ w.ConfirmedTxs = C
             /\ w.bal = s.bal /\ w.nonce = s.nonce /\ w.AppliedTxs = s.AppliedTxs
             /\ w.FeeChargedTxs = s.FeeChargedTxs
             /\ w.BaseFee = s.BaseFee /\ w.height = s.height
  BY DEF With, State

\* The transfer,
LEMMA TransferWith ==
  ASSUME NEW s \in State, NEW t \in Tx, NEW P \in SUBSET Tx, NEW C \in SUBSET Tx
  PROVE  applyTransfer(With(s, P, C), t) = With(applyTransfer(s, t), P, C)
  BY DEF applyTransfer, With, State

\* the execution,
LEMMA ExecutedWith ==
  ASSUME NEW s \in State, NEW t \in Tx, NEW P \in SUBSET Tx, NEW C \in SUBSET Tx
  PROVE  executed(With(s, P, C), t) = With(executed(s, t), P, C)
<1> DEFINE w == With(s, P, C)
           r == applyTransfer(s, t)
<1>1. w.AppliedTxs = s.AppliedTxs
  BY WithFields
<1>2. applyTransfer(w, t) = With(r, P, C)
  BY TransferWith
<1>3. [With(r, P, C) EXCEPT !.AppliedTxs = @ \cup {t}]
        = With([r EXCEPT !.AppliedTxs = @ \cup {t}], P, C)
  <2>1. \E x, y : r = [s EXCEPT !.bal = x, !.nonce = y]
    BY DEF applyTransfer, State
  <2>2. PICK x, y : r = [s EXCEPT !.bal = x, !.nonce = y]
    BY <2>1
  <2> HIDE DEF r
  <2> QED
    BY <2>2 DEF With, State
<1>4. CASE t \in s.AppliedTxs
  BY <1>1, <1>4 DEF executed
<1>5. CASE t \notin s.AppliedTxs
  <2> HIDE DEF w, r
  <2>1. executed(w, t) = [applyTransfer(w, t) EXCEPT !.AppliedTxs = @ \cup {t}]
    BY <1>1, <1>5 DEF executed
  <2>2. executed(s, t) = [r EXCEPT !.AppliedTxs = @ \cup {t}]
    BY <1>5 DEF executed, r
  <2> QED
    BY <1>2, <1>3, <2>1, <2>2 DEF w
<1> QED
  BY <1>4, <1>5

\* and the fee.
LEMMA ChargeWith ==
  ASSUME NEW s \in State, NEW t \in Tx, NEW P \in SUBSET Tx, NEW C \in SUBSET Tx, NEW p \in Account
  PROVE  chargeTransactionFee(With(s, P, C), t, p) = With(chargeTransactionFee(s, t, p), P, C)
  BY DEF chargeTransactionFee, With, State

\* A transaction that is accepted is accepted whatever waits, and whatever else is
\* confirmed, and does the same.
LEMMA InBlockWith ==
  ASSUME NEW s, Sound(s), NEW t \in Tx, Accepts(s, t), NEW p \in Account,
         NEW P \in SUBSET Tx, NEW C \in SUBSET Tx, t \notin C
  PROVE  /\ Accepts(With(s, P, C), t)
         /\ inBlock(With(s, P, C), t, p) = With(inBlock(s, t, p), P, C)
<1> DEFINE w == With(s, P, C)
           e == executed(s, t)
<1>1. s \in State
  BY DEF Sound
<1>2. t \in s.AppliedTxs \/ applicable(s, t)
  BY DEF Accepts
<1>3. e \in State
  BY <1>2, Executed DEF Sound
<1>4. /\ w.ConfirmedTxs = C /\ w.bal = s.bal /\ w.nonce = s.nonce
      /\ w.AppliedTxs = s.AppliedTxs /\ w.BaseFee = s.BaseFee
  BY <1>1, WithFields
<1>5. executed(w, t) = With(e, P, C)
  BY <1>1, ExecutedWith
<1>6. With(e, P, C).bal = e.bal /\ With(e, P, C).FeeChargedTxs = e.FeeChargedTxs
  BY <1>3, WithFields
<1>7. chargeTransactionFee(With(e, P, C), t, p) = With(chargeTransactionFee(e, t, p), P, C)
  BY <1>3, ChargeWith
<1>8. validateTransactionFee(s, t) /\ chargeable(e, t)
  BY DEF Accepts
<1> HIDE DEF w, e
<1>9. Accepts(w, t)
  <2>1. t \notin w.ConfirmedTxs
    BY <1>4
  <2>2. validateTransactionFee(w, t)
    BY <1>4, <1>8 DEF validateTransactionFee
  <2>3. t \in w.AppliedTxs \/ applicable(w, t)
    BY <1>2, <1>4 DEF applicable
  <2>4. chargeable(executed(w, t), t)
    BY <1>5, <1>6, <1>8 DEF chargeable
  <2> QED
    BY <2>1, <2>2, <2>3, <2>4 DEF Accepts
<1>10. inBlock(w, t, p) = With(inBlock(s, t, p), P, C)
  BY <1>5, <1>7 DEF inBlock, e
<1> QED
  BY <1>9, <1>10 DEF w

-----------------------------------------------------------------------------
(***************************************************************************)
(* The replay of a block                                                   *)
(***************************************************************************)
Sounds == {s \in State : Sound(s)}

\* One transaction of a block, confirmed at once.
Replayed(s, t, p) == [inBlock(s, t, p) EXCEPT !.ConfirmedTxs = @ \cup {t}]

\* It keeps a state sound.
LEMMA ReplayedSound ==
  ASSUME NEW s \in Sounds, NEW t \in Tx, Accepts(s, t), NEW p \in Account
  PROVE  LET r == Replayed(s, t, p)
         IN  /\ r \in Sounds /\ r.AppliedTxs = s.AppliedTxs \cup {t}
             /\ r.ConfirmedTxs = s.ConfirmedTxs \cup {t}
             /\ r.PendingTxs = s.PendingTxs /\ r.BaseFee = s.BaseFee /\ r.height = s.height
<1> DEFINE b == inBlock(s, t, p)
<1>1. Sound(s)
  BY DEF Sounds
<1>2. /\ Sound(b) /\ b.AppliedTxs = s.AppliedTxs \cup {t}
      /\ b.PendingTxs = s.PendingTxs /\ b.ConfirmedTxs = s.ConfirmedTxs
      /\ b.BaseFee = s.BaseFee /\ b.height = s.height
  BY <1>1, AcceptedInBlock
<1>3. {t} \subseteq Used(b)
  BY <1>2 DEF Used
<1>4. Replayed(s, t, p) = Confirm(b, {t})
  BY DEF Replayed, Confirm
<1> HIDE DEF b
<1>5. Sound(Confirm(b, {t})) /\ Confirm(b, {t}) \in State
  BY <1>2, <1>3, Confirmed DEF Sound
<1> QED
  BY <1>2, <1>3, <1>4, <1>5, Confirmed DEF Sounds

\* The states a replay of txs passes through.
Pass(s, txs, p, f) ==
  /\ f \in [0..Len(txs) -> Sounds] /\ f[0] = s
  /\ \A k \in 1..Len(txs) : Accepts(f[k - 1], txs[k]) /\ f[k] = Replayed(f[k - 1], txs[k], p)

\* What a replay has come to.
Outcome == [ok : BOOLEAN, s : Sounds]

ReplayStep(s, r, t, p) ==
  IF r.ok /\ Accepts(r.s, t) THEN [ok |-> TRUE, s |-> Replayed(r.s, t, p)]
  ELSE [ok |-> FALSE, s |-> s]

\* A step of a replay ends in a sound state.
LEMMA ReplaySteps ==
  ASSUME NEW s \in Sounds, NEW r \in Outcome, NEW t \in Tx, NEW p \in Account
  PROVE  ReplayStep(s, r, t, p) \in Outcome
<1>1. r.ok \in BOOLEAN /\ r.s \in Sounds
  BY DEF Outcome
<1>2. CASE r.ok /\ Accepts(r.s, t)
  <2>1. Replayed(r.s, t, p) \in Sounds
    BY <1>1, <1>2, ReplayedSound
  <2> QED
    BY <1>2, <2>1 DEF ReplayStep, Outcome
<1>3. CASE ~(r.ok /\ Accepts(r.s, t))
  BY <1>3 DEF ReplayStep, Outcome
<1> QED
  BY <1>2, <1>3

\* The recursive function of applyBlockTransactions.
Replays(g, s, txs, p) ==
  g = [k \in 0..Len(txs) |-> IF k = 0 THEN [ok |-> TRUE, s |-> s]
                             ELSE ReplayStep(s, g[k - 1], txs[k], p)]

\* There is one.
LEMMA ReplayExists ==
  ASSUME NEW s \in Sounds, NEW txs \in Seq(Tx), NEW p \in Account
  PROVE  \E g : Replays(g, s, txs, p)
<1> DEFINE n == Len(txs)
           b == [ok |-> TRUE, s |-> s]
           F == [k \in 1..n |-> [r \in Outcome |-> ReplayStep(s, r, txs[k], p)]]
<1>1. n \in Nat /\ \A k \in 1..n : txs[k] \in Tx
  OBVIOUS
<1>2. b \in Outcome
  BY DEF Outcome
<1>3. \A k \in 1..n : F[k] \in [Outcome -> Outcome]
  BY <1>1, ReplaySteps
<1> HIDE DEF n, b
<1>4. PICK g \in [0..n -> Outcome] : g[0] = b /\ \A k \in 1..n : g[k] = F[k][g[k - 1]]
  <2> HIDE DEF F
  <2>1. n \in Nat /\ StepsIn(F, n, Outcome)
    BY <1>1, <1>3 DEF StepsIn
  <2>2. \E g : Recurs(g, n, Outcome, b, F)
    BY <1>2, <2>1, Recursion
  <2> QED
    BY <2>2 DEF Recurs
<1>5. \A k \in 1..n : g[k] = ReplayStep(s, g[k - 1], txs[k], p)
  <2> SUFFICES ASSUME NEW k \in 1..n PROVE g[k] = ReplayStep(s, g[k - 1], txs[k], p)
    OBVIOUS
  <2>1. k - 1 \in 0..n
    BY <1>1
  <2> QED
    BY <1>4, <2>1
<1> DEFINE h == [k \in 0..n |-> IF k = 0 THEN b ELSE ReplayStep(s, g[k - 1], txs[k], p)]
<1>6. \A k \in 0..n : g[k] = h[k]
  BY <1>1, <1>4, <1>5
<1>7. g = h
  BY <1>4, <1>6
<1> QED
  BY <1>7 DEF Replays, n, b

\* And applyBlockTransactions returns its last value.
LEMMA ReplayUnfolds ==
  ASSUME NEW s \in Sounds, NEW block \in Block
  PROVE  LET p == Operator[block.producer]
             n == Len(block.txs)
         IN  \E g : /\ g \in [0..n -> Outcome]
                    /\ g[0] = [ok |-> TRUE, s |-> s]
                    /\ \A k \in 1..n : g[k] = ReplayStep(s, g[k - 1], block.txs[k], p)
                    /\ applyBlockTransactions(s, block) = g[n]
<1> DEFINE p == Operator[block.producer]
           txs == block.txs
           n == Len(txs)
           g == CHOOSE g : Replays(g, s, txs, p)
<1>1. p \in Account /\ txs \in Seq(Tx)
  BY LedgerAssumption DEF Block
<1>2. applyBlockTransactions(s, block) = g[n]
  BY DEF applyBlockTransactions, Replays, ReplayStep, Replayed
<1> HIDE DEF p, txs
<1>3. Replays(g, s, txs, p)
  <2>1. \E h : Replays(h, s, txs, p)
    BY <1>1, ReplayExists
  <2> QED
    BY <2>1, Zenon
<1>4. n \in Nat /\ \A k \in 1..n : txs[k] \in Tx
  BY <1>1
<1> HIDE DEF g, n
<1>5. g = [k \in 0..n |-> IF k = 0 THEN [ok |-> TRUE, s |-> s] ELSE ReplayStep(s, g[k - 1], txs[k], p)]
  BY <1>3 DEF Replays, n
<1> DEFINE h == [k \in 0..n |-> IF k = 0 THEN [ok |-> TRUE, s |-> s] ELSE ReplayStep(s, g[k - 1], txs[k], p)]
<1>6. h[0] = [ok |-> TRUE, s |-> s] /\ \A k \in 1..n : h[k] = ReplayStep(s, g[k - 1], txs[k], p)
  BY <1>4
<1>7. g = h
  BY <1>5
<1> HIDE DEF h
<1>8. g[0] = [ok |-> TRUE, s |-> s] /\ \A k \in 1..n : g[k] = ReplayStep(s, g[k - 1], txs[k], p)
  BY <1>6, <1>7
<1> DEFINE T == {k \in 0..n : g[k] \in Outcome}
<1>9. 0 \in T
  <2>1. g[0] \in Outcome
    BY <1>8 DEF Outcome
  <2> QED
    BY <1>4, <2>1
<1>10. ASSUME NEW k \in 0..(n - 1), k \in T PROVE k + 1 \in T
  <2>1. k + 1 \in 1..n /\ (k + 1) - 1 = k /\ g[k] \in Outcome
    BY <1>4, <1>10
  <2>2. g[k + 1] = ReplayStep(s, g[k], txs[k + 1], p)
    BY <1>8, <2>1
  <2> QED
    BY <1>1, <1>4, <2>1, <2>2, ReplaySteps
<1>11. \A k \in 0..n : g[k] \in Outcome
  <2> HIDE DEF T
  <2>1. \A k \in 0..n : k \in T
    BY <1>4, <1>9, <1>10, IntervalInduction
  <2> QED
    BY <2>1 DEF T
<1>12. g \in [0..n -> Outcome]
  BY <1>5, <1>11
<1> QED
  BY <1>2, <1>8, <1>12 DEF n, p, txs

\* A replay that succeeds passes through a state for each transaction.
LEMMA ReplayPasses ==
  ASSUME NEW s \in Sounds, NEW block \in Block
  PROVE  LET r == applyBlockTransactions(s, block)
         IN  /\ r.s \in Sounds
             /\ r.ok => \E f : /\ Pass(s, block.txs, Operator[block.producer], f)
                               /\ r.s = f[Len(block.txs)]
<1> DEFINE p == Operator[block.producer]
           txs == block.txs
           n == Len(txs)
           r == applyBlockTransactions(s, block)
<1>1. PICK g : /\ g \in [0..n -> Outcome]
               /\ g[0] = [ok |-> TRUE, s |-> s]
               /\ \A k \in 1..n : g[k] = ReplayStep(s, g[k - 1], txs[k], p)
               /\ r = g[n]
  BY ReplayUnfolds
<1>2. txs \in Seq(Tx) /\ n \in Nat
  BY DEF Block
<1> HIDE DEF p, txs, n, r
<1>3. r.s \in Sounds
  BY <1>1, <1>2 DEF Outcome
<1>4. ASSUME r.ok PROVE \E f : Pass(s, txs, p, f) /\ r.s = f[n]
  <2> DEFINE f == [k \in 0..n |-> g[k].s]
             T == {k \in 0..n : g[k].ok => \A j \in 0..k : g[j].ok}
  <2>1. 0 \in T
    BY <1>2
  <2>2. ASSUME NEW k \in 0..(n - 1), k \in T PROVE k + 1 \in T
    <3>1. k + 1 \in 1..n /\ (k + 1) - 1 = k /\ k \in 0..n /\ k + 1 \in 0..n
      BY <1>2
    <3>2. g[k + 1] = ReplayStep(s, g[k], txs[k + 1], p)
      BY <1>1, <3>1
    <3>3. g[k + 1].ok => g[k].ok
      BY <3>2 DEF ReplayStep
    <3>4. g[k].ok => \A j \in 0..k : g[j].ok
      BY <2>2
    <3>5. \A j \in 0..(k + 1) : j \in 0..k \/ j = k + 1
      BY <3>1
    <3> QED
      BY <3>1, <3>3, <3>4, <3>5
  <2>3. \A k \in 0..n : g[k].ok
    <3>1. \A k \in 0..n : k \in T
      <4> HIDE DEF T
      <4> QED
        BY <1>2, <2>1, <2>2, IntervalInduction
    <3>2. n \in T /\ n \in 0..n
      BY <1>2, <3>1
    <3> QED
      BY <1>1, <1>4, <3>2
  <2>4. f \in [0..n -> Sounds] /\ f[0] = s /\ r.s = f[n]
    BY <1>1, <1>2 DEF Outcome
  <2>5. ASSUME NEW k \in 1..n
        PROVE  Accepts(f[k - 1], txs[k]) /\ f[k] = Replayed(f[k - 1], txs[k], p)
    <3>1. k \in 0..n /\ k - 1 \in 0..n
      BY <1>2
    <3>2. g[k].ok /\ g[k - 1].ok /\ g[k] = ReplayStep(s, g[k - 1], txs[k], p)
      BY <1>1, <2>3, <3>1
    <3>3. Accepts(g[k - 1].s, txs[k]) /\ g[k].s = Replayed(g[k - 1].s, txs[k], p)
      BY <3>2 DEF ReplayStep
    <3> QED
      BY <3>1, <3>3
  <2> HIDE DEF f
  <2>6. Pass(s, txs, p, f)
    BY <2>4, <2>5 DEF Pass, n
  <2> QED
    BY <2>4, <2>6
<1> QED
  BY <1>3, <1>4 DEF p, txs, n, r

\* And where there are such states the replay succeeds.
LEMMA PassReplays ==
  ASSUME NEW s \in Sounds, NEW block \in Block, NEW f,
         Pass(s, block.txs, Operator[block.producer], f)
  PROVE  applyBlockTransactions(s, block) = [ok |-> TRUE, s |-> f[Len(block.txs)]]
<1> DEFINE p == Operator[block.producer]
           txs == block.txs
           n == Len(txs)
           r == applyBlockTransactions(s, block)
<1>1. PICK g : /\ g \in [0..n -> Outcome]
               /\ g[0] = [ok |-> TRUE, s |-> s]
               /\ \A k \in 1..n : g[k] = ReplayStep(s, g[k - 1], txs[k], p)
               /\ r = g[n]
  BY ReplayUnfolds
<1>2. txs \in Seq(Tx) /\ n \in Nat
  BY DEF Block
<1>3. /\ f \in [0..n -> Sounds] /\ f[0] = s
      /\ \A k \in 1..n : Accepts(f[k - 1], txs[k]) /\ f[k] = Replayed(f[k - 1], txs[k], p)
  BY DEF Pass
<1> HIDE DEF p, txs, n, r
<1> DEFINE T == {k \in 0..n : g[k] = [ok |-> TRUE, s |-> f[k]]}
<1>4. 0 \in T
  BY <1>1, <1>2, <1>3
<1>5. ASSUME NEW k \in 0..(n - 1), k \in T PROVE k + 1 \in T
  <2>1. k + 1 \in 1..n /\ (k + 1) - 1 = k /\ k + 1 \in 0..n
    BY <1>2
  <2>2. g[k + 1] = ReplayStep(s, g[k], txs[k + 1], p)
    BY <1>1, <2>1
  <2>3. Accepts(f[k], txs[k + 1]) /\ f[k + 1] = Replayed(f[k], txs[k + 1], p)
    BY <1>3, <2>1
  <2>4. g[k] = [ok |-> TRUE, s |-> f[k]]
    BY <1>5
  <2>5. g[k + 1] = [ok |-> TRUE, s |-> f[k + 1]]
    BY <2>2, <2>3, <2>4 DEF ReplayStep
  <2> QED
    BY <2>1, <2>5
<1>6. \A k \in 0..n : k \in T
  <2> HIDE DEF T
  <2> QED
    BY <1>2, <1>4, <1>5, IntervalInduction
<1>7. g[n] = [ok |-> TRUE, s |-> f[n]]
  BY <1>2, <1>6
<1> QED
  BY <1>1, <1>7 DEF p, txs, n, r

\* A replay confirms the transactions, and leaves the rest of the block's end alone.
LEMMA PassFields ==
  ASSUME NEW s, NEW txs \in Seq(Tx), NEW p \in Account, NEW f, Pass(s, txs, p, f)
  PROVE  LET r == f[Len(txs)]
         IN  /\ r \in Sounds
             /\ r.ConfirmedTxs = s.ConfirmedTxs \cup Range(txs)
             /\ r.PendingTxs = s.PendingTxs /\ r.BaseFee = s.BaseFee /\ r.height = s.height
<1> DEFINE n == Len(txs)
           Done(k) == {txs[i] : i \in 1..k}
           T == {k \in 0..n : /\ f[k].ConfirmedTxs = s.ConfirmedTxs \cup Done(k)
                              /\ f[k].PendingTxs = s.PendingTxs /\ f[k].BaseFee = s.BaseFee
                              /\ f[k].height = s.height}
<1>1. n \in Nat /\ \A k \in 1..n : txs[k] \in Tx
  OBVIOUS
<1>2. /\ f \in [0..n -> Sounds] /\ f[0] = s
      /\ \A k \in 1..n : Accepts(f[k - 1], txs[k]) /\ f[k] = Replayed(f[k - 1], txs[k], p)
  BY DEF Pass
<1>3. Range(txs) = Done(n)
  <2>1. DOMAIN txs = 1..n
    OBVIOUS
  <2> HIDE DEF n
  <2> QED
    BY <2>1 DEF Range
<1> HIDE DEF n
<1>4. 0 \in T
  BY <1>1, <1>2
<1>5. ASSUME NEW k \in 0..(n - 1), k \in T PROVE k + 1 \in T
  <2>1. k + 1 \in 1..n /\ (k + 1) - 1 = k /\ k + 1 \in 0..n /\ k \in 0..n
    BY <1>1
  <2>2. Accepts(f[k], txs[k + 1]) /\ f[k + 1] = Replayed(f[k], txs[k + 1], p)
    BY <1>2, <2>1
  <2>3. f[k] \in Sounds /\ txs[k + 1] \in Tx
    BY <1>1, <1>2, <2>1
  <2>4. /\ f[k + 1].ConfirmedTxs = f[k].ConfirmedTxs \cup {txs[k + 1]}
        /\ f[k + 1].PendingTxs = f[k].PendingTxs /\ f[k + 1].BaseFee = f[k].BaseFee
        /\ f[k + 1].height = f[k].height
    BY <2>2, <2>3, ReplayedSound
  <2>5. Done(k + 1) = Done(k) \cup {txs[k + 1]}
    <3>1. 1..(k + 1) = (1..k) \cup {k + 1}
      BY <2>1
    <3> QED
      BY <3>1
  <2>6. /\ f[k].ConfirmedTxs = s.ConfirmedTxs \cup Done(k)
        /\ f[k].PendingTxs = s.PendingTxs /\ f[k].BaseFee = s.BaseFee /\ f[k].height = s.height
    BY <1>5
  <2> HIDE DEF Done
  <2> QED
    BY <2>1, <2>4, <2>5, <2>6
<1>6. \A k \in 0..n : k \in T
  <2> HIDE DEF T
  <2> QED
    BY <1>1, <1>4, <1>5, IntervalInduction
<1>7. n \in T /\ f[n] \in Sounds
  BY <1>1, <1>2, <1>6
<1> HIDE DEF Done
<1> QED
  BY <1>3, <1>7 DEF n

-----------------------------------------------------------------------------
(***************************************************************************)
(* Nodes that differ in what waits replay alike                            *)
(***************************************************************************)
Waiting(s, P) == With(s, P, s.ConfirmedTxs)

\* The mempool does not matter for soundness.
LEMMA WaitingSound ==
  ASSUME NEW s \in Sounds, NEW P \in SUBSET Tx, IsFiniteSet(P)
  PROVE  LET w == Waiting(s, P)
         IN  /\ w \in Sounds /\ w.PendingTxs = P /\ w.ConfirmedTxs = s.ConfirmedTxs
             /\ w.bal = s.bal /\ w.nonce = s.nonce /\ w.AppliedTxs = s.AppliedTxs
             /\ w.FeeChargedTxs = s.FeeChargedTxs
             /\ w.BaseFee = s.BaseFee /\ w.height = s.height
<1> DEFINE w == Waiting(s, P)
<1>1. s \in State /\ s.ConfirmedTxs \in SUBSET Tx /\ NoncesUsed(s)
      /\ SumFunctionOnSet(s.bal, Account) = SumFunctionOnSet(Balance, Account)
  BY Fields DEF Sounds, Sound
<1>2. /\ w \in State /\ w.PendingTxs = P /\ w.ConfirmedTxs = s.ConfirmedTxs
      /\ w.bal = s.bal /\ w.nonce = s.nonce /\ w.AppliedTxs = s.AppliedTxs
      /\ w.FeeChargedTxs = s.FeeChargedTxs
      /\ w.BaseFee = s.BaseFee /\ w.height = s.height
  BY <1>1, WithFields DEF Waiting
<1> HIDE DEF w
<1>3. w \in Sounds
  BY <1>1, <1>2 DEF Sounds, Sound, NoncesUsed, Used
<1> QED
  BY <1>2, <1>3 DEF w

\* A transaction is replayed alike,
LEMMA ReplayedWaiting ==
  ASSUME NEW s \in Sounds, NEW t \in Tx, Accepts(s, t), NEW p \in Account,
         NEW P \in SUBSET Tx
  PROVE  /\ Accepts(Waiting(s, P), t)
         /\ Replayed(Waiting(s, P), t, p) = Waiting(Replayed(s, t, p), P)
<1> DEFINE C == s.ConfirmedTxs
           b == inBlock(s, t, p)
<1>1. Sound(s) /\ C \in SUBSET Tx /\ t \notin C
  BY Fields DEF Sounds, Accepts
<1>2. b \in State /\ b.ConfirmedTxs = C
  BY <1>1, AcceptedInBlock DEF Sound
<1>3. Accepts(With(s, P, C), t) /\ inBlock(With(s, P, C), t, p) = With(b, P, C)
  BY <1>1, InBlockWith
<1> HIDE DEF b, C
<1>4. [With(b, P, C) EXCEPT !.ConfirmedTxs = @ \cup {t}]
        = Waiting([b EXCEPT !.ConfirmedTxs = @ \cup {t}], P)
  BY <1>2 DEF With, Waiting, State
<1> QED
  BY <1>3, <1>4 DEF Replayed, Waiting, b, C

\* and so is a block.
LEMMA PassWaiting ==
  ASSUME NEW s \in Sounds, NEW txs \in Seq(Tx), NEW p \in Account, NEW f,
         Pass(s, txs, p, f), NEW P \in SUBSET Tx, IsFiniteSet(P)
  PROVE  Pass(Waiting(s, P), txs, p, [k \in 0..Len(txs) |-> Waiting(f[k], P)])
<1> DEFINE n == Len(txs)
           h == [k \in 0..n |-> Waiting(f[k], P)]
<1>1. n \in Nat /\ \A k \in 1..n : txs[k] \in Tx
  OBVIOUS
<1>2. /\ f \in [0..n -> Sounds] /\ f[0] = s
      /\ \A k \in 1..n : Accepts(f[k - 1], txs[k]) /\ f[k] = Replayed(f[k - 1], txs[k], p)
  BY DEF Pass
<1> HIDE DEF n
<1>3. h \in [0..n -> Sounds] /\ h[0] = Waiting(s, P)
  BY <1>1, <1>2, WaitingSound
<1>4. ASSUME NEW k \in 1..n
      PROVE  Accepts(h[k - 1], txs[k]) /\ h[k] = Replayed(h[k - 1], txs[k], p)
  <2>1. k \in 0..n /\ k - 1 \in 0..n /\ txs[k] \in Tx
    BY <1>1
  <2>2. f[k - 1] \in Sounds /\ Accepts(f[k - 1], txs[k]) /\ f[k] = Replayed(f[k - 1], txs[k], p)
    BY <1>2, <2>1
  <2>3. /\ Accepts(Waiting(f[k - 1], P), txs[k])
        /\ Replayed(Waiting(f[k - 1], P), txs[k], p) = Waiting(f[k], P)
    BY <2>1, <2>2, ReplayedWaiting
  <2>4. h[k - 1] = Waiting(f[k - 1], P) /\ h[k] = Waiting(f[k], P)
    BY <2>1
  <2> QED
    BY <2>3, <2>4
<1> HIDE DEF h
<1>5. Pass(Waiting(s, P), txs, p, h)
  BY <1>3, <1>4 DEF Pass, n
<1> QED
  BY <1>5 DEF h, n

-----------------------------------------------------------------------------
(***************************************************************************)
(* The producer's pass                                                     *)
(***************************************************************************)
Distinct(q) == \A i, j \in 1..Len(q) : q[i] = q[j] => i = j

Draft == [s : Sounds, txs : Seq(Tx)]

ProduceStep(r, t, p) ==
  IF Accepts(r.s, t) THEN [s |-> inBlock(r.s, t, p), txs |-> Append(r.txs, t)] ELSE r

\* A step of the pass ends in a sound state.
LEMMA ProduceSteps ==
  ASSUME NEW r \in Draft, NEW t \in Tx, NEW p \in Account
  PROVE  ProduceStep(r, t, p) \in Draft
<1>1. r.s \in Sounds /\ Sound(r.s) /\ r.txs \in Seq(Tx)
  BY DEF Draft, Sounds
<1>2. CASE Accepts(r.s, t)
  <2>1. inBlock(r.s, t, p) \in Sounds
    BY <1>1, <1>2, AcceptedInBlock DEF Sounds, Sound
  <2>2. Append(r.txs, t) \in Seq(Tx)
    BY <1>1
  <2> QED
    BY <1>2, <2>1, <2>2 DEF ProduceStep, Draft
<1>3. CASE ~Accepts(r.s, t)
  BY <1>3 DEF ProduceStep
<1> QED
  BY <1>2, <1>3

\* The recursive function of applyPendingTransactions.
Produces(g, s, txs, p) ==
  g = [k \in 0..Len(txs) |-> IF k = 0 THEN [s |-> s, txs |-> <<>>]
                             ELSE ProduceStep(g[k - 1], txs[k], p)]

\* There is one.
LEMMA ProduceExists ==
  ASSUME NEW s \in Sounds, NEW txs \in Seq(Tx), NEW p \in Account
  PROVE  \E g : Produces(g, s, txs, p)
<1> DEFINE n == Len(txs)
           b == [s |-> s, txs |-> <<>>]
           F == [k \in 1..n |-> [r \in Draft |-> ProduceStep(r, txs[k], p)]]
<1>1. n \in Nat /\ \A k \in 1..n : txs[k] \in Tx
  OBVIOUS
<1>2. b \in Draft
  BY DEF Draft
<1>3. \A k \in 1..n : F[k] \in [Draft -> Draft]
  BY <1>1, ProduceSteps
<1> HIDE DEF n, b
<1>4. PICK g : g \in [0..n -> Draft] /\ g[0] = b /\ \A k \in 1..n : g[k] = F[k][g[k - 1]]
  <2> HIDE DEF F
  <2>1. n \in Nat /\ StepsIn(F, n, Draft)
    BY <1>1, <1>3 DEF StepsIn
  <2>2. \E g : Recurs(g, n, Draft, b, F)
    BY <1>2, <2>1, Recursion
  <2> QED
    BY <2>2 DEF Recurs
<1>5. \A k \in 1..n : g[k] = ProduceStep(g[k - 1], txs[k], p)
  <2> SUFFICES ASSUME NEW k \in 1..n PROVE g[k] = ProduceStep(g[k - 1], txs[k], p)
    OBVIOUS
  <2>1. k - 1 \in 0..n
    BY <1>1
  <2> QED
    BY <1>4, <2>1
<1> DEFINE h == [k \in 0..n |-> IF k = 0 THEN b ELSE ProduceStep(g[k - 1], txs[k], p)]
<1>6. \A k \in 0..n : g[k] = h[k]
  BY <1>1, <1>4, <1>5
<1>7. g = h
  BY <1>4, <1>6
<1> QED
  BY <1>7 DEF Produces, n, b

\* And applyPendingTransactions returns its last value.
LEMMA ProduceUnfolds ==
  ASSUME NEW s \in Sounds, NEW txs \in Seq(Tx), NEW p \in Account
  PROVE  \E g : /\ g[0] = [s |-> s, txs |-> <<>>]
                /\ \A k \in 1..Len(txs) : g[k] = ProduceStep(g[k - 1], txs[k], p)
                /\ applyPendingTransactions(s, txs, p) = g[Len(txs)]
<1> DEFINE n == Len(txs)
           g == CHOOSE g : Produces(g, s, txs, p)
<1>1. applyPendingTransactions(s, txs, p) = g[n]
  BY DEF applyPendingTransactions, Produces, ProduceStep
<1>2. Produces(g, s, txs, p)
  <2>1. \E h : Produces(h, s, txs, p)
    BY ProduceExists
  <2> QED
    BY <2>1, Zenon
<1>3. n \in Nat
  OBVIOUS
<1> HIDE DEF g, n
<1>4. g = [k \in 0..n |-> IF k = 0 THEN [s |-> s, txs |-> <<>>] ELSE ProduceStep(g[k - 1], txs[k], p)]
  BY <1>2 DEF Produces, n
<1> DEFINE h == [k \in 0..n |-> IF k = 0 THEN [s |-> s, txs |-> <<>>] ELSE ProduceStep(g[k - 1], txs[k], p)]
<1>5. h[0] = [s |-> s, txs |-> <<>>] /\ \A k \in 1..n : h[k] = ProduceStep(g[k - 1], txs[k], p)
  BY <1>3
<1>6. g = h
  BY <1>4
<1> HIDE DEF h
<1>7. g[0] = [s |-> s, txs |-> <<>>] /\ \A k \in 1..n : g[k] = ProduceStep(g[k - 1], txs[k], p)
  BY <1>5, <1>6
<1> QED
  BY <1>1, <1>7 DEF n

\* Confirming is a matter of one field.
LEMMA ConfirmWith ==
  ASSUME NEW s \in State, NEW X \in SUBSET Tx
  PROVE  Confirm(s, X) = With(s, s.PendingTxs, s.ConfirmedTxs \cup X)
  BY DEF Confirm, With, State

\* One more in a list without repetitions.
LEMMA AppendDistinct ==
  ASSUME NEW q \in Seq(Tx), Distinct(q), NEW t \in Tx, t \notin Range(q)
  PROVE  Distinct(Append(q, t))
<1> DEFINE r == Append(q, t)
           n == Len(q)
<1>1. n \in Nat /\ Len(r) = n + 1 /\ (\A i \in 1..n : r[i] = q[i]) /\ r[n + 1] = t
  OBVIOUS
<1>2. \A i \in 1..n : q[i] # t
  BY DEF Range
<1>3. \A i, j \in 1..n : q[i] = q[j] => i = j
  BY DEF Distinct
<1> HIDE DEF r, n
<1>4. \A i, j \in 1..(n + 1) : r[i] = r[j] => i = j
  BY <1>1, <1>2, <1>3
<1> QED
  BY <1>1, <1>4 DEF Distinct, r

\* What it lists.
LEMMA AppendRange ==
  ASSUME NEW q \in Seq(Tx), NEW t \in Tx
  PROVE  Range(Append(q, t)) = Range(q) \cup {t}
<1> DEFINE r == Append(q, t)
           n == Len(q)
<1>1. n \in Nat /\ DOMAIN r = 1..(n + 1) /\ DOMAIN q = 1..n
      /\ (\A i \in 1..n : r[i] = q[i]) /\ r[n + 1] = t
  OBVIOUS
<1> HIDE DEF r, n
<1>2. 1..(n + 1) = (1..n) \cup {n + 1}
  BY <1>1
<1> QED
  BY <1>1, <1>2 DEF Range, r

\* What is true of the producer's pass over the first k transactions of txs: what it
\* took up can be replayed, to the state it has, but that it is not confirmed yet.
Produced(s, txs, k, p, x) ==
  /\ x \in Draft /\ Distinct(x.txs)
  /\ Range(x.txs) \subseteq {txs[i] : i \in 1..k}
  /\ Range(x.txs) \subseteq x.s.AppliedTxs
  /\ Range(x.txs) \cap s.ConfirmedTxs = {}
  /\ x.s.ConfirmedTxs = s.ConfirmedTxs /\ x.s.PendingTxs = s.PendingTxs
  /\ x.s.BaseFee = s.BaseFee /\ x.s.height = s.height
  /\ \E f : Pass(s, x.txs, p, f) /\ f[Len(x.txs)] = Confirm(x.s, Range(x.txs))

\* A replay can be continued.
LEMMA PassAppend ==
  ASSUME NEW s, NEW q \in Seq(Tx), NEW p \in Account, NEW f, Pass(s, q, p, f),
         NEW t \in Tx, Accepts(f[Len(q)], t)
  PROVE  \E h : Pass(s, Append(q, t), p, h) /\ h[Len(q) + 1] = Replayed(f[Len(q)], t, p)
<1> DEFINE n == Len(q)
           r == Append(q, t)
           e == Replayed(f[n], t, p)
           h == [k \in 0..(n + 1) |-> IF k = n + 1 THEN e ELSE f[k]]
<1>1. /\ n \in Nat /\ Len(r) = n + 1
      /\ (\A k \in 1..n : r[k] = q[k]) /\ r[n + 1] = t
  OBVIOUS
<1>2. /\ f \in [0..n -> Sounds] /\ f[0] = s
      /\ \A k \in 1..n : Accepts(f[k - 1], q[k]) /\ f[k] = Replayed(f[k - 1], q[k], p)
  BY DEF Pass
<1>3. f[n] \in Sounds /\ Accepts(f[n], t)
  BY <1>1, <1>2
<1>4. e \in Sounds
  BY <1>3, ReplayedSound
<1>5. e = Replayed(f[n], t, p)
  OBVIOUS
<1> HIDE DEF n, r, e
<1>6. h \in [0..(n + 1) -> Sounds] /\ h[0] = s /\ h[n + 1] = e
  BY <1>1, <1>2, <1>4
<1>7. ASSUME NEW k \in 1..(n + 1)
      PROVE  Accepts(h[k - 1], r[k]) /\ h[k] = Replayed(h[k - 1], r[k], p)
  <2>1. CASE k = n + 1
    <3>1. k - 1 = n /\ n \in 0..(n + 1) /\ n # n + 1
      BY <1>1, <2>1
    <3>2. h[k - 1] = f[n] /\ h[k] = e /\ r[k] = t
      BY <1>1, <2>1, <3>1
    <3> QED
      BY <1>3, <1>5, <3>2
  <2>2. CASE k # n + 1
    <3>1. k \in 1..n /\ k - 1 \in 0..(n + 1) /\ k - 1 # n + 1
      BY <1>1, <2>2
    <3>2. h[k - 1] = f[k - 1] /\ h[k] = f[k] /\ r[k] = q[k]
      BY <1>1, <2>2, <3>1
    <3> QED
      BY <1>2, <3>1, <3>2
  <2> QED
    BY <2>1, <2>2
<1> HIDE DEF h
<1>8. Pass(s, r, p, h)
  BY <1>1, <1>6, <1>7 DEF Pass
<1> QED
  BY <1>5, <1>6, <1>8 DEF n, r, e

\* The pass goes on.
LEMMA ProducedStep ==
  ASSUME NEW s \in Sounds, NEW txs \in Seq(Tx), Distinct(txs), NEW p \in Account,
         NEW k \in 0..(Len(txs) - 1), NEW x, Produced(s, txs, k, p, x)
  PROVE  Produced(s, txs, k + 1, p, ProduceStep(x, txs[k + 1], p))
<1> DEFINE t == txs[k + 1]
           q == x.txs
           X == Range(q)
           b == inBlock(x.s, t, p)
           Seen(j) == {txs[i] : i \in 1..j}
<1>1. k \in Nat /\ k + 1 \in 1..Len(txs) /\ t \in Tx /\ (\A i \in 1..k : i \in 1..Len(txs) /\ i # k + 1)
  OBVIOUS
<1>2. Seen(k + 1) = Seen(k) \cup {t} /\ t \notin Seen(k)
  <2>1. 1..(k + 1) = (1..k) \cup {k + 1}
    BY <1>1
  <2>2. \A i \in 1..k : txs[i] # t
    BY <1>1 DEF Distinct
  <2> QED
    BY <2>1, <2>2
<1> HIDE DEF t, Seen
<1>3. /\ x \in Draft /\ x.s \in Sounds /\ Sound(x.s) /\ x.s \in State /\ q \in Seq(Tx) /\ Distinct(q)
      /\ X \subseteq Seen(k) /\ X \subseteq x.s.AppliedTxs /\ X \cap s.ConfirmedTxs = {}
      /\ x.s.ConfirmedTxs = s.ConfirmedTxs /\ x.s.PendingTxs = s.PendingTxs
      /\ x.s.BaseFee = s.BaseFee /\ x.s.height = s.height
  BY DEF Produced, Draft, Sounds, Seen
<1>4. PICK f : Pass(s, q, p, f) /\ f[Len(q)] = Confirm(x.s, X)
  BY DEF Produced
<1>5. CASE ~Accepts(x.s, t)
  <2>1. ProduceStep(x, t, p) = x
    BY <1>5 DEF ProduceStep
  <2>2. X \subseteq Seen(k + 1)
    BY <1>2, <1>3
  <2> HIDE DEF X, q
  <2>3. Produced(s, txs, k + 1, p, x)
    BY <1>3, <1>4, <2>2 DEF Produced, Seen, X, q
  <2> QED
    BY <2>1, <2>3 DEF t
<1>6. CASE Accepts(x.s, t)
  <2> DEFINE y == ProduceStep(x, t, p)
  <2>1. y = [s |-> b, txs |-> Append(q, t)]
    BY <1>6 DEF ProduceStep
  <2>2. /\ Sound(b) /\ b \in State /\ b.AppliedTxs = x.s.AppliedTxs \cup {t}
        /\ b.PendingTxs = s.PendingTxs /\ b.ConfirmedTxs = s.ConfirmedTxs
        /\ b.BaseFee = s.BaseFee /\ b.height = s.height
    BY <1>1, <1>3, <1>6, AcceptedInBlock DEF Sound
  <2>3. t \notin X /\ t \notin s.ConfirmedTxs
    BY <1>2, <1>3, <1>6 DEF Accepts
  <2>4. /\ Append(q, t) \in Seq(Tx) /\ Len(Append(q, t)) = Len(q) + 1
        /\ Distinct(Append(q, t)) /\ Range(Append(q, t)) = X \cup {t}
    BY <1>1, <1>3, <2>3, AppendDistinct, AppendRange
  <2> HIDE DEF X, q, b
  <2>5. \E h : /\ Pass(s, Append(q, t), p, h)
               /\ h[Len(Append(q, t))] = Confirm(b, X \cup {t})
    <3> DEFINE C == s.ConfirmedTxs \cup X
               P == s.PendingTxs
               e == f[Len(q)]
    <3>1. X \in SUBSET Tx /\ C \in SUBSET Tx /\ P \in SUBSET Tx /\ t \notin C
      <4>1. s.ConfirmedTxs \subseteq Tx /\ s.PendingTxs \subseteq Tx /\ x.s.AppliedTxs \subseteq Tx
        BY <1>3, Fields DEF Sounds
      <4> QED
        BY <1>3, <2>3, <4>1
    <3>2. e = With(x.s, P, C)
      BY <1>3, <1>4, <3>1, ConfirmWith DEF X
    <3> HIDE DEF P, C, e
    <3>3. Accepts(e, t) /\ inBlock(e, t, p) = With(b, P, C)
      BY <1>1, <1>3, <1>6, <3>1, <3>2, InBlockWith DEF b
    <3>4. PICK h : Pass(s, Append(q, t), p, h) /\ h[Len(q) + 1] = Replayed(e, t, p)
      BY <1>1, <1>3, <1>4, <3>3, PassAppend DEF e
    <3>5. Replayed(e, t, p) = [With(b, P, C) EXCEPT !.ConfirmedTxs = @ \cup {t}]
      BY <3>3 DEF Replayed
    <3>6. P = b.PendingTxs /\ C \cup {t} = b.ConfirmedTxs \cup (X \cup {t})
      BY <2>2 DEF P, C
    <3>7. [With(b, P, C) EXCEPT !.ConfirmedTxs = @ \cup {t}] = With(b, P, C \cup {t})
      BY <2>2 DEF With, State
    <3>8. Confirm(b, X \cup {t}) = With(b, P, C \cup {t})
      BY <1>1, <2>2, <3>1, <3>6, ConfirmWith
    <3> QED
      BY <2>4, <3>4, <3>5, <3>7, <3>8
  <2>6. y.s = b /\ y.txs = Append(q, t) /\ y \in Draft
    BY <2>1, <2>2, <2>4 DEF Draft, Sounds
  <2>7. /\ Range(y.txs) \subseteq Seen(k + 1)
        /\ Range(y.txs) \subseteq y.s.AppliedTxs
        /\ Range(y.txs) \cap s.ConfirmedTxs = {}
    <3> HIDE DEF y
    <3> QED
      BY <1>2, <1>3, <2>2, <2>3, <2>4, <2>6 DEF X
  <2> HIDE DEF y
  <2>8. Produced(s, txs, k + 1, p, y)
    BY <2>2, <2>4, <2>5, <2>6, <2>7 DEF Produced, Seen
  <2> QED
    BY <2>8 DEF y, t
<1> QED
  BY <1>5, <1>6

\* So the block a node produces can be replayed.
LEMMA ProducesReplayable ==
  ASSUME NEW s \in Sounds, NEW txs \in Seq(Tx), Distinct(txs), NEW p \in Account
  PROVE  Produced(s, txs, Len(txs), p, applyPendingTransactions(s, txs, p))
<1> DEFINE n == Len(txs)
<1>1. PICK g : /\ g[0] = [s |-> s, txs |-> <<>>]
               /\ \A k \in 1..n : g[k] = ProduceStep(g[k - 1], txs[k], p)
               /\ applyPendingTransactions(s, txs, p) = g[n]
  BY ProduceUnfolds
<1>2. n \in Nat
  OBVIOUS
<1> DEFINE S == {k \in 0..n : Produced(s, txs, k, p, g[k])}
<1>3. 0 \in S
  <2> DEFINE x == [s |-> s, txs |-> <<>>]
             f == [k \in 0..0 |-> s]
  <2>1. x \in Draft /\ Distinct(x.txs) /\ Range(x.txs) = {} /\ Len(x.txs) = 0
    BY DEF Draft, Distinct, Range
  <2>2. f \in [0..0 -> Sounds] /\ f[0] = s
    OBVIOUS
  <2>3. Confirm(s, {}) = s
    BY DEF Confirm, Sounds, State
  <2>4. Pass(s, x.txs, p, f) /\ f[Len(x.txs)] = Confirm(x.s, Range(x.txs))
    <3> HIDE DEF f
    <3>1. Pass(s, <<>>, p, f)
      BY <2>2 DEF Pass
    <3> QED
      BY <2>1, <2>2, <2>3, <3>1
  <2>5. x.s = s
    OBVIOUS
  <2> HIDE DEF x, f
  <2>6. Produced(s, txs, 0, p, x)
    BY <2>1, <2>4, <2>5 DEF Produced
  <2>7. 0 \in 0..n
    BY <1>2
  <2> QED
    BY <1>1, <2>6, <2>7 DEF x
<1>4. ASSUME NEW k \in 0..(n - 1), k \in S PROVE k + 1 \in S
  <2>1. k + 1 \in 1..n /\ (k + 1) - 1 = k /\ k + 1 \in 0..n
    BY <1>2
  <2>2. g[k + 1] = ProduceStep(g[k], txs[k + 1], p)
    BY <1>1, <2>1
  <2>3. Produced(s, txs, k, p, g[k])
    BY <1>4
  <2>4. Produced(s, txs, k + 1, p, g[k + 1])
    BY <2>2, <2>3, ProducedStep
  <2> QED
    BY <2>1, <2>4
<1>5. \A k \in 0..n : k \in S
  <2> HIDE DEF S, n
  <2> QED
    BY <1>2, <1>3, <1>4, IntervalInduction
<1>6. Produced(s, txs, n, p, g[n])
  BY <1>2, <1>5
<1> QED
  BY <1>1, <1>6

-----------------------------------------------------------------------------
(***************************************************************************)
(* The selection for a block                                               *)
(***************************************************************************)
\* The parts of the order.
LEMMA BeforeIs ==
  ASSUME NEW t \in Tx, NEW u \in Tx
  PROVE  Before(t, u) <=>
           \/ t.fee > u.fee
           \/ t.fee = u.fee /\ Address[t.from] < Address[u.from]
           \/ t.fee = u.fee /\ t.from = u.from /\ t.nonce < u.nonce
           \/ t.fee = u.fee /\ t.from = u.from /\ t.nonce = u.nonce /\ t.id < u.id
  BY DEF Before

\* Transactions are ordered from the first to the last.
LEMMA TxOrder ==
  ASSUME NEW S, S \subseteq Tx
  PROVE  Orders(S, {p \in S \X S : Before(p[1], p[2])})
<1> DEFINE before == {p \in S \X S : Before(p[1], p[2])}
<1>1. \A t \in S : /\ t.fee \in Nat /\ t.nonce \in Nat /\ t.id \in Nat /\ t.from \in Account
                   /\ Address[t.from] \in Nat
  BY TxFields, LedgerAssumption
<1>2. \A t, u \in S : <<t, u>> \in before <=> Before(t, u)
  OBVIOUS
<1>3. \A t, u \in S : (Address[t.from] = Address[u.from] => t.from = u.from) /\ (t.id = u.id => t = u)
  BY <1>1, LedgerAssumption
<1> HIDE DEF before
<1>4. \A t \in S : ~Before(t, t)
  BY <1>1, BeforeIs
<1>5. \A t, u \in S : t # u => (Before(t, u) <=> ~Before(u, t))
  <2> SUFFICES ASSUME NEW t \in S, NEW u \in S, t # u PROVE Before(t, u) <=> ~Before(u, t)
    OBVIOUS
  <2>1. t.id # u.id /\ (Address[t.from] = Address[u.from] <=> t.from = u.from)
    BY <1>3
  <2> QED
    BY <1>1, <2>1, BeforeIs
<1>6. \A t, u, v \in S : Before(t, u) /\ Before(u, v) => Before(t, v)
  <2> SUFFICES ASSUME NEW t \in S, NEW u \in S, NEW v \in S, Before(t, u), Before(u, v)
               PROVE  Before(t, v)
    OBVIOUS
  <2>1. /\ Address[t.from] = Address[u.from] <=> t.from = u.from
        /\ Address[u.from] = Address[v.from] <=> u.from = v.from
        /\ Address[t.from] = Address[v.from] <=> t.from = v.from
    BY <1>3
  <2> QED
    BY <1>1, <2>1, BeforeIs
<1>7. Orders(S, before)
  <2>1. \A a \in S : <<a, a>> \notin before
    BY <1>2, <1>4
  <2>2. ASSUME NEW a \in S, NEW b \in S, a # b
        PROVE  (<<a, b>> \in before) # (<<b, a>> \in before)
    <3>1. /\ (<<a, b>> \in before) <=> Before(a, b)
          /\ (<<b, a>> \in before) <=> Before(b, a)
      BY <1>2
    <3>2. Before(a, b) <=> ~Before(b, a)
      BY <1>5, <2>2
    <3>3. (<<a, b>> \in before) <=> ~(<<b, a>> \in before)
      BY <3>1, <3>2
    <3> QED
      BY <3>3
  <2>3. \A a, b, c \in S : <<a, b>> \in before /\ <<b, c>> \in before => <<a, c>> \in before
    BY <1>2, <1>6
  <2> QED
    BY <2>1, <2>2, <2>3 DEF Orders
<1> QED
  BY <1>7 DEF before

\* Lists of transactions that are all different.
Lists(S) == {q \in Seq(S) : Distinct(q)}

\* Sorting makes one.
LEMMA Sorted ==
  ASSUME NEW S, S \subseteq Tx, IsFiniteSet(S)
  PROVE  sortPendingTxs(S) \in Lists(S)
<1> DEFINE before == {p \in S \X S : Before(p[1], p[2])}
           q == Ordered(S, before)
<1>1. Orders(S, before)
  BY TxOrder
<1> HIDE DEF before
<1>2. q \in Seq(S) /\ \A i, j \in 1..Len(q) : q[i] = q[j] => i = j
  BY <1>1, OrderedLists
<1>3. sortPendingTxs(S) = q
  BY DEF sortPendingTxs, before
<1> HIDE DEF q
<1> QED
  BY <1>2, <1>3 DEF Lists, Distinct

\* And adding a transaction to the selection keeps it one.
LEMMA NextAdded ==
  ASSUME NEW s, NEW S, S \subseteq Tx, NEW order \in Lists(S), NEW q \in Lists(S)
  PROVE  AddNext(s, order, q) \in Lists(S)
<1> DEFINE next(a) == s.nonce[a] + Cardinality({t \in Range(q) : t.from = a /\ t \notin s.AppliedTxs})
           ready == {i \in DOMAIN order : order[i] \notin Range(q) /\ order[i].nonce = next(order[i].from)}
<1>1. AddNext(s, order, q) = IF ready = {} THEN q ELSE Append(q, order[Min(ready)])
  BY DEF AddNext
<1>2. CASE ready = {}
  BY <1>1, <1>2
<1>3. CASE ready # {}
  <2>1. order \in Seq(S) /\ q \in Seq(S) /\ q \in Seq(Tx) /\ Distinct(q)
    BY DEF Lists
  <2>2. DOMAIN order = 1..Len(order) /\ Len(order) \in Nat
    BY <2>1
  <2> HIDE DEF next
  <2>3. ready \in SUBSET Int /\ IsFiniteSet(ready)
    <3>1. IsFiniteSet(1..Len(order))
      BY <2>2, FS_Interval
    <3>2. ready \subseteq 1..Len(order)
      BY <2>2
    <3> HIDE DEF ready
    <3>3. IsFiniteSet(ready)
      BY <3>1, <3>2, FS_Subset
    <3>4. 1..Len(order) \subseteq Int
      BY <2>2
    <3> QED
      BY <3>2, <3>3, <3>4
  <2>4. Min(ready) \in ready
    <3> HIDE DEF ready
    <3> QED
      BY <1>3, <2>3, MinimumExists
  <2> DEFINE t == order[Min(ready)]
  <2>5. t \notin Range(q)
    BY <2>4
  <2>6. t \in S
    BY <2>1, <2>2, <2>4
  <2> HIDE DEF t, ready
  <2>7. Append(q, t) \in Seq(S) /\ Distinct(Append(q, t))
    BY <2>1, <2>5, <2>6, AppendDistinct
  <2> QED
    BY <1>1, <1>3, <2>7 DEF Lists, t
<1> QED
  BY <1>2, <1>3

\* The selection of a node lists transactions that wait there, each of them once.
LEMMA Selected ==
  ASSUME NEW s \in Sounds
  PROVE  selectPendingTxs(s) \in Lists(s.PendingTxs)
<1> DEFINE S == s.PendingTxs
           A == S \cap s.AppliedTxs
           order == sortPendingTxs(S)
           ahead == sortPendingTxs(A)
           F == [k \in 1..MaxBlockTxs |-> [q \in Lists(S) |-> AddNext(s, order, q)]]
           Is(g) == g = [k \in 0..MaxBlockTxs |-> IF k = 0 THEN ahead ELSE AddNext(s, order, g[k - 1])]
<1>1. S \subseteq Tx /\ IsFiniteSet(S) /\ A \subseteq Tx /\ IsFiniteSet(A) /\ A \subseteq S
  BY Fields, FS_Subset DEF Sounds, Sound
<1>2. MaxBlockTxs \in Nat
  BY LedgerAssumption
<1> HIDE DEF S, A
<1>3. order \in Lists(S) /\ ahead \in Lists(S)
  <2>1. order \in Lists(S) /\ ahead \in Lists(A)
    BY <1>1, Sorted
  <2> QED
    BY <1>1, <2>1 DEF Lists
<1>4. selectPendingTxs(s) = IF Len(ahead) >= MaxBlockTxs THEN SubSeq(ahead, 1, MaxBlockTxs)
                            ELSE (CHOOSE g : Is(g))[MaxBlockTxs - Len(ahead)]
  BY DEF selectPendingTxs, S, A
<1> HIDE DEF order, ahead
<1>5. StepsIn(F, MaxBlockTxs, Lists(S))
  BY <1>1, <1>3, NextAdded DEF StepsIn
<1>6. PICK g : /\ g \in [0..MaxBlockTxs -> Lists(S)] /\ g[0] = ahead
               /\ \A k \in 1..MaxBlockTxs : g[k] = F[k][g[k - 1]]
  <2> HIDE DEF F
  <2>1. \E g : Recurs(g, MaxBlockTxs, Lists(S), ahead, F)
    BY <1>2, <1>3, <1>5, Recursion
  <2> QED
    BY <2>1 DEF Recurs
<1>7. \A k \in 1..MaxBlockTxs : g[k] = AddNext(s, order, g[k - 1])
  <2> SUFFICES ASSUME NEW k \in 1..MaxBlockTxs PROVE g[k] = AddNext(s, order, g[k - 1])
    OBVIOUS
  <2>1. k - 1 \in 0..MaxBlockTxs
    BY <1>2
  <2> QED
    BY <1>6, <2>1
<1>8. Is(g)
  <2> DEFINE h == [k \in 0..MaxBlockTxs |-> IF k = 0 THEN ahead ELSE AddNext(s, order, g[k - 1])]
  <2>1. \A k \in 0..MaxBlockTxs : g[k] = h[k]
    BY <1>2, <1>6, <1>7
  <2> QED
    BY <1>6, <2>1
<1> DEFINE c == CHOOSE f : Is(f)
<1>9. Is(c)
  <2> HIDE DEF Is
  <2> QED
    BY <1>8, Zenon
<1>10. c[0] = ahead /\ \A k \in 1..MaxBlockTxs : c[k] = AddNext(s, order, c[k - 1])
  <2> HIDE DEF c
  <2> DEFINE h == [k \in 0..MaxBlockTxs |-> IF k = 0 THEN ahead ELSE AddNext(s, order, c[k - 1])]
  <2>1. h[0] = ahead /\ \A k \in 1..MaxBlockTxs : h[k] = AddNext(s, order, c[k - 1])
    BY <1>2
  <2>2. c = h
    BY <1>9
  <2> HIDE DEF h
  <2> QED
    BY <2>1, <2>2
<1> HIDE DEF Is
<1> DEFINE T == {k \in 0..MaxBlockTxs : c[k] \in Lists(S)}
<1>11. \A k \in 0..MaxBlockTxs : c[k] \in Lists(S)
  <2> HIDE DEF c
  <2>1. 0 \in T
    BY <1>2, <1>3, <1>10
  <2>2. ASSUME NEW k \in 0..(MaxBlockTxs - 1), k \in T PROVE k + 1 \in T
    <3>1. k + 1 \in 1..MaxBlockTxs /\ (k + 1) - 1 = k /\ k + 1 \in 0..MaxBlockTxs
      BY <1>2
    <3>2. c[k + 1] = AddNext(s, order, c[k]) /\ c[k] \in Lists(S)
      BY <1>10, <2>2, <3>1
    <3>3. c[k + 1] \in Lists(S)
      BY <1>1, <1>3, <3>2, NextAdded
    <3> QED
      BY <3>1, <3>3
  <2> HIDE DEF T
  <2>3. \A k \in 0..MaxBlockTxs : k \in T
    BY <1>2, <2>1, <2>2, IntervalInduction
  <2> QED
    BY <2>3 DEF T
<1>12. ahead \in Seq(S) /\ Distinct(ahead) /\ Len(ahead) \in Nat
  BY <1>3 DEF Lists
<1>13. CASE Len(ahead) >= MaxBlockTxs
  <2> DEFINE q == SubSeq(ahead, 1, MaxBlockTxs)
  <2>1. q \in Seq(S) /\ Len(q) = MaxBlockTxs /\ \A i \in 1..MaxBlockTxs : q[i] = ahead[i]
    BY <1>2, <1>12, <1>13
  <2>2. \A i \in 1..MaxBlockTxs : i \in 1..Len(ahead)
    BY <1>2, <1>12, <1>13
  <2> HIDE DEF q
  <2>3. Distinct(q)
    BY <1>12, <2>1, <2>2 DEF Distinct
  <2> QED
    BY <1>4, <1>13, <2>1, <2>3 DEF Lists, q, S
<1>14. CASE ~(Len(ahead) >= MaxBlockTxs)
  <2>1. MaxBlockTxs - Len(ahead) \in 0..MaxBlockTxs
    BY <1>2, <1>12, <1>14
  <2> HIDE DEF c
  <2>2. c[MaxBlockTxs - Len(ahead)] \in Lists(S)
    BY <1>11, <2>1
  <2> QED
    BY <1>4, <1>14, <2>2 DEF c, S
<1> QED
  BY <1>13, <1>14

-----------------------------------------------------------------------------
(***************************************************************************)
(* The mempool                                                             *)
(***************************************************************************)
\* A transaction that is taken up waits; nothing else changes.
LEMMA Enqueued ==
  ASSUME NEW s \in Sounds, NEW t \in Tx
  PROVE  LET r == enqueuePendingTx(s, t)
         IN  /\ r \in Sounds /\ t \in r.PendingTxs
             /\ r.bal = s.bal /\ r.nonce = s.nonce /\ r.AppliedTxs = s.AppliedTxs
             /\ r.FeeChargedTxs = s.FeeChargedTxs /\ r.ConfirmedTxs = s.ConfirmedTxs
             /\ r.BaseFee = s.BaseFee /\ r.height = s.height
<1> DEFINE P == (s.PendingTxs \ Rivals(s, t)) \cup {t}
           r == enqueuePendingTx(s, t)
<1>1. s \in State /\ IsFiniteSet(s.PendingTxs) /\ s.PendingTxs \subseteq Tx /\ NoncesUsed(s)
      /\ SumFunctionOnSet(s.bal, Account) = SumFunctionOnSet(Balance, Account)
  BY Fields DEF Sounds, Sound
<1>2. IsFiniteSet(P) /\ P \in SUBSET Tx /\ t \in P
  <2>1. IsFiniteSet(s.PendingTxs \ Rivals(s, t))
    BY <1>1, FS_Subset
  <2>2. IsFiniteSet(P)
    BY <2>1, FS_AddElement
  <2> QED
    BY <1>1, <2>2
<1>3. r = [s EXCEPT !.PendingTxs = P]
  BY <1>1 DEF enqueuePendingTx, State
<1> HIDE DEF P, r
<1>4. /\ r \in State /\ r.PendingTxs = P
      /\ r.bal = s.bal /\ r.nonce = s.nonce /\ r.AppliedTxs = s.AppliedTxs
      /\ r.FeeChargedTxs = s.FeeChargedTxs /\ r.ConfirmedTxs = s.ConfirmedTxs
      /\ r.BaseFee = s.BaseFee /\ r.height = s.height
  BY <1>1, <1>2, <1>3 DEF State
<1>5. r \in Sounds
  BY <1>1, <1>2, <1>4 DEF Sounds, Sound, NoncesUsed, Used
<1> QED
  BY <1>2, <1>4, <1>5 DEF r

\* A transfer of a client is recorded before it is executed.
LEMMA Recorded ==
  ASSUME NEW s \in Sounds, NEW t \in Tx
  PROVE  LET r == recordTx(s, t)
         IN  /\ r \in State /\ IsFiniteSet(r.PendingTxs)
             /\ r.bal = s.bal /\ r.nonce = s.nonce
             /\ \/ r.AppliedTxs = s.AppliedTxs
                \/ t \in r.PendingTxs /\ r.AppliedTxs = s.AppliedTxs \cup {t}
             /\ r.ConfirmedTxs = s.ConfirmedTxs /\ r.height = s.height
<1> DEFINE e == enqueuePendingTx(s, t)
           r == recordTx(s, t)
<1>1. s \in State /\ IsFiniteSet(s.PendingTxs)
  BY DEF Sounds, Sound
<1>2. CASE ~enqueueable(s, t)
  BY <1>1, <1>2 DEF recordTx
<1>3. CASE enqueueable(s, t)
  <2>1. r = [e EXCEPT !.AppliedTxs = @ \cup {t}]
    BY <1>3 DEF recordTx
  <2>2. /\ e \in State /\ IsFiniteSet(e.PendingTxs) /\ t \in e.PendingTxs
        /\ e.bal = s.bal /\ e.nonce = s.nonce /\ e.AppliedTxs = s.AppliedTxs
        /\ e.ConfirmedTxs = s.ConfirmedTxs /\ e.height = s.height
    BY Enqueued DEF Sounds, Sound
  <2> HIDE DEF e, r
  <2>3. /\ r \in State /\ r.PendingTxs = e.PendingTxs /\ r.AppliedTxs = e.AppliedTxs \cup {t}
        /\ r.bal = e.bal /\ r.nonce = e.nonce
        /\ r.ConfirmedTxs = e.ConfirmedTxs /\ r.height = e.height
    BY <2>1, <2>2 DEF State
  <2> QED
    BY <2>2, <2>3 DEF r
<1> QED
  BY <1>2, <1>3

\* When it can be executed its nonce is used, and tokens move;
LEMMA Posted ==
  ASSUME NEW s \in Sounds, NEW t \in Tx, applicable(recordTx(s, t), t)
  PROVE  LET r == applyTransfer(recordTx(s, t), t)
         IN  r \in Sounds /\ r.ConfirmedTxs = s.ConfirmedTxs /\ r.height = s.height
<1> DEFINE e == recordTx(s, t)
           r == applyTransfer(e, t)
<1>1. s \in State /\ NoncesUsed(s)
      /\ SumFunctionOnSet(s.bal, Account) = SumFunctionOnSet(Balance, Account)
  BY DEF Sounds, Sound
<1>2. /\ e \in State /\ IsFiniteSet(e.PendingTxs) /\ e.bal = s.bal /\ e.nonce = s.nonce
      /\ e.AppliedTxs \subseteq s.AppliedTxs \cup {t}
      /\ e.ConfirmedTxs = s.ConfirmedTxs /\ e.height = s.height
  BY Recorded
<1>3. applicable(e, t) /\ t.nonce = s.nonce[t.from]
  BY <1>2 DEF applicable
<1> HIDE DEF e
<1>4. /\ r \in State /\ SumFunctionOnSet(r.bal, Account) = SumFunctionOnSet(e.bal, Account)
      /\ r.nonce[t.from] = t.nonce + 1
      /\ \A a \in Account \ {t.from} : r.nonce[a] = s.nonce[a]
  BY <1>2, <1>3, Transferred
<1>5. /\ r.PendingTxs = e.PendingTxs /\ r.AppliedTxs = e.AppliedTxs
      /\ r.ConfirmedTxs = e.ConfirmedTxs /\ r.height = e.height
  BY <1>2, TransferFields
<1> HIDE DEF r
<1>6. NoncesUsed(r)
  <2>1. Used(r) \subseteq Used(s) \cup {t}
    BY <1>2, <1>5 DEF Used
  <2> QED
    BY <1>1, <1>3, <1>4, <2>1, NonceUsed
<1>7. r \in Sounds
  BY <1>1, <1>2, <1>4, <1>5, <1>6 DEF Sounds, Sound
<1> QED
  BY <1>2, <1>5, <1>7 DEF r, e

\* when it cannot, the record is taken out again.
LEMMA Refused ==
  ASSUME NEW s \in Sounds, NEW t \in Tx
  PROVE  LET r == removePendingTx(recordTx(s, t), t)
         IN  r \in Sounds /\ r.ConfirmedTxs = s.ConfirmedTxs /\ r.height = s.height
<1> DEFINE e == recordTx(s, t)
           r == removePendingTx(e, t)
<1>1. s \in State /\ NoncesUsed(s)
      /\ SumFunctionOnSet(s.bal, Account) = SumFunctionOnSet(Balance, Account)
  BY DEF Sounds, Sound
<1>2. /\ e \in State /\ IsFiniteSet(e.PendingTxs) /\ e.bal = s.bal /\ e.nonce = s.nonce
      /\ \/ e.AppliedTxs = s.AppliedTxs
         \/ t \in e.PendingTxs /\ e.AppliedTxs = s.AppliedTxs \cup {t}
      /\ e.ConfirmedTxs = s.ConfirmedTxs /\ e.height = s.height
  BY Recorded
<1> HIDE DEF e
<1>3. /\ r \in State /\ r.PendingTxs \subseteq e.PendingTxs /\ r.bal = e.bal /\ r.nonce = e.nonce
      /\ r.AppliedTxs = IF t \in e.PendingTxs THEN e.AppliedTxs \ {t} ELSE e.AppliedTxs
      /\ r.ConfirmedTxs = e.ConfirmedTxs /\ r.height = e.height
  BY <1>2 DEF removePendingTx, State
<1> HIDE DEF r
<1>4. r.AppliedTxs \subseteq s.AppliedTxs
  BY <1>2, <1>3
<1>5. NoncesUsed(r)
  <2>1. Used(r) \subseteq Used(s)
    BY <1>2, <1>3, <1>4 DEF Used
  <2> QED
    BY <1>1, <1>2, <1>3, <2>1 DEF NoncesUsed
<1>6. IsFiniteSet(r.PendingTxs)
  BY <1>2, <1>3, FS_Subset
<1>7. r \in Sounds
  BY <1>1, <1>2, <1>3, <1>5, <1>6 DEF Sounds, Sound
<1> QED
  BY <1>2, <1>3, <1>7 DEF r, e

-----------------------------------------------------------------------------
(***************************************************************************)
(* Tokens are conserved and nonces are used once                           *)
(***************************************************************************)
\* A state has confirmed the chain up to its height.
Behind(s, c) ==
  /\ s.height \in 0..Len(c)
  /\ \A i \in 1..s.height : Range(c[i].txs) \subseteq s.ConfirmedTxs

SpentOnce(c) ==
  \A i, k \in 1..Len(c) : \A j \in 1..Len(c[i].txs), l \in 1..Len(c[k].txs) :
    LET t == c[i].txs[j]
        u == c[k].txs[l]
    IN  t.from = u.from /\ t.nonce = u.nonce => i = k /\ j = l

LedgerInv ==
  /\ gateways \subseteq Node /\ chain \in Seq(Block)
  /\ st \in [Node -> Sounds] /\ disk \in [Node -> Sounds]
  /\ \A n \in Node : Behind(st[n], chain) /\ Behind(disk[n], chain)
  /\ SpentOnce(chain)

\* A step of one node that leaves the chain alone.
LEMMA NodeMoves ==
  ASSUME LedgerInv, NEW n \in Node, NEW r \in Sounds, Behind(r, chain),
         st' = [st EXCEPT ![n] = r], disk' = disk \/ disk' = [disk EXCEPT ![n] = st'[n]],
         UNCHANGED <<gateways, chain>>
  PROVE  LedgerInv'
<1>1. st' \in [Node -> Sounds] /\ st'[n] = r /\ \A m \in Node : st'[m] = r \/ st'[m] = st[m]
  BY DEF LedgerInv
<1>2. disk' \in [Node -> Sounds] /\ \A m \in Node : disk'[m] = r \/ disk'[m] = disk[m]
  BY <1>1 DEF LedgerInv
<1>3. \A m \in Node : Behind(st'[m], chain) /\ Behind(disk'[m], chain)
  BY <1>1, <1>2 DEF LedgerInv
<1> QED
  BY <1>1, <1>2, <1>3 DEF LedgerInv

\* A state of the same height that has confirmed as much.
LEMMA StaysBehind ==
  ASSUME NEW s, NEW r, NEW c, Behind(s, c), r.height = s.height, s.ConfirmedTxs \subseteq r.ConfirmedTxs
  PROVE  Behind(r, c)
  BY DEF Behind

\* Clients' transfers,
LEMMA TransferKeeps ==
  ASSUME LedgerInv, NEW n \in Node, Transfer(n) PROVE LedgerInv'
<1>1. PICK t \in Tx :
        /\ \/ /\ applicable(recordTx(st[n], t), t)
              /\ st' = [st EXCEPT ![n] = applyTransfer(recordTx(st[n], t), t)]
              /\ Save(n)
           \/ /\ st' = [st EXCEPT ![n] = removePendingTx(recordTx(st[n], t), t)]
              /\ UNCHANGED disk
        /\ UNCHANGED <<gateways, chain>>
  BY DEF Transfer
<1>2. st[n] \in Sounds /\ Behind(st[n], chain)
  BY DEF LedgerInv
<1>3. CASE /\ applicable(recordTx(st[n], t), t)
           /\ st' = [st EXCEPT ![n] = applyTransfer(recordTx(st[n], t), t)]
           /\ Save(n)
  <2> DEFINE r == applyTransfer(recordTx(st[n], t), t)
  <2>1. r \in Sounds /\ r.ConfirmedTxs = st[n].ConfirmedTxs /\ r.height = st[n].height
    BY <1>2, <1>3, Posted
  <2>2. st' = [st EXCEPT ![n] = r] /\ disk' = [disk EXCEPT ![n] = st'[n]]
    BY <1>3 DEF Save
  <2> HIDE DEF r
  <2> QED
    BY <1>1, <1>2, <2>1, <2>2, StaysBehind, NodeMoves
<1>4. CASE /\ st' = [st EXCEPT ![n] = removePendingTx(recordTx(st[n], t), t)]
           /\ UNCHANGED disk
  <2> DEFINE r == removePendingTx(recordTx(st[n], t), t)
  <2>1. r \in Sounds /\ r.ConfirmedTxs = st[n].ConfirmedTxs /\ r.height = st[n].height
    BY <1>2, Refused
  <2>2. st' = [st EXCEPT ![n] = r] /\ disk' = disk
    BY <1>4
  <2> HIDE DEF r
  <2> QED
    BY <1>1, <1>2, <2>1, <2>2, StaysBehind, NodeMoves
<1> QED
  BY <1>1, <1>3, <1>4

\* transfers by gossip,
LEMMA AcceptTransactionKeeps ==
  ASSUME LedgerInv, NEW n \in Node, AcceptTransaction(n) PROVE LedgerInv'
<1>1. PICK t \in Tx : /\ st' = [st EXCEPT ![n] = enqueuePendingTx(st[n], t)]
                      /\ Save(n) /\ UNCHANGED <<gateways, chain>>
  BY DEF AcceptTransaction, LedgerInv
<1>2. st[n] \in Sounds /\ Behind(st[n], chain)
  BY DEF LedgerInv
<1> DEFINE r == enqueuePendingTx(st[n], t)
<1>3. r \in Sounds /\ r.ConfirmedTxs = st[n].ConfirmedTxs /\ r.height = st[n].height
  BY <1>2, Enqueued
<1>4. st' = [st EXCEPT ![n] = r] /\ disk' = [disk EXCEPT ![n] = st'[n]]
  BY <1>1 DEF Save
<1> HIDE DEF r
<1> QED
  BY <1>1, <1>2, <1>3, <1>4, StaysBehind, NodeMoves

\* A block that is replayed leaves a sound state, whether its root is right or not.
LEMMA ReplayedKeeps ==
  ASSUME NEW s \in Sounds, NEW c \in Seq(Block), Behind(s, c), s.height < Len(c),
         NEW r, r = applyBlockTransactions(s, c[s.height + 1]), r.ok
  PROVE  /\ r.s \in Sounds /\ Behind(r.s, c)
         /\ closeBlock(r.s, c[s.height + 1].txs) \in Sounds
         /\ Behind(closeBlock(r.s, c[s.height + 1].txs), c)
<1> DEFINE block == c[s.height + 1]
           txs == block.txs
           p == Operator[block.producer]
           e == closeBlock(r.s, txs)
<1>1. s.height \in Nat /\ s.height + 1 \in 1..Len(c)
  BY DEF Behind
<1>2. block \in Block /\ txs \in Seq(Tx) /\ p \in Account
  <2>1. block \in Block
    BY <1>1
  <2> HIDE DEF block
  <2> QED
    BY <2>1, LedgerAssumption DEF Block
<1>3. PICK f : Pass(s, txs, p, f) /\ r.s = f[Len(txs)]
  BY <1>2, ReplayPasses
<1> HIDE DEF block, txs, p
<1>4. /\ r.s \in Sounds /\ r.s.ConfirmedTxs = s.ConfirmedTxs \cup Range(txs)
      /\ r.s.height = s.height
  BY <1>2, <1>3, PassFields
<1>5. Behind(r.s, c)
  BY <1>4, StaysBehind
<1>6. r.s \in State /\ Sound(r.s) /\ Range(txs) \subseteq Used(r.s)
  BY <1>4 DEF Sounds, Used
<1>7. /\ Sound(e) /\ e \in State /\ e.height = s.height + 1
      /\ e.ConfirmedTxs = s.ConfirmedTxs \cup Range(txs)
  BY <1>2, <1>4, <1>6, Closed, ClosedFields
<1> HIDE DEF e
<1>8. Behind(e, c)
  <2>1. \A i \in 1..(s.height + 1) : i \in 1..s.height \/ i = s.height + 1
    BY <1>1
  <2>2. \A i \in 1..s.height : Range(c[i].txs) \subseteq s.ConfirmedTxs
    BY DEF Behind
  <2>3. \A i \in 1..(s.height + 1) : Range(c[i].txs) \subseteq e.ConfirmedTxs
    BY <1>7, <2>1, <2>2 DEF txs, block
  <2> QED
    BY <1>1, <1>7, <2>3 DEF Behind
<1> QED
  BY <1>4, <1>5, <1>7, <1>8 DEF Sounds, e, txs, block

\* A block from the chain,
LEMMA AcceptBlockKeeps ==
  ASSUME LedgerInv, NEW n \in Node, AcceptBlock(n) PROVE LedgerInv'
<1> DEFINE s == st[n]
           block == chain[s.height + 1]
           r == applyBlockTransactions(s, block)
           e == closeBlock(r.s, block.txs)
<1>1. /\ s.height < Len(chain) /\ r.ok /\ UNCHANGED <<gateways, chain>>
      /\ \/ st' = [st EXCEPT ![n] = e] /\ Save(n)
         \/ st' = [st EXCEPT ![n] = r.s] /\ UNCHANGED disk
  BY DEF AcceptBlock
<1>2. s \in Sounds /\ Behind(s, chain) /\ chain \in Seq(Block)
  BY DEF LedgerInv
<1>3. r.s \in Sounds /\ Behind(r.s, chain) /\ e \in Sounds /\ Behind(e, chain)
  <2> HIDE DEF s
  <2> QED
    BY <1>1, <1>2, ReplayedKeeps
<1> HIDE DEF e, r
<1>4. CASE st' = [st EXCEPT ![n] = e] /\ Save(n)
  BY <1>1, <1>3, <1>4, NodeMoves DEF Save
<1>5. CASE st' = [st EXCEPT ![n] = r.s] /\ UNCHANGED disk
  BY <1>1, <1>3, <1>5, NodeMoves
<1> QED
  BY <1>1, <1>4, <1>5

\* and a restart.
LEMMA RestartKeeps ==
  ASSUME LedgerInv, NEW n \in Node, Restart(n) PROVE LedgerInv'
<1>1. st' = [st EXCEPT ![n] = disk[n]] /\ disk' = disk /\ UNCHANGED <<gateways, chain>>
  BY DEF Restart
<1>2. disk[n] \in Sounds /\ Behind(disk[n], chain)
  BY DEF LedgerInv
<1> QED
  BY <1>1, <1>2, NodeMoves

\* A new block spends no nonce again that the chain, or itself, has spent.
LEMMA SpentAppend ==
  ASSUME NEW c \in Seq(Block), SpentOnce(c), NEW block \in Block, Distinct(block.txs),
         NEW u \in Sounds, Range(block.txs) \subseteq Used(u),
         \A i \in 1..Len(c) : /\ Range(c[i].txs) \subseteq Used(u)
                              /\ Range(c[i].txs) \cap Range(block.txs) = {}
  PROVE  SpentOnce(Append(c, block))
<1> DEFINE d == Append(c, block)
           n == Len(c)
<1>1. n \in Nat /\ Len(d) = n + 1 /\ (\A i \in 1..n : d[i] = c[i]) /\ d[n + 1] = block
  OBVIOUS
<1>2. ASSUME NEW i \in 1..(n + 1), NEW j \in 1..Len(d[i].txs)
      PROVE  d[i].txs[j] \in Range(d[i].txs) /\ d[i].txs[j] \in Used(u)
  <2>1. d[i] \in Block
    <3>1. i \in 1..n => c[i] \in Block
      OBVIOUS
    <3> QED
      BY <1>1, <3>1
  <2>2. d[i].txs \in Seq(Tx)
    BY <2>1 DEF Block
  <2>3. d[i].txs[j] \in Range(d[i].txs)
    <3> DEFINE q == d[i].txs
    <3>1. DOMAIN q = 1..Len(q) /\ j \in 1..Len(q)
      BY <2>2
    <3> HIDE DEF q, d
    <3> QED
      BY <3>1 DEF Range, q
  <2>4. Range(d[i].txs) \subseteq Used(u)
    BY <1>1
  <2> QED
    BY <2>3, <2>4
<1>3. \A t, v \in Used(u) : t.from = v.from /\ t.nonce = v.nonce => t = v
  BY DEF Sounds, Sound, NoncesUsed
<1>4. \A i, k \in 1..n : \A j \in 1..Len(c[i].txs), l \in 1..Len(c[k].txs) :
        c[i].txs[j].from = c[k].txs[l].from /\ c[i].txs[j].nonce = c[k].txs[l].nonce
          => i = k /\ j = l
  BY DEF SpentOnce
<1> HIDE DEF d, n
<1>5. ASSUME NEW i \in 1..(n + 1), NEW k \in 1..(n + 1),
             NEW j \in 1..Len(d[i].txs), NEW l \in 1..Len(d[k].txs),
             d[i].txs[j].from = d[k].txs[l].from, d[i].txs[j].nonce = d[k].txs[l].nonce
      PROVE  i = k /\ j = l
  <2> DEFINE t == d[i].txs[j]
             v == d[k].txs[l]
  <2>1. t \in Range(d[i].txs) /\ t \in Used(u)
    BY <1>2
  <2>2. v \in Range(d[k].txs) /\ v \in Used(u)
    BY <1>2
  <2>3. t.from = v.from /\ t.nonce = v.nonce
    BY <1>5
  <2>4. t = v
    <3> HIDE DEF t, v
    <3> QED
      BY <1>3, <2>1, <2>2, <2>3, Zenon
  <2>5. CASE i \in 1..n /\ k \in 1..n
    <3>1. d[i] = c[i] /\ d[k] = c[k]
      BY <1>1, <2>5
    <3>2. j \in 1..Len(c[i].txs) /\ l \in 1..Len(c[k].txs)
      BY <3>1, Zenon
    <3>3. c[i].txs[j] = t /\ c[k].txs[l] = v
      BY <3>1, Zenon
    <3> HIDE DEF t, v
    <3>4. c[i].txs[j].from = c[k].txs[l].from /\ c[i].txs[j].nonce = c[k].txs[l].nonce
      BY <2>3, <3>3, SMT
    <3> QED
      BY <1>4, <2>5, <3>2, <3>4
  <2>6. CASE i = n + 1 /\ k = n + 1
    <3>1. j \in 1..Len(block.txs) /\ l \in 1..Len(block.txs) /\ block.txs[j] = block.txs[l]
      BY <1>1, <2>4, <2>6
    <3> QED
      BY <2>6, <3>1 DEF Distinct
  <2>7. CASE i \in 1..n /\ k = n + 1
    <3>1. t \in Range(c[i].txs) /\ t \in Range(block.txs)
      BY <1>1, <2>1, <2>2, <2>4, <2>7
    <3> QED
      BY <2>7, <3>1 DEF n
  <2>8. CASE i = n + 1 /\ k \in 1..n
    <3>1. t \in Range(c[k].txs) /\ t \in Range(block.txs)
      BY <1>1, <2>1, <2>2, <2>4, <2>8
    <3> QED
      BY <2>8, <3>1 DEF n
  <2>9. (i \in 1..n \/ i = n + 1) /\ (k \in 1..n \/ k = n + 1)
    BY <1>1
  <2> QED
    BY <2>5, <2>6, <2>7, <2>8, <2>9
<1>6. \A i, k \in 1..(n + 1) : \A j \in 1..Len(d[i].txs), l \in 1..Len(d[k].txs) :
        d[i].txs[j].from = d[k].txs[l].from /\ d[i].txs[j].nonce = d[k].txs[l].nonce
          => i = k /\ j = l
  BY <1>5
<1> QED
  BY <1>1, <1>6 DEF SpentOnce, d

\* What a producer puts into a block, and what it has afterwards.
GoodBlock(s, r, p) ==
  /\ r.s \in Sounds /\ r.txs \in Seq(Tx) /\ Distinct(r.txs)
  /\ Range(r.txs) \subseteq r.s.AppliedTxs /\ Range(r.txs) \cap s.ConfirmedTxs = {}
  /\ closeBlock(r.s, r.txs) \in Sounds
  /\ closeBlock(r.s, r.txs).height = s.height + 1
  /\ closeBlock(r.s, r.txs).ConfirmedTxs = s.ConfirmedTxs \cup Range(r.txs)
  /\ r.s.PendingTxs = s.PendingTxs /\ r.s.ConfirmedTxs = s.ConfirmedTxs
  /\ \E f : Pass(s, r.txs, p, f) /\ f[Len(r.txs)] = Confirm(r.s, Range(r.txs))

\* Every block it produces is such a one.
LEMMA BlockProduced ==
  ASSUME NEW s \in Sounds, NEW n \in Node, NEW r,
         r = applyPendingTransactions(s, selectPendingTxs(s), Owner[n])
  PROVE  GoodBlock(s, r, Owner[n])
<1> DEFINE q == selectPendingTxs(s)
           p == Owner[n]
<1>1. p \in Account
  BY LedgerAssumption
<1>2. q \in Seq(Tx) /\ Distinct(q)
  <2>1. s.PendingTxs \subseteq Tx
    BY Fields DEF Sounds
  <2> QED
    BY <2>1, Selected DEF Lists
<1> HIDE DEF p, q
<1>3. Produced(s, q, Len(q), p, r)
  BY <1>1, <1>2, ProducesReplayable DEF q, p
<1>4. /\ r.s \in Sounds /\ r.txs \in Seq(Tx) /\ Distinct(r.txs)
      /\ Range(r.txs) \subseteq r.s.AppliedTxs /\ Range(r.txs) \cap s.ConfirmedTxs = {}
      /\ r.s.ConfirmedTxs = s.ConfirmedTxs /\ r.s.height = s.height /\ r.s.PendingTxs = s.PendingTxs
      /\ \E f : Pass(s, r.txs, p, f) /\ f[Len(r.txs)] = Confirm(r.s, Range(r.txs))
  BY <1>3 DEF Produced, Draft
<1>5. Sound(r.s) /\ r.s \in State /\ Range(r.txs) \subseteq Used(r.s)
  BY <1>4 DEF Sounds, Used
<1>6. /\ closeBlock(r.s, r.txs) \in Sounds
      /\ closeBlock(r.s, r.txs).height = s.height + 1
      /\ closeBlock(r.s, r.txs).ConfirmedTxs = s.ConfirmedTxs \cup Range(r.txs)
  BY <1>4, <1>5, Closed, ClosedFields DEF Sounds
<1> QED
  BY <1>4, <1>6 DEF GoodBlock, p

\* A new block.
LEMMA ProduceBlockKeeps ==
  ASSUME LedgerInv, NEW n \in Node, ProduceBlock(n) PROVE LedgerInv'
<1> DEFINE s == st[n]
           r == applyPendingTransactions(s, selectPendingTxs(s), Owner[n])
           block == [producer |-> n, txs |-> r.txs, root |-> r.s.bal]
           e == closeBlock(r.s, r.txs)
           d == Append(chain, block)
           h == Len(chain)
<1>1. /\ s.height = h /\ chain' = d /\ UNCHANGED gateways
      /\ st' = [st EXCEPT ![n] = e] /\ disk' = [disk EXCEPT ![n] = st'[n]]
  BY DEF ProduceBlock, Save
<1>2. s \in Sounds /\ Behind(s, chain) /\ chain \in Seq(Block) /\ SpentOnce(chain) /\ h \in Nat
      /\ gateways \subseteq Node
  BY DEF LedgerInv
<1> HIDE DEF s
<1>3. /\ r.s \in Sounds /\ r.txs \in Seq(Tx) /\ Distinct(r.txs)
      /\ Range(r.txs) \subseteq r.s.AppliedTxs /\ Range(r.txs) \cap s.ConfirmedTxs = {}
      /\ e \in Sounds /\ e.height = h + 1 /\ e.ConfirmedTxs = s.ConfirmedTxs \cup Range(r.txs)
  <2>1. r = applyPendingTransactions(s, selectPendingTxs(s), Owner[n])
    OBVIOUS
  <2> HIDE DEF r, h
  <2>2. GoodBlock(s, r, Owner[n])
    BY <1>2, <2>1, BlockProduced
  <2>3. /\ r.s \in Sounds /\ r.txs \in Seq(Tx) /\ Distinct(r.txs)
        /\ Range(r.txs) \subseteq r.s.AppliedTxs /\ Range(r.txs) \cap s.ConfirmedTxs = {}
        /\ e \in Sounds /\ e.height = s.height + 1
        /\ e.ConfirmedTxs = s.ConfirmedTxs \cup Range(r.txs)
    BY <2>2 DEF GoodBlock
  <2> HIDE DEF e
  <2> QED
    BY <1>1, <2>3
<1> HIDE DEF e, r
<1>4. block \in Block /\ block.txs = r.txs
  BY <1>3, Fields DEF Block, Sounds
<1> HIDE DEF block
<1>5. /\ d \in Seq(Block) /\ Len(d) = h + 1 /\ d[h + 1] = block
      /\ \A i \in 1..h : d[i] = chain[i]
  BY <1>2, <1>4
<1>6. \A i \in 1..h : Range(chain[i].txs) \subseteq s.ConfirmedTxs
  BY <1>1, <1>2 DEF Behind
<1>7. SpentOnce(d)
  <2>1. /\ Range(block.txs) \subseteq Used(e)
        /\ \A i \in 1..h : /\ Range(chain[i].txs) \subseteq Used(e)
                           /\ Range(chain[i].txs) \cap Range(block.txs) = {}
    BY <1>3, <1>4, <1>6 DEF Used
  <2> QED
    BY <1>2, <1>3, <1>4, <2>1, SpentAppend
<1> HIDE DEF d, h
<1>8. Behind(e, d)
  <2>1. \A i \in 1..(h + 1) : i \in 1..h \/ i = h + 1
    BY <1>2
  <2>2. \A i \in 1..(h + 1) : Range(d[i].txs) \subseteq e.ConfirmedTxs
    BY <1>3, <1>4, <1>5, <1>6, <2>1
  <2> QED
    BY <1>2, <1>3, <1>5, <2>2 DEF Behind
<1>9. ASSUME NEW x, Behind(x, chain) PROVE Behind(x, d)
  <2>1. x.height \in 0..h /\ \A i \in 1..x.height : i \in 1..h
    BY <1>2, <1>9 DEF Behind, h
  <2> QED
    BY <1>2, <1>5, <1>9, <2>1 DEF Behind
<1>10. st' \in [Node -> Sounds] /\ st'[n] = e /\ \A m \in Node : st'[m] = e \/ st'[m] = st[m]
  BY <1>1, <1>3 DEF LedgerInv
<1>11. disk' \in [Node -> Sounds] /\ \A m \in Node : disk'[m] = e \/ disk'[m] = disk[m]
  BY <1>1, <1>3, <1>10 DEF LedgerInv
<1>12. \A m \in Node : Behind(st'[m], d) /\ Behind(disk'[m], d)
  BY <1>8, <1>9, <1>10, <1>11 DEF LedgerInv
<1> QED
  BY <1>1, <1>2, <1>5, <1>7, <1>10, <1>11, <1>12 DEF LedgerInv

\* Every step.
LEMMA LedgerStep == LedgerInv /\ [Next]_vars => LedgerInv'
<1> SUFFICES ASSUME LedgerInv, [Next]_vars PROVE LedgerInv'
  OBVIOUS
<1>1. CASE UNCHANGED vars
  BY <1>1 DEF vars, LedgerInv
<1>2. ASSUME NEW n \in Node, Transfer(n) PROVE LedgerInv'
  BY <1>2, TransferKeeps
<1>3. ASSUME NEW n \in Node, AcceptTransaction(n) PROVE LedgerInv'
  BY <1>3, AcceptTransactionKeeps
<1>4. ASSUME NEW n \in Node, ProduceBlock(n) PROVE LedgerInv'
  BY <1>4, ProduceBlockKeeps
<1>5. ASSUME NEW n \in Node, AcceptBlock(n) PROVE LedgerInv'
  BY <1>5, AcceptBlockKeeps
<1>6. ASSUME NEW n \in Node, Restart(n) PROVE LedgerInv'
  BY <1>6, RestartKeeps
<1> QED
  BY <1>1, <1>2, <1>3, <1>4, <1>5, <1>6 DEF Next

\* The state all nodes start with.
Genesis ==
  [bal |-> Balance, nonce |-> [a \in Account |-> 0],
   PendingTxs |-> {}, AppliedTxs |-> {}, FeeChargedTxs |-> {},
   ConfirmedTxs |-> {}, BaseFee |-> defaultBaseFee, height |-> 0]

\* It is sound.
LEMMA GenesisSound == Genesis \in Sounds
<1>1. Balance \in [Account -> Nat] /\ defaultBaseFee \in Nat
  BY LedgerAssumption
<1>2. Genesis \in State
  BY <1>1 DEF Genesis, State
<1>3. IsFiniteSet({})
  BY FS_EmptySet
<1>4. Genesis.PendingTxs = {} /\ Used(Genesis) = {} /\ Genesis.bal = Balance
  BY DEF Genesis, Used
<1> QED
  BY <1>2, <1>3, <1>4 DEF Sounds, Sound, NoncesUsed

\* So are the nodes.
LEMMA LedgerStart == Init => LedgerInv
<1> SUFFICES ASSUME Init PROVE LedgerInv
  OBVIOUS
<1>1. st = [n \in Node |-> Genesis] /\ disk = st /\ chain = <<>> /\ gateways \subseteq Node
  BY DEF Init, Genesis
<1>2. Behind(Genesis, <<>>) /\ SpentOnce(<<>>)
  BY DEF Behind, SpentOnce, Genesis
<1> QED
  BY <1>1, <1>2, GenesisSound DEF LedgerInv

\* The invariant.
LEMMA LedgerAlways == Spec => []LedgerInv
  BY LedgerStart, LedgerStep, PTL DEF Spec

\* Tokens: no execution, fee, retry, refused block or crash makes or destroys any, no
\* account is overdrawn and the base fee keeps above its floor.
THEOREM TokensKept == Spec => []Conserved
<1>1. LedgerInv => Conserved
  <2> SUFFICES ASSUME LedgerInv PROVE Conserved
    OBVIOUS
  <2>1. TypeOK
    BY DEF LedgerInv, TypeOK, Sounds
  <2>2. \A n \in Node : SumFunctionOnSet(st[n].bal, Account) = SumFunctionOnSet(Balance, Account)
    BY DEF LedgerInv, Sounds, Sound
  <2> QED
    BY <2>1, <2>2 DEF Conserved
<1> QED
  BY <1>1, LedgerAlways, PTL

\* Replay protection: no two places of the chain hold transfers of one sender with one
\* nonce, whichever nodes the rivals were submitted to and executed on.
THEOREM NoncesSpentOnce == Spec => []NonceUsedOnce
<1>1. LedgerInv => NonceUsedOnce
  <2> SUFFICES ASSUME LedgerInv, NEW p \in ChainTxs, NEW q \in ChainTxs,
                      TxAt(p).from = TxAt(q).from, TxAt(p).nonce = TxAt(q).nonce
               PROVE  p = q
    BY DEF NonceUsedOnce
  <2>1. chain \in Seq(Block) /\ SpentOnce(chain)
    BY DEF LedgerInv
  <2>2. ASSUME NEW x \in ChainTxs
        PROVE  /\ x = <<x[1], x[2]>> /\ x[1] \in 1..Len(chain)
               /\ x[2] \in 1..Len(chain[x[1]].txs)
    <3>1. x \in (1..Len(chain)) \X (1..MaxBlockTxs) /\ x[2] \in DOMAIN chain[x[1]].txs
      BY DEF ChainTxs
    <3>2. x = <<x[1], x[2]>> /\ x[1] \in 1..Len(chain)
      BY <3>1
    <3>3. chain[x[1]] \in Block
      BY <2>1, <3>2
    <3>4. chain[x[1]].txs \in Seq(Tx)
      BY <3>3 DEF Block
    <3> QED
      BY <3>1, <3>2, <3>4
  <2> DEFINE i == p[1]
             j == p[2]
             k == q[1]
             l == q[2]
  <2>3. /\ i \in 1..Len(chain) /\ j \in 1..Len(chain[i].txs)
        /\ k \in 1..Len(chain) /\ l \in 1..Len(chain[k].txs)
        /\ p = <<i, j>> /\ q = <<k, l>>
    BY <2>2
  <2>4. /\ chain[i].txs[j].from = chain[k].txs[l].from
        /\ chain[i].txs[j].nonce = chain[k].txs[l].nonce
    BY DEF TxAt
  <2> HIDE DEF i, j, k, l
  <2>5. \A x, y \in 1..Len(chain) : \A a \in 1..Len(chain[x].txs), b \in 1..Len(chain[y].txs) :
          chain[x].txs[a].from = chain[y].txs[b].from
            /\ chain[x].txs[a].nonce = chain[y].txs[b].nonce => x = y /\ a = b
    BY <2>1 DEF SpentOnce
  <2>6. i = k /\ j = l
    BY <2>3, <2>4, <2>5
  <2> QED
    BY <2>3, <2>6
<1> QED
  BY <1>1, LedgerAlways, PTL

-----------------------------------------------------------------------------
(***************************************************************************)
(* Where nothing is executed ahead of its block, the chain alone decides   *)
(* what a node's ledger is                                                 *)
(***************************************************************************)
\* A state without its mempool.
Base(s) == Waiting(s, {})

Alike(r, s) ==
  /\ r.bal = s.bal /\ r.nonce = s.nonce /\ r.AppliedTxs = s.AppliedTxs
  /\ r.FeeChargedTxs = s.FeeChargedTxs /\ r.ConfirmedTxs = s.ConfirmedTxs
  /\ r.BaseFee = s.BaseFee /\ r.height = s.height

\* Its fields.
LEMMA BaseFields ==
  ASSUME NEW s \in State
  PROVE  Base(s) \in State /\ Base(s).PendingTxs = {} /\ Alike(Base(s), s)
<1>1. s.ConfirmedTxs \in SUBSET Tx /\ {} \in SUBSET Tx
  BY Fields
<1> QED
  BY <1>1, WithFields DEF Base, Waiting, Alike

\* States with one base differ in what waits, and in nothing else.
LEMMA BaseAlike ==
  ASSUME NEW s \in State, NEW r \in State
  PROVE  Base(r) = Base(s) <=> Alike(r, s)
<1> DEFINE x == Base(r)
           y == Base(s)
<1>1. x \in State /\ x.PendingTxs = {} /\ Alike(x, r)
  BY BaseFields
<1>2. y \in State /\ y.PendingTxs = {} /\ Alike(y, s)
  BY BaseFields
<1> HIDE DEF x, y
<1>3. x = y => Alike(r, s)
  BY <1>1, <1>2 DEF Alike
<1>4. Alike(r, s) => x = y
  BY <1>1, <1>2, SameState DEF Alike
<1> QED
  BY <1>3, <1>4 DEF x, y

\* A state where nothing waits is its own base.
LEMMA BaseOf ==
  ASSUME NEW s \in State, NEW r \in State, Alike(r, s), r.PendingTxs = {}
  PROVE  Base(s) = r
<1> DEFINE y == Base(s)
<1>1. y \in State /\ y.PendingTxs = {} /\ Alike(y, s)
  BY BaseFields
<1> HIDE DEF y
<1>2. y = r
  BY <1>1, SameState DEF Alike
<1> QED
  BY <1>2 DEF y

\* The end of a block, without the mempool.
LEMMA BaseClosed ==
  ASSUME NEW s \in State, NEW r \in State, Alike(r, s), r.PendingTxs = {}, NEW txs \in Seq(Tx)
  PROVE  Base(closeBlock(s, txs)) = closeBlock(r, txs)
<1> DEFINE x == closeBlock(s, txs)
           y == closeBlock(r, txs)
<1>1. /\ x \in State
      /\ x.bal = s.bal /\ x.nonce = s.nonce /\ x.AppliedTxs = s.AppliedTxs
      /\ x.FeeChargedTxs = s.FeeChargedTxs
      /\ x.ConfirmedTxs = s.ConfirmedTxs \cup Range(txs)
      /\ x.BaseFee = adjustFeeMarket(s.BaseFee, Len(txs)) /\ x.height = s.height + 1
  BY ClosedFields
<1>2. /\ y \in State /\ y.PendingTxs = r.PendingTxs \ Range(txs)
      /\ y.bal = r.bal /\ y.nonce = r.nonce /\ y.AppliedTxs = r.AppliedTxs
      /\ y.FeeChargedTxs = r.FeeChargedTxs
      /\ y.ConfirmedTxs = r.ConfirmedTxs \cup Range(txs)
      /\ y.BaseFee = adjustFeeMarket(r.BaseFee, Len(txs)) /\ y.height = r.height + 1
  BY ClosedFields
<1> HIDE DEF x, y
<1>3. y.PendingTxs = {} /\ Alike(y, x)
  BY <1>1, <1>2 DEF Alike
<1>4. Base(x) = y
  BY <1>1, <1>2, <1>3, BaseOf
<1> QED
  BY <1>4 DEF x, y

\* y is what the block makes of x.
Extends(x, block, y) ==
  \E f : /\ Pass(x, block.txs, Operator[block.producer], f)
         /\ f[Len(block.txs)].bal = block.root
         /\ y = closeBlock(f[Len(block.txs)], block.txs)

\* The parts of a block.
LEMMA BlockParts ==
  ASSUME NEW block \in Block
  PROVE  block.txs \in Seq(Tx) /\ Operator[block.producer] \in Account
  BY LedgerAssumption DEF Block

\* Whoever has the base of x, whatever waits there, can take the block.
LEMMA Follows ==
  ASSUME NEW s \in Sounds, NEW block \in Block, NEW y, Extends(Base(s), block, y)
  PROVE  LET r == applyBlockTransactions(s, block)
         IN  /\ r.ok /\ r.s.bal = block.root
             /\ Base(closeBlock(r.s, block.txs)) = y
             /\ closeBlock(r.s, block.txs).height = s.height + 1
<1> DEFINE p == Operator[block.producer]
           txs == block.txs
           n == Len(txs)
           P == s.PendingTxs
           b == Base(s)
<1>1. txs \in Seq(Tx) /\ p \in Account /\ n \in Nat
  BY BlockParts
<1>2. s \in State /\ P \in SUBSET Tx /\ IsFiniteSet(P)
  BY Fields DEF Sounds, Sound
<1>3. PICK f : /\ Pass(b, txs, p, f)
               /\ f[n].bal = block.root /\ y = closeBlock(f[n], txs)
  BY DEF Extends
<1>4. b \in Sounds /\ b.PendingTxs = {} /\ Alike(b, s)
  <2>1. b \in Sounds
    BY FS_EmptySet, WaitingSound DEF Base
  <2> QED
    BY <1>2, <2>1, BaseFields
<1>5. Waiting(b, P) = s
  <2> DEFINE w == Waiting(b, P)
  <2> HIDE DEF b, P
  <2>1. w \in State /\ w.PendingTxs = P /\ Alike(w, b)
    BY <1>2, <1>4, WaitingSound DEF Sounds, Alike
  <2> HIDE DEF w
  <2>2. w = s
    BY <1>2, <1>4, <2>1, SameState DEF Alike, P
  <2> QED
    BY <2>2 DEF w
<1> DEFINE h == [k \in 0..n |-> Waiting(f[k], P)]
<1> HIDE DEF b, P
<1>6. Pass(s, txs, p, h)
  BY <1>1, <1>2, <1>3, <1>4, <1>5, PassWaiting
<1> DEFINE r == applyBlockTransactions(s, block)
<1>7. r = [ok |-> TRUE, s |-> h[n]]
  <2> HIDE DEF h
  <2> QED
    BY <1>6, PassReplays
<1>8. f[n] \in Sounds /\ f[n].PendingTxs = {} /\ f[n].height = s.height
  <2> HIDE DEF txs, p
  <2> QED
    BY <1>1, <1>3, <1>4, PassFields DEF n, Alike
<1>9. h[n] = Waiting(f[n], P)
  BY <1>1
<1> HIDE DEF r, n, h, p, txs
<1>10. /\ r.ok /\ r.s = Waiting(f[n], P)
  BY <1>7, <1>9
<1>11. r.s \in State /\ r.s.bal = f[n].bal /\ Alike(f[n], r.s)
  BY <1>2, <1>8, <1>10, WaitingSound DEF Sounds, Alike
<1>12. f[n] \in State
  BY <1>8 DEF Sounds
<1>13. Base(closeBlock(r.s, txs)) = closeBlock(f[n], txs)
  BY <1>1, <1>8, <1>11, <1>12, BaseClosed
<1>14. closeBlock(r.s, txs).height = s.height + 1
  BY <1>1, <1>8, <1>11, ClosedFields DEF Alike
<1> QED
  BY <1>3, <1>10, <1>11, <1>13, <1>14 DEF r, txs, n

\* What a producer makes of its own state the block makes of the base.
LEMMA Leads ==
  ASSUME NEW s \in Sounds, NEW r, NEW block \in Block,
         GoodBlock(s, r, Operator[block.producer]),
         block.txs = r.txs, block.root = r.s.bal
  PROVE  Extends(Base(s), block, Base(closeBlock(r.s, r.txs)))
<1> DEFINE p == Operator[block.producer]
           txs == r.txs
           n == Len(txs)
           X == Range(txs)
           b == Base(s)
<1>1. txs \in Seq(Tx) /\ p \in Account /\ n \in Nat
  BY BlockParts
<1>2. /\ r.s \in Sounds /\ X \subseteq r.s.AppliedTxs /\ r.s.ConfirmedTxs = s.ConfirmedTxs
      /\ \E f : Pass(s, txs, p, f) /\ f[n] = Confirm(r.s, X)
  BY DEF GoodBlock
<1>3. PICK f : Pass(s, txs, p, f) /\ f[n] = Confirm(r.s, X)
  BY <1>2
<1> DEFINE h == [k \in 0..n |-> Waiting(f[k], {})]
           c == Confirm(r.s, X)
<1>4. Pass(b, txs, p, h)
  <2>1. IsFiniteSet({}) /\ {} \in SUBSET Tx
    BY FS_EmptySet
  <2> HIDE DEF txs, p
  <2> QED
    BY <1>1, <1>3, <2>1, PassWaiting DEF Base
<1>5. h[n] = Base(c)
  BY <1>1, <1>3 DEF Base
<1> HIDE DEF h, X
<1>6. Sound(r.s) /\ r.s \in State /\ X \subseteq Used(r.s)
  BY <1>2 DEF Sounds, Sound, Used
<1>7. /\ c \in State /\ c.ConfirmedTxs = r.s.ConfirmedTxs \cup X
      /\ c.bal = r.s.bal /\ c.nonce = r.s.nonce /\ c.PendingTxs = r.s.PendingTxs
      /\ c.AppliedTxs = r.s.AppliedTxs /\ c.FeeChargedTxs = r.s.FeeChargedTxs
      /\ c.BaseFee = r.s.BaseFee /\ c.height = r.s.height
  BY <1>6, Confirmed DEF Sound
<1> HIDE DEF c
<1>8. /\ Base(c) \in State /\ Base(c).PendingTxs = {} /\ Alike(Base(c), c)
      /\ Base(c).bal = r.s.bal
  BY <1>7, BaseFields DEF Alike
<1> DEFINE x == closeBlock(r.s, txs)
           y == closeBlock(Base(c), txs)
<1>9. /\ x \in State
      /\ x.bal = r.s.bal /\ x.nonce = r.s.nonce /\ x.AppliedTxs = r.s.AppliedTxs
      /\ x.FeeChargedTxs = r.s.FeeChargedTxs
      /\ x.ConfirmedTxs = r.s.ConfirmedTxs \cup X
      /\ x.BaseFee = adjustFeeMarket(r.s.BaseFee, n) /\ x.height = r.s.height + 1
  BY <1>1, <1>6, ClosedFields DEF X
<1> DEFINE z == Base(c)
<1> HIDE DEF z
<1>10. /\ closeBlock(z, txs) \in State
       /\ closeBlock(z, txs).PendingTxs = z.PendingTxs \ X
       /\ closeBlock(z, txs).bal = z.bal /\ closeBlock(z, txs).nonce = z.nonce
       /\ closeBlock(z, txs).AppliedTxs = z.AppliedTxs
       /\ closeBlock(z, txs).FeeChargedTxs = z.FeeChargedTxs
       /\ closeBlock(z, txs).ConfirmedTxs = z.ConfirmedTxs \cup X
       /\ closeBlock(z, txs).BaseFee = adjustFeeMarket(z.BaseFee, n)
       /\ closeBlock(z, txs).height = z.height + 1
  BY <1>1, <1>8, ClosedFields DEF X, z
<1>11. y = closeBlock(z, txs)
  BY DEF z
<1> HIDE DEF x, y, n, txs
<1>12. y \in State /\ y.PendingTxs = {} /\ Alike(y, x)
  BY <1>7, <1>8, <1>9, <1>10, <1>11 DEF Alike, z
<1>13. Base(x) = y
  BY <1>9, <1>12, BaseOf
<1>14. /\ Pass(b, txs, p, h) /\ h[n].bal = r.s.bal
       /\ Base(x) = closeBlock(h[n], txs)
  BY <1>4, <1>5, <1>8, <1>13 DEF y
<1> QED
  BY <1>14 DEF Extends, x, txs, n

\* L[k] is the ledger after k blocks of c.
History(L, c) ==
  /\ L \in [0..Len(c) -> State]
  /\ \A k \in 1..Len(c) : Extends(L[k - 1], c[k], L[k])

On(L, s) == Base(s) = L[s.height]

\* Every node has, in memory and on disk, the ledger of its height.
AllOn(L) ==
  /\ History(L, chain)
  /\ \A n \in Node : On(L, st[n]) /\ On(L, disk[n])

ReplayInv == gateways = {} /\ Owner = Operator => \E L : AllOn(L)

\* A step of one node that leaves the chain alone.
LEMMA MovesOn ==
  ASSUME LedgerInv, NEW L, AllOn(L), NEW n \in Node, NEW r \in Sounds, On(L, r),
         st' = [st EXCEPT ![n] = r], disk' = disk \/ disk' = [disk EXCEPT ![n] = st'[n]],
         chain' = chain
  PROVE  AllOn(L)'
<1>1. st'[n] = r /\ \A m \in Node : st'[m] = r \/ st'[m] = st[m]
  BY DEF LedgerInv
<1>2. \A m \in Node : disk'[m] = r \/ disk'[m] = disk[m]
  BY <1>1 DEF LedgerInv
<1>3. \A m \in Node : On(L, st'[m]) /\ On(L, disk'[m])
  BY <1>1, <1>2 DEF AllOn
<1> QED
  BY <1>3 DEF AllOn

\* Transfers by gossip,
LEMMA AcceptTransactionOn ==
  ASSUME LedgerInv, NEW L, AllOn(L), NEW n \in Node, AcceptTransaction(n) PROVE AllOn(L)'
<1>1. PICK t \in Tx : /\ st' = [st EXCEPT ![n] = enqueuePendingTx(st[n], t)]
                      /\ Save(n) /\ UNCHANGED <<gateways, chain>>
  BY DEF AcceptTransaction, LedgerInv
<1>2. st[n] \in Sounds /\ On(L, st[n])
  BY DEF LedgerInv, AllOn
<1> DEFINE r == enqueuePendingTx(st[n], t)
           s == st[n]
<1>3. r \in Sounds /\ Alike(r, s) /\ r.height = s.height
  BY <1>2, Enqueued DEF Alike
<1>4. st' = [st EXCEPT ![n] = r] /\ disk' = [disk EXCEPT ![n] = st'[n]]
  BY <1>1 DEF Save
<1> HIDE DEF r
<1>5. On(L, r)
  <2> HIDE DEF s
  <2>1. r \in State /\ s \in State
    BY <1>2, <1>3 DEF Sounds, s
  <2>2. Base(r) = Base(s)
    BY <1>3, <2>1, BaseAlike
  <2>3. Base(s) = L[s.height]
    BY <1>2 DEF On, s
  <2> QED
    BY <1>3, <2>2, <2>3 DEF On
<1> QED
  BY <1>1, <1>3, <1>4, <1>5, MovesOn

\* The block after a node's last one extends its base.
LEMMA NextBlock ==
  ASSUME LedgerInv, NEW L, AllOn(L), NEW s \in Sounds, Behind(s, chain), On(L, s),
         s.height < Len(chain)
  PROVE  /\ chain[s.height + 1] \in Block
         /\ Extends(Base(s), chain[s.height + 1], L[s.height + 1])
<1>1. chain \in Seq(Block) /\ s.height \in Nat
  BY DEF LedgerInv, Behind
<1>2. s.height + 1 \in 1..Len(chain) /\ (s.height + 1) - 1 = s.height
  BY <1>1
<1>3. Extends(L[(s.height + 1) - 1], chain[s.height + 1], L[s.height + 1])
  BY <1>2 DEF AllOn, History
<1> QED
  BY <1>1, <1>2, <1>3 DEF On

\* blocks from the chain, which are never refused,
LEMMA AcceptBlockOn ==
  ASSUME LedgerInv, NEW L, AllOn(L), NEW n \in Node, AcceptBlock(n) PROVE AllOn(L)'
<1> DEFINE s == st[n]
           block == chain[s.height + 1]
           r == applyBlockTransactions(s, block)
           e == closeBlock(r.s, block.txs)
<1>1. /\ s.height < Len(chain) /\ r.ok /\ UNCHANGED <<gateways, chain>>
      /\ \/ st' = [st EXCEPT ![n] = e] /\ Save(n)
         \/ r.s.bal # block.root
  BY DEF AcceptBlock
<1>2. s \in Sounds /\ Behind(s, chain) /\ On(L, s) /\ chain \in Seq(Block)
  BY DEF LedgerInv, AllOn
<1> HIDE DEF s
<1>3. block \in Block /\ Extends(Base(s), block, L[s.height + 1])
  BY <1>1, <1>2, NextBlock
<1>4. e \in Sounds
  BY <1>1, <1>2, ReplayedKeeps
<1> HIDE DEF block
<1>5. r.s.bal = block.root /\ Base(e) = L[s.height + 1] /\ e.height = s.height + 1
  BY <1>2, <1>3, Follows
<1> HIDE DEF r, e
<1>6. st' = [st EXCEPT ![n] = e] /\ disk' = [disk EXCEPT ![n] = st'[n]]
  BY <1>1, <1>5 DEF Save
<1>7. On(L, e)
  BY <1>5 DEF On
<1> QED
  BY <1>1, <1>4, <1>6, <1>7, MovesOn

\* restarts,
LEMMA RestartOn ==
  ASSUME LedgerInv, NEW L, AllOn(L), NEW n \in Node, Restart(n) PROVE AllOn(L)'
<1>1. st' = [st EXCEPT ![n] = disk[n]] /\ disk' = disk /\ UNCHANGED <<gateways, chain>>
  BY DEF Restart
<1>2. disk[n] \in Sounds /\ On(L, disk[n])
  BY DEF LedgerInv, AllOn
<1> QED
  BY <1>1, <1>2, MovesOn

\* and new blocks, which continue the history.
LEMMA ProduceBlockOn ==
  ASSUME LedgerInv, NEW L, AllOn(L), Owner = Operator, NEW n \in Node, ProduceBlock(n)
  PROVE  \E M : AllOn(M)'
<1> DEFINE s == st[n]
           r == applyPendingTransactions(s, selectPendingTxs(s), Owner[n])
           block == [producer |-> n, txs |-> r.txs, root |-> r.s.bal]
           e == closeBlock(r.s, r.txs)
           h == Len(chain)
           d == Append(chain, block)
           M == [k \in 0..(h + 1) |-> IF k = h + 1 THEN Base(e) ELSE L[k]]
<1>1. /\ s.height = h /\ chain' = d
      /\ st' = [st EXCEPT ![n] = e] /\ disk' = [disk EXCEPT ![n] = st'[n]]
  BY DEF ProduceBlock, Save
<1>2. /\ s \in Sounds /\ On(L, s) /\ chain \in Seq(Block) /\ h \in Nat
      /\ L \in [0..h -> State] /\ \A k \in 1..h : Extends(L[k - 1], chain[k], L[k])
  BY DEF LedgerInv, AllOn, History
<1> HIDE DEF s
<1>3. GoodBlock(s, r, Owner[n])
  <2>1. r = applyPendingTransactions(s, selectPendingTxs(s), Owner[n])
    OBVIOUS
  <2> HIDE DEF r
  <2> QED
    BY <1>2, <2>1, BlockProduced
<1> HIDE DEF r
<1>4. r.s \in State /\ r.txs \in Seq(Tx) /\ e \in State /\ e.height = s.height + 1
  <2>1. /\ r.s \in Sounds /\ r.txs \in Seq(Tx) /\ closeBlock(r.s, r.txs) \in Sounds
        /\ closeBlock(r.s, r.txs).height = s.height + 1
    BY <1>3 DEF GoodBlock
  <2> QED
    BY <2>1 DEF Sounds
<1>5. /\ block \in Block /\ block.txs = r.txs /\ block.root = r.s.bal
      /\ GoodBlock(s, r, Operator[block.producer])
  BY <1>3, <1>4, Fields DEF Block
<1> HIDE DEF block
<1>6. Extends(Base(s), block, Base(e))
  BY <1>2, <1>5, Leads
<1>7. Base(e) \in State
  BY <1>4, BaseFields
<1>8. Base(s) = L[h]
  BY <1>1, <1>2 DEF On
<1>9. Len(d) = h + 1 /\ d[h + 1] = block /\ \A k \in 1..h : d[k] = chain[k]
  BY <1>2, <1>5
<1> HIDE DEF e, h, d
<1>10. M \in [0..(h + 1) -> State] /\ M[h + 1] = Base(e) /\ \A k \in 0..h : M[k] = L[k]
  <2>1. h + 1 \in 0..(h + 1) /\ \A k \in 0..h : k \in 0..(h + 1) /\ k # h + 1
    BY <1>2
  <2>2. \A k \in 0..(h + 1) : k = h + 1 \/ k \in 0..h
    BY <1>2
  <2>3. \A k \in 0..(h + 1) : M[k] \in State
    BY <1>2, <1>7, <2>2
  <2> QED
    BY <2>1, <2>3
<1> HIDE DEF M
<1>11. ASSUME NEW k \in 1..(h + 1) PROVE Extends(M[k - 1], d[k], M[k])
  <2>1. CASE k = h + 1
    <3>1. k - 1 = h /\ h \in 0..h
      BY <1>2, <2>1
    <3>2. M[k - 1] = Base(s) /\ d[k] = block /\ M[k] = Base(e)
      BY <1>8, <1>9, <1>10, <2>1, <3>1
    <3> QED
      BY <1>6, <3>2
  <2>2. CASE k # h + 1
    <3>1. k \in 1..h /\ k - 1 \in 0..h /\ k \in 0..h
      BY <1>2, <2>2
    <3>2. M[k - 1] = L[k - 1] /\ d[k] = chain[k] /\ M[k] = L[k]
      BY <1>9, <1>10, <3>1
    <3> QED
      BY <1>2, <3>1, <3>2
  <2> QED
    BY <2>1, <2>2
<1>12. History(M, d)
  BY <1>9, <1>10, <1>11 DEF History
<1>13. On(M, e)
  BY <1>1, <1>4, <1>10 DEF On
<1>14. ASSUME NEW x, Behind(x, chain), On(L, x) PROVE On(M, x)
  <2>1. x.height \in 0..h
    BY <1>14 DEF Behind, h
  <2> QED
    BY <1>10, <1>14, <2>1 DEF On
<1>15. \A m \in Node : /\ Behind(st[m], chain) /\ Behind(disk[m], chain)
                       /\ On(L, st[m]) /\ On(L, disk[m])
  BY DEF LedgerInv, AllOn
<1>16. st'[n] = e /\ \A m \in Node : st'[m] = e \/ st'[m] = st[m]
  BY <1>1 DEF LedgerInv
<1>17. \A m \in Node : disk'[m] = e \/ disk'[m] = disk[m]
  BY <1>1, <1>16 DEF LedgerInv
<1>18. ASSUME NEW m \in Node PROVE On(M, st'[m]) /\ On(M, disk'[m])
  <2>1. On(M, st[m]) /\ On(M, disk[m])
    BY <1>14, <1>15
  <2>2. (st'[m] = e \/ st'[m] = st[m]) /\ (disk'[m] = e \/ disk'[m] = disk[m])
    BY <1>16, <1>17
  <2> QED
    BY <1>13, <2>1, <2>2, Zenon
<1>19. PICK K : K = M
  OBVIOUS
<1>20. History(K, chain') /\ \A m \in Node : On(K, st'[m]) /\ On(K, disk'[m])
  BY <1>1, <1>12, <1>18, <1>19
<1>21. AllOn(K)'
  BY <1>20 DEF AllOn
<1> QED
  BY <1>21

\* Every step.
LEMMA ReplayStepKeeps == LedgerInv /\ ReplayInv /\ [Next]_vars => ReplayInv'
<1> SUFFICES ASSUME LedgerInv, ReplayInv, [Next]_vars, gateways' = {}, Owner = Operator
             PROVE  \E L : AllOn(L)'
  BY DEF ReplayInv
<1>1. gateways' = gateways
  BY DEF Next, vars, Transfer, AcceptTransaction, ProduceBlock, AcceptBlock, Restart
<1>2. PICK L : AllOn(L)
  BY <1>1 DEF ReplayInv
<1>3. CASE UNCHANGED vars
  BY <1>2, <1>3 DEF vars, AllOn
<1>4. ASSUME NEW n \in Node, Transfer(n) PROVE FALSE
  BY <1>1, <1>4 DEF Transfer
<1>5. ASSUME NEW n \in Node, AcceptTransaction(n) PROVE AllOn(L)'
  BY <1>2, <1>5, AcceptTransactionOn
<1>6. ASSUME NEW n \in Node, ProduceBlock(n) PROVE \E M : AllOn(M)'
  BY <1>2, <1>6, ProduceBlockOn
<1>7. ASSUME NEW n \in Node, AcceptBlock(n) PROVE AllOn(L)'
  BY <1>2, <1>7, AcceptBlockOn
<1>8. ASSUME NEW n \in Node, Restart(n) PROVE AllOn(L)'
  BY <1>2, <1>8, RestartOn
<1> QED
  BY <1>3, <1>4, <1>5, <1>6, <1>7, <1>8 DEF Next

\* The nodes start with the ledger of the empty chain.
LEMMA ReplayStart == Init => ReplayInv
<1> SUFFICES ASSUME Init PROVE \E L : AllOn(L)
  BY DEF ReplayInv
<1> DEFINE L == [k \in 0..0 |-> Base(Genesis)]
<1>1. st = [n \in Node |-> Genesis] /\ disk = st /\ chain = <<>>
  BY DEF Init, Genesis
<1>2. Genesis \in State /\ Genesis.height = 0
  BY GenesisSound DEF Sounds, Genesis
<1>3. Base(Genesis) \in State
  BY <1>2, BaseFields
<1>4. L \in [0..0 -> State] /\ L[0] = Base(Genesis)
  BY <1>3
<1> HIDE DEF L
<1>5. History(L, <<>>)
  BY <1>4 DEF History
<1>6. On(L, Genesis)
  BY <1>2, <1>4 DEF On
<1>7. AllOn(L)
  BY <1>1, <1>5, <1>6 DEF AllOn
<1> QED
  BY <1>7

\* The invariant.
LEMMA ReplayAlways == Spec => []ReplayInv
  BY LedgerAlways, ReplayStart, ReplayStepKeeps, PTL DEF Spec

\* Where nothing is executed ahead of its block and owners validate with their own key,
\* nodes at one height have one ledger, and every node can replay, to the same root,
\* whatever another one produces: no node is ever stuck behind the chain.
THEOREM GossipAgrees == Spec => []GossipReplicates
<1>1. LedgerInv /\ ReplayInv => GossipReplicates
  <2> SUFFICES ASSUME LedgerInv, ReplayInv, gateways = {}, Owner = Operator
               PROVE  Convergence /\ EveryBlockAccepted
    BY DEF GossipReplicates
  <2>1. PICK L : AllOn(L)
    BY DEF ReplayInv
  <2>2. \A n \in Node : st[n] \in Sounds /\ st[n] \in State /\ Behind(st[n], chain)
    BY DEF LedgerInv, Sounds
  <2>3. \A n \in Node : On(L, st[n])
    BY <2>1 DEF AllOn
  <2>4. Convergence
    <3> SUFFICES ASSUME NEW n \in Node, NEW m \in Node, st[n].height = st[m].height
                 PROVE  /\ st[n].bal = st[m].bal /\ st[n].nonce = st[m].nonce
                        /\ st[n].ConfirmedTxs = st[m].ConfirmedTxs
                        /\ st[n].BaseFee = st[m].BaseFee
      BY DEF Convergence
    <3>1. Base(st[n]) = Base(st[m])
      BY <2>3 DEF On
    <3>2. Alike(st[n], st[m])
      BY <2>2, <3>1, BaseAlike
    <3> QED
      BY <3>2 DEF Alike
  <2>5. EveryBlockAccepted
    <3> SUFFICES ASSUME NEW n \in Node, st[n].height < Len(chain)
                 PROVE  LET block == chain[st[n].height + 1]
                            r == applyBlockTransactions(st[n], block)
                        IN  r.ok /\ r.s.bal = block.root
      BY DEF EveryBlockAccepted
    <3> DEFINE s == st[n]
               block == chain[s.height + 1]
    <3>1. s \in Sounds /\ Behind(s, chain) /\ On(L, s)
      BY <2>2, <2>3
    <3> HIDE DEF s
    <3>2. s.height < Len(chain)
      BY DEF s
    <3>3. block \in Block /\ Extends(Base(s), block, L[s.height + 1])
      BY <2>1, <3>1, <3>2, NextBlock
    <3> HIDE DEF block
    <3>4. /\ applyBlockTransactions(s, block).ok
          /\ applyBlockTransactions(s, block).s.bal = block.root
      BY <3>1, <3>3, Follows
    <3> QED
      BY <3>4 DEF block, s
  <2> QED
    BY <2>4, <2>5
<1> QED
  BY <1>1, LedgerAlways, ReplayAlways, PTL
=============================================================================
