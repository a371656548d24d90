------------------------------ MODULE Execution ------------------------------
(***************************************************************************)
(* Transactions from submission to confirmation, on every node of a        *)
(* network: the mempool, the local execution of POST /transfer, block      *)
(* production, and the replay of a peer's block with its state root.       *)
(*                                                                         *)
(* Source: internal/chain/{block,tx_replay,fee_market,state}.go.  Which    *)
(* block comes next is the business of module Consensus: here there is one *)
(* chain, extended by a node that has reached its end.                     *)
(*                                                                         *)
(* Data abstraction.  Transactions are signed transfers, the type every    *)
(* other one shares its path with; sizes in bytes, signatures, receipts    *)
(* and events are left out.  A state root is the balances it commits to.   *)
(***************************************************************************)
EXTENDS Integers, Sequences, FiniteSets, FiniteSetsExt, Functions, Ordering

CONSTANTS
  Node,            \* the validators
  Account,         \* the accounts
  Owner,           \* Owner[n]: the account of n's owner
  Operator,        \* Operator[n]: the account of n's operator key
  Address,         \* Address[a]: place of account a in address order
  Tx,              \* the signed transfers: id, from, to, amount, fee, nonce
  Balance,         \* Balance[a]: genesis balance of a
  defaultBaseFee,  \* the least base fee
  TargetBlockTxs,  \* a block with more transactions raises the base fee
  MaxBlockTxs,     \* transactions a block may carry
  MaxMempoolTxs,   \* transactions a mempool may hold
  MaxPerSender,    \* of these, from one sender
  MaxHeight        \* bound: blocks in the chain

ASSUME LedgerAssumption ==
  /\ Owner \in [Node -> Account]
  /\ Operator \in [Node -> Account]
  /\ IsFiniteSet(Account)
  /\ Address \in [Account -> Nat]
  /\ \A a, b \in Account : Address[a] = Address[b] => a = b
  /\ Balance \in [Account -> Nat]
  /\ Tx \subseteq [id : Nat, from : Account, to : Account,
                   amount : Nat, fee : Nat, nonce : Nat]
  /\ \A t, u \in Tx : t.id = u.id => t = u
  /\ defaultBaseFee \in Nat /\ TargetBlockTxs \in Nat /\ MaxBlockTxs \in Nat
  /\ MaxMempoolTxs \in Nat /\ MaxPerSender \in Nat /\ MaxHeight \in Nat

VARIABLES
  gateways, \* the nodes whose clients use POST /transfer, always the same
  chain,   \* the blocks: producer, transactions, state root
  st,      \* st[n]: the State of n, in memory
  disk     \* disk[n]: the State n saved last

vars == <<gateways, chain, st, disk>>

-----------------------------------------------------------------------------
Block == [producer : Node, txs : Seq(Tx), root : [Account -> Nat]]

State ==
  [bal : [Account -> Nat], nonce : [Account -> Nat],
   PendingTxs : SUBSET Tx,      \* the mempool
   AppliedTxs : SUBSET Tx,      \* executed, in a block or ahead of it
   FeeChargedTxs : SUBSET Tx,
   ConfirmedTxs : SUBSET Tx,    \* in a block
   BaseFee : {fee \in Nat : fee >= defaultBaseFee},
   height : Nat]

Init ==
  /\ gateways \in SUBSET Node
  /\ chain = <<>>
  /\ st = [n \in Node |->
             [bal |-> Balance, nonce |-> [a \in Account |-> 0],
              PendingTxs |-> {}, AppliedTxs |-> {}, FeeChargedTxs |-> {},
              ConfirmedTxs |-> {}, BaseFee |-> defaultBaseFee, height |-> 0]]
  /\ disk = st

-----------------------------------------------------------------------------
(***************************************************************************)
(* Execution of one transaction.  Each step either changes the state or is *)
(* refused; a refusal is the guard being false.                            *)
(***************************************************************************)
\* validateTransactionFeeLocked
validateTransactionFee(s, t) == t.fee >= s.BaseFee

\* applyTransferLocked
applicable(s, t) ==
  /\ t.from # t.to
  /\ t.fee >= s.BaseFee
  /\ t.nonce = s.nonce[t.from]
  /\ s.bal[t.from] >= t.amount + t.fee

\* Mutated: the nonce is not used up.
applyTransfer_keepsNonce(s, t) ==
  [s EXCEPT !.bal[t.from] = @ - t.amount, !.bal[t.to] = @ + t.amount]

\* applySignedTransferLocked: the fee is not taken yet.
applyTransfer(s, t) ==
  [s EXCEPT !.bal[t.from] = @ - t.amount,
            !.bal[t.to] = @ + t.amount,
            !.nonce[t.from] = @ + 1]

\* chargeTransactionFeeLocked refuses a payer who cannot pay.
chargeable(s, t) ==
  t.fee = 0 \/ t \in s.FeeChargedTxs \/ s.bal[t.from] >= t.fee

\* Mutated: two copies of one account when the payer is the producer.
chargeTransactionFee_twoCopies(s, t, producer) ==
  IF t.fee = 0 \/ t \in s.FeeChargedTxs
  THEN s
  ELSE [s EXCEPT !.bal = [a \in Account |->
                   IF a = producer THEN @[a] + t.fee
                   ELSE IF a = t.from THEN @[a] - t.fee ELSE @[a]],
                 !.FeeChargedTxs = @ \cup {t}]

\* chargeTransactionFeeLocked: from the sender to the producer, once; a sender who
\* is the producer pays nothing.
chargeTransactionFee(s, t, producer) ==
  IF t.fee = 0 \/ t \in s.FeeChargedTxs
  THEN s
  ELSE [s EXCEPT !.bal = IF t.from = producer
                         THEN @
                         ELSE [s.bal EXCEPT ![t.from] = @ - t.fee,
                                            ![producer] = @ + t.fee],
                 !.FeeChargedTxs = @ \cup {t}]

\* Execute t unless it was executed before.
executed(s, t) ==
  IF t \in s.AppliedTxs THEN s
  ELSE [applyTransfer(s, t) EXCEPT !.AppliedTxs = @ \cup {t}]

\* Every check between taking t up and confirming it passes.
Accepts(s, t) ==
  /\ t \notin s.ConfirmedTxs
  /\ validateTransactionFee(s, t)
  /\ t \in s.AppliedTxs \/ applicable(s, t)
  /\ chargeable(executed(s, t), t)

\* The state after t was executed in a block, its fee paid to that account.
inBlock(s, t, producer) == chargeTransactionFee(executed(s, t), t, producer)

confirmed(s, txs) ==
  [s EXCEPT !.ConfirmedTxs = @ \cup txs, !.PendingTxs = @ \ txs]

\* adjustFeeMarketAfterBlockLocked
adjustFeeMarket(fee, txCount) ==
  LET step == IF fee \div 8 = 0 THEN 1 ELSE fee \div 8
  IN  IF txCount > TargetBlockTxs THEN fee + step
      ELSE IF txCount < TargetBlockTxs /\ fee > defaultBaseFee
      THEN IF fee <= defaultBaseFee + step THEN defaultBaseFee ELSE fee - step
      ELSE fee

\* The end of a block: its transactions leave the mempool, the base fee moves.
closeBlock(s, txs) ==
  [confirmed(s, Range(txs)) EXCEPT !.BaseFee = adjustFeeMarket(@, Len(txs)),
                                   !.height = @ + 1]

-----------------------------------------------------------------------------
(***************************************************************************)
(* The mempool                                                             *)
(***************************************************************************)
\* The pending transaction t would replace: same sender, same nonce.
Rivals(s, t) == {p \in s.PendingTxs : p.from = t.from /\ p.nonce = t.nonce}

\* enqueuePendingTxLocked takes t up: a higher fee replaces a rival that was not
\* executed yet, anything else needs room.
enqueueable(s, t) ==
  /\ t \notin s.ConfirmedTxs
  /\ validateTransactionFee(s, t)
  /\ t \notin s.PendingTxs
  /\ IF Rivals(s, t) # {}
     THEN \A p \in Rivals(s, t) : p \notin s.AppliedTxs /\ t.fee > p.fee
     ELSE /\ Cardinality(s.PendingTxs) < MaxMempoolTxs
          /\ Cardinality({p \in s.PendingTxs : p.from = t.from}) < MaxPerSender

enqueuePendingTx(s, t) ==
  [s EXCEPT !.PendingTxs = (@ \ Rivals(s, t)) \cup {t}]

\* recordTxLocked: taken up, and marked as executed before it is.
recordTx(s, t) ==
  IF enqueueable(s, t)
  THEN [enqueuePendingTx(s, t) EXCEPT !.AppliedTxs = @ \cup {t}]
  ELSE s

\* removePendingTxLocked: also when t was recorded by an earlier call.
removePendingTx(s, t) ==
  IF t \in s.PendingTxs
  THEN [s EXCEPT !.PendingTxs = @ \ {t}, !.AppliedTxs = @ \ {t}]
  ELSE s

\* sortPendingTxs: fee first, then address, nonce and age.
Before(t, u) ==
  \/ t.fee > u.fee
  \/ /\ t.fee = u.fee
     /\ \/ Address[t.from] < Address[u.from]
        \/ /\ t.from = u.from
           /\ t.nonce < u.nonce \/ (t.nonce = u.nonce /\ t.id < u.id)

sortPendingTxs(S) == Ordered(S, {p \in S \X S : Before(p[1], p[2])})

\* One more transaction: the first, in order, with its sender's next nonce.
AddNext(s, order, selected) ==
  LET next(a) == s.nonce[a] + Cardinality({t \in Range(selected) :
                                             t.from = a /\ t \notin s.AppliedTxs})
      ready == {i \in DOMAIN order : /\ order[i] \notin Range(selected)
                                     /\ order[i].nonce = next(order[i].from)}
  IN  IF ready = {} THEN selected ELSE Append(selected, order[Min(ready)])

\* selectPendingTxsForBlockLocked: what was executed ahead of the block, by fee,
\* and then the others as their nonces come up.
selectPendingTxs(s) ==
  LET order == sortPendingTxs(s.PendingTxs)
      ahead == sortPendingTxs(s.PendingTxs \cap s.AppliedTxs)
      selected[k \in 0..MaxBlockTxs] ==
        IF k = 0 THEN ahead ELSE AddNext(s, order, selected[k - 1])
  IN  IF Len(ahead) >= MaxBlockTxs
      THEN SubSeq(ahead, 1, MaxBlockTxs)
      ELSE selected[MaxBlockTxs - Len(ahead)]

-----------------------------------------------------------------------------
(***************************************************************************)
(* Steps                                                                   *)
(***************************************************************************)
Save(n) == disk' = [disk EXCEPT ![n] = st'[n]]

\* POST /transfer: recorded, then executed at once, ahead of any block.  When the
\* execution is refused the record is taken out again and nothing is saved.
Transfer(n) ==
  \E t \in Tx :
    LET s == recordTx(st[n], t)
    IN  /\ n \in gateways
        /\ \/ /\ applicable(s, t)
              /\ st' = [st EXCEPT ![n] = applyTransfer(s, t)]
              /\ Save(n)
           \/ /\ ~applicable(s, t)
              /\ st' = [st EXCEPT ![n] = removePendingTx(s, t)]
              /\ UNCHANGED disk
        /\ UNCHANGED <<gateways, chain>>

\* Mutated: a transfer from a peer is executed on arrival, as a client's is.
AcceptTransaction_executes(n) ==
  \E t \in Tx :
    /\ enqueueable(st[n], t)
    /\ applicable(st[n], t)
    /\ st' = [st EXCEPT ![n] = executed(enqueuePendingTx(@, t), t)]
    /\ Save(n)
    /\ UNCHANGED <<gateways, chain>>

\* AcceptTransaction: a transfer arrives by gossip or POST /p2p/txs and waits.
AcceptTransaction(n) ==
  \E t \in Tx :
    /\ t.from # t.to
    /\ t.fee >= st[n].BaseFee
    /\ t.nonce >= st[n].nonce[t.from]
    /\ enqueueable(st[n], t)
    /\ st' = [st EXCEPT ![n] = enqueuePendingTx(@, t)]
    /\ Save(n)
    /\ UNCHANGED <<gateways, chain>>

\* The producer's pass over the selection: what is refused stays in the mempool.
applyPendingTransactions(s, txs, producer) ==
  LET step(r, t) == IF Accepts(r.s, t)
                    THEN [s |-> inBlock(r.s, t, producer), txs |-> Append(r.txs, t)]
                    ELSE r
      after[k \in 0..Len(txs)] ==
        IF k = 0 THEN [s |-> s, txs |-> <<>>] ELSE step(after[k - 1], txs[k])
  IN  after[Len(txs)]

\* produceBlockLocked: fees go to the owner.
ProduceBlock(n) ==
  LET r == applyPendingTransactions(st[n], selectPendingTxs(st[n]), Owner[n])
  IN  /\ Len(chain) < MaxHeight
      /\ st[n].height = Len(chain)
      /\ chain' = Append(chain, [producer |-> n, txs |-> r.txs, root |-> r.s.bal])
      /\ st' = [st EXCEPT ![n] = closeBlock(r.s, r.txs)]
      /\ Save(n)
      /\ UNCHANGED gateways

\* applyBlockTransactionsLocked: all or nothing, fees go to the operator account.
applyBlockTransactions(s, block) ==
  LET step(r, t) ==
        IF r.ok /\ Accepts(r.s, t)
        THEN [ok |-> TRUE, s |-> [inBlock(r.s, t, Operator[block.producer])
                                    EXCEPT !.ConfirmedTxs = @ \cup {t}]]
        ELSE [ok |-> FALSE, s |-> s]
      after[k \in 0..Len(block.txs)] ==
        IF k = 0 THEN [ok |-> TRUE, s |-> s] ELSE step(after[k - 1], block.txs[k])
  IN  after[Len(block.txs)]

\* AcceptBlock: replay the next block and compare roots.  A refused transaction
\* restores the state, a wrong root keeps what the replay did; nothing is saved.
AcceptBlock(n) ==
  LET block == chain[st[n].height + 1]
      r     == applyBlockTransactions(st[n], block)
  IN  /\ st[n].height < Len(chain)
      /\ \/ /\ r.ok /\ r.s.bal = block.root
            /\ st' = [st EXCEPT ![n] = closeBlock(r.s, block.txs)]
            /\ Save(n)
         \/ /\ r.ok /\ r.s.bal # block.root
            /\ st' = [st EXCEPT ![n] = r.s]
            /\ UNCHANGED disk
      /\ UNCHANGED <<gateways, chain>>

\* A crash: the node comes back with what it saved.
Restart(n) ==
  /\ st' = [st EXCEPT ![n] = disk[n]]
  /\ UNCHANGED <<gateways, chain, disk>>

Next ==
  \E n \in Node :
    \/ Transfer(n)
    \/ AcceptTransaction(n)
    \/ ProduceBlock(n)
    \/ AcceptBlock(n)
    \/ Restart(n)

Spec == Init /\ [][Next]_vars

-----------------------------------------------------------------------------
(***************************************************************************)
(* Properties                                                              *)
(***************************************************************************)
\* Every variable has its type.
TypeOK ==
  /\ gateways \subseteq Node
  /\ chain \in Seq(Block)
  /\ st \in [Node -> State]
  /\ disk \in [Node -> State]

\* No execution, fee, retry, refused block or crash makes or destroys tokens, no
\* account is overdrawn and the base fee keeps above its floor.
Conserved ==
  /\ TypeOK
  /\ \A n \in Node :
       SumFunctionOnSet(st[n].bal, Account) = SumFunctionOnSet(Balance, Account)

ChainTxs ==
  {p \in (1..Len(chain)) \X (1..MaxBlockTxs) : p[2] \in DOMAIN chain[p[1]].txs}

TxAt(p) == chain[p[1]].txs[p[2]]

\* Replay protection: no two places of the chain hold transfers of one sender with
\* one nonce, whichever nodes the rivals were submitted to and executed on.
NonceUsedOnce ==
  \A p, q \in ChainTxs :
    TxAt(p).from = TxAt(q).from /\ TxAt(p).nonce = TxAt(q).nonce => p = q

\* Nodes at one height have one ledger and agree on what is confirmed, even when
\* one of them still holds transactions the other never saw.
Convergence ==
  \A n, m \in Node :
    st[n].height = st[m].height
      => /\ st[n].bal = st[m].bal
         /\ st[n].nonce = st[m].nonce
         /\ st[n].ConfirmedTxs = st[m].ConfirmedTxs
         /\ st[n].BaseFee = st[m].BaseFee

\* Whatever a producer puts into a block, every other node can replay it to the
\* same root: no node is ever stuck behind the chain.
EveryBlockAccepted ==
  \A n \in Node :
    st[n].height < Len(chain)
      => LET block == chain[st[n].height + 1]
             r == applyBlockTransactions(st[n], block)
         IN  r.ok /\ r.s.bal = block.root

\* Where nothing is executed ahead of its block, and owners validate with their own key,
\* no node is ever stuck behind the chain and nodes at one height agree.
GossipReplicates ==
  gateways = {} /\ Owner = Operator => Convergence /\ EveryBlockAccepted

\* AcceptBlock: "Without this, transactions would be applied to state even though
\* the block is rejected": a node that did not take the block did not take its
\* transactions.
RejectedBlockNotApplied ==
  [][\A n \in Node :
       AcceptBlock(n) /\ st'[n].height = st[n].height => st'[n] = st[n]]_vars
=============================================================================
