------------------------------ MODULE Records ------------------------------
(***************************************************************************)
(* What clients write down about their files: key envelopes, shares and    *)
(* their revocation, collections with the records appended to them, and    *)
(* the retrieval receipts counted for miners.  Every node executes what    *)
(* its own clients ask at once, tells the others, and confirms it in a     *)
(* block; the others replay it.                                            *)
(*                                                                         *)
(* Source: internal/chain/{sharing,collections,retrieval,tx_replay,block}. *)
(* go.  Which block comes next is the business of module Consensus: here   *)
(* there is one chain, of blocks with one transaction each.                *)
(*                                                                         *)
(* Data abstraction.  Ids are random in the code, so fresh here; expiry,   *)
(* keys, metadata and the listing filters are left out.  Blocks this small *)
(* never raise the base fee, so all the types that pay pay the same.       *)
(***************************************************************************)
EXTENDS Integers, Sequences, FiniteSets, Functions

CONSTANTS
  Replica,          \* the nodes
  Writer,           \* the users who write
  File,             \* intents: [user, encrypted, finalized]
  Receipt,          \* signed retrieval receipts of registered miners: [id, miner]
  NoRecord,         \* no parent, no share
  MaxWrites         \* bound: transactions

ASSUME RecordsAssumption ==
  /\ IsFiniteSet(Replica) /\ IsFiniteSet(Receipt)
  /\ File \subseteq [user : Writer, encrypted : BOOLEAN, finalized : BOOLEAN]
  /\ MaxWrites \in Nat /\ NoRecord \notin Nat

VARIABLES
  writes,   \* transactions made so far
  log,      \* the chain
  book,     \* book[n]: the State of n
  skipped   \* history: a node used up a nonce and has nothing to send for it

recordsVars == <<writes, log, book, skipped>>

\* Any transaction, with the fields its kind does not use left at NoRecord.
Blank == [kind |-> "", id |-> 0, user |-> NoRecord, nonce |-> 0,
          file |-> NoRecord, ref |-> NoRecord, parent |-> NoRecord, seen |-> FALSE]

-----------------------------------------------------------------------------
(***************************************************************************)
(* What a transaction does to a state.  A handler and the replay of its    *)
(* transaction make the same change; their checks differ.                  *)
(***************************************************************************)
withNonce(s, u) == [s EXCEPT !.nonces[u] = @ + 1]

\* buildKeyEnvelope
envelopeOf(t) == [id |-> t.id, share |-> t.ref, file |-> t.file, revoked |-> FALSE]

withEnvelope(s, t) == [withNonce(s, t.user) EXCEPT !.envelopes = @ \cup {envelopeOf(t)}]

withShare(s, t) ==
  [withEnvelope(s, [t EXCEPT !.ref = t.id])
     EXCEPT !.shares = @ \cup {[id |-> t.id, user |-> t.user, revoked |-> FALSE]}]

shareOf(s, id) == {x \in s.shares : x.id = id}

withRevoked(s, t) ==
  [withNonce(s, t.user) EXCEPT
     !.shares = {[x EXCEPT !.revoked = @ \/ x.id = t.ref] : x \in @},
     !.envelopes = {[e EXCEPT !.revoked = @ \/ e.share = t.ref] : e \in @}]

\* applyDataCollectionLocked
withCollection(s, t) ==
  [withNonce(s, t.user) EXCEPT !.collections = @ \cup {[id |-> t.id, user |-> t.user]}]

\* applyDataRecordLocked
withRecord(s, t) ==
  [s EXCEPT !.records = @ \cup {[id |-> t.id, collection |-> t.ref, file |-> t.file,
                                 parent |-> t.parent]}]

\* The checks of an appended record that follow the nonce: the file, and a parent
\* in the same collection.
recordFits(s, t) ==
  /\ t.file.user = t.user /\ t.file.finalized
  /\ t.parent = NoRecord \/ \E r \in s.records : r.id = t.parent /\ r.collection = t.ref

\* submitRetrievalReceiptLocked: a receipt known already is accepted and not counted.
withReceipt(s, r) ==
  IF r \in s.receipts THEN s
  ELSE [s EXCEPT !.success[r.miner] = @ + 1, !.receipts = @ \cup {r}]

\* The state t leaves where its checks pass.
effect(s, t) ==
  CASE t.kind = "create_key_envelope" -> withEnvelope(s, t)
    [] t.kind = "create_share" -> withShare(s, t)
    [] t.kind = "revoke_share" -> withRevoked(s, t)
    [] t.kind = "create_collection" -> withCollection(s, t)
    [] t.kind = "append_record" -> withRecord(withNonce(s, t.user), t)
    [] t.kind = "submit_retrieval_receipt" -> withReceipt(s, t.ref)

-----------------------------------------------------------------------------
(***************************************************************************)
(* Replay: what applyTransactionLocked checks of each type.                *)
(***************************************************************************)
\* A share this node does not know is revoked without a change.
revokesNothing(s, t) == t.kind = "revoke_share" /\ shareOf(s, t.ref) = {}

\* applyRevokeShareLocked: whether the share was revoked before is not asked.
revokeReplayable(s, t) ==
  \A x \in shareOf(s, t.ref) : x.user = t.user /\ t.nonce = s.nonces[t.user]

\* applyDataRecordPayloadLocked
recordReplayable(s, t) ==
  /\ [id |-> t.ref, user |-> t.user] \in s.collections
  /\ recordFits(s, t) /\ t.nonce = s.nonces[t.user]

\* applySubmitRetrievalReceiptLocked: known here if and only if it was known there.
receiptReplayable(s, t) == t.seen = (t.ref \in s.receipts)

replayable(s, t) ==
  CASE t.kind = "submit_retrieval_receipt" -> receiptReplayable(s, t)
    [] t.kind = "revoke_share" -> revokeReplayable(s, t)
    [] t.kind = "append_record" -> recordReplayable(s, t)
    [] OTHER -> t.nonce = s.nonces[t.user]

\* Mutated: other nodes get the share without its envelope.
replayed_shareOnly(s, t) ==
  IF t.kind = "create_share"
  THEN [effect(s, t) EXCEPT !.envelopes = {e \in @ : e.id # t.id}]
  ELSE IF revokesNothing(s, t) THEN s ELSE effect(s, t)

replayed(s, t) == IF revokesNothing(s, t) THEN s ELSE effect(s, t)

\* enqueuePendingTxLocked, with the one fee all types pay: a transaction of the
\* same sender and nonce is not replaced.
enqueuedTx(s, t) ==
  \/ t.kind = "submit_retrieval_receipt"
  \/ \A p \in s.pendingTxs : p.user # t.user \/ p.nonce # t.nonce

\* recordTxLocked: what cannot be queued stays executed and is never sent.
recorded(s, t) ==
  IF enqueuedTx(s, t)
  THEN [s EXCEPT !.pendingTxs = @ \cup {t}, !.appliedTxs = @ \cup {t}]
  ELSE s

\* The end of a block with t.
confirmedTx(s, t) ==
  [s EXCEPT !.pendingTxs = @ \ {t}, !.appliedTxs = @ \cup {t}, !.height = @ + 1]

-----------------------------------------------------------------------------
(***************************************************************************)
(* Requests of a node's own clients.                                       *)
(***************************************************************************)
\* Node n executes t, whose checks have passed.
Execute(n, t) ==
  /\ writes < MaxWrites
  /\ writes' = writes + 1
  /\ book' = [book EXCEPT ![n] = recorded(effect(@, t), t)]
  /\ skipped' = (skipped \/ ~enqueuedTx(book[n], t))
  /\ UNCHANGED log

\* A request of u, signed with the nonce n answers for u.
Signed(n, kind, u) ==
  [Blank EXCEPT !.kind = kind, !.id = writes + 1, !.user = u, !.nonce = book[n].nonces[u]]

\* For an encrypted file of the user's.
CreateKeyEnvelope(n, u, f) ==
  /\ f.user = u /\ f.encrypted
  /\ Execute(n, [Signed(n, "create_key_envelope", u) EXCEPT !.file = f])

\* CreateAddressShare and CreatePasscodeShare
CreateShare(n, u, f) ==
  /\ f.user = u /\ f.encrypted
  /\ Execute(n, [Signed(n, "create_share", u) EXCEPT !.file = f])

\* Nothing is done, and no nonce used, for a share revoked already.
RevokeShare(n, u, share) ==
  /\ share \in book[n].shares /\ share.user = u /\ ~share.revoked
  /\ Execute(n, [Signed(n, "revoke_share", u) EXCEPT !.ref = share.id])

CreateCollection(n, u) == Execute(n, Signed(n, "create_collection", u))

\* AppendRecord: the nonce is used up before the file and the parent are looked
\* at, also when they are refused.
AppendRecord(n, u, collection, f, parent) ==
  /\ collection \in book[n].collections /\ collection.user = u
  /\ LET t == [Signed(n, "append_record", u) EXCEPT
                 !.ref = collection.id, !.file = f, !.parent = parent]
     IN  IF recordFits(book[n], t)
         THEN Execute(n, t)
         ELSE /\ writes < MaxWrites
              /\ writes' = writes + 1
              /\ book' = [book EXCEPT ![n] = withNonce(@, u)]
              /\ skipped' = TRUE
              /\ UNCHANGED log

SubmitRetrievalReceipt(n, r) ==
  Execute(n, [Blank EXCEPT !.kind = "submit_retrieval_receipt", !.id = writes + 1,
                           !.user = r.miner, !.ref = r, !.seen = r \in book[n].receipts])

-----------------------------------------------------------------------------
(***************************************************************************)
(* Transactions and blocks between nodes.                                  *)
(***************************************************************************)
Confirmed(n) == Range(SubSeq(log, 1, book[n].height))

\* A transaction n executed reaches m's mempool.
Gossip(n, m) ==
  \E t \in book[n].pendingTxs :
    /\ t \notin book[m].pendingTxs \cup Confirmed(m)
    /\ enqueuedTx(book[m], t)
    /\ book' = [book EXCEPT ![m].pendingTxs = @ \cup {t}]
    /\ UNCHANGED <<writes, log, skipped>>

\* sortPendingTxs: receipts pay nothing and come last; one sender's transactions come
\* by nonce, then by age.  The order of addresses is left open.
FirstOf(T) ==
  LET free(t) == t.kind = "submit_retrieval_receipt"
      before(t, o) == \/ ~free(t) /\ free(o)
                      \/ /\ t.user = o.user
                         /\ t.nonce < o.nonce \/ (t.nonce = o.nonce /\ t.id < o.id)
  IN  {t \in T : \A o \in T : ~before(o, t)}

\* selectPendingTxsForBlockLocked and applyPendingTransactionsForBlockLocked: what was
\* executed ahead of the block first, then the transactions with their sender's next
\* nonce; one that fails is passed over.
Candidates(s) ==
  LET ahead == s.pendingTxs \cap s.appliedTxs
      next == {t \in s.pendingTxs : replayable(s, t)
                 /\ (t.kind = "submit_retrieval_receipt" \/ t.nonce = s.nonces[t.user])}
  IN  FirstOf(IF ahead # {} THEN ahead ELSE next)

\* The state after a block with t, unless a check of the replay fails.
Confirm(n, t) ==
  IF t \in book[n].appliedTxs
  THEN book' = [book EXCEPT ![n] = confirmedTx(@, t)]
  ELSE /\ replayable(book[n], t)
       /\ book' = [book EXCEPT ![n] = confirmedTx(replayed(@, t), t)]

\* The next block, by a node that has the chain.
ProduceRecords(n) ==
  /\ book[n].height = Len(log)
  /\ \E t \in Candidates(book[n]) : Confirm(n, t) /\ log' = Append(log, t)
  /\ UNCHANGED <<writes, skipped>>

\* applyBlockTransactionsLocked: the whole block is refused when a check fails.
AcceptRecords(n) ==
  /\ book[n].height < Len(log)
  /\ Confirm(n, log[book[n].height + 1])
  /\ UNCHANGED <<writes, log, skipped>>

RecordsInit ==
  /\ writes = 0
  /\ log = <<>>
  /\ skipped = FALSE
  /\ book = [n \in Replica |->
       [nonces |-> [u \in Writer |-> 0], envelopes |-> {}, shares |-> {},
        collections |-> {}, records |-> {}, receipts |-> {},
        success |-> [m \in {r.miner : r \in Receipt} |-> 0],
        pendingTxs |-> {}, appliedTxs |-> {}, height |-> 0]]

RecordsNext ==
  \E n \in Replica :
    \/ \E u \in Writer :
         \/ \E f \in File : CreateKeyEnvelope(n, u, f) \/ CreateShare(n, u, f)
         \/ \E share \in book[n].shares : RevokeShare(n, u, share)
         \/ CreateCollection(n, u)
         \/ \E c \in book[n].collections, f \in File :
              \E p \in {NoRecord} \cup {r.id : r \in book[n].records} :
                AppendRecord(n, u, c, f, p)
    \/ \E r \in Receipt : SubmitRetrievalReceipt(n, r)
    \/ \E m \in Replica \ {n} : Gossip(n, m)
    \/ ProduceRecords(n)
    \/ AcceptRecords(n)

RecordsSpec == RecordsInit /\ [][RecordsNext]_recordsVars

-----------------------------------------------------------------------------
(***************************************************************************)
(* Properties                                                              *)
(***************************************************************************)
RecordsTypeOK ==
  /\ writes \in 0..MaxWrites /\ skipped \in BOOLEAN
  /\ \A n \in Replica :
       /\ book[n].height \in 0..Len(log)
       /\ book[n].pendingTxs \cap Confirmed(n) = {}

\* No node lists the key of a share whose revocation it executed, whether its own
\* client asked for it or a block brought it, in whatever order the two arrived -
\* unless somewhere a nonce was used up for nothing: that node can bring a revocation
\* into the chain ahead of its share, which the others then list.
\* (ListShares and ListKeyEnvelopes leave out what is marked as revoked.)
RevokedKeysHidden ==
  ~skipped => \A n \in Replica : \A t \in book[n].appliedTxs :
    t.kind = "revoke_share" =>
      /\ \A x \in shareOf(book[n], t.ref) : x.revoked
      /\ \A e \in book[n].envelopes : e.share = t.ref => e.revoked

\* What n has written down, the mempool and the nonces aside.
Written(n) ==
  LET s == book[n]
  IN  <<s.envelopes, s.shares, s.collections, s.records, s.receipts, s.success>>

\* Two nodes with the same blocks, and nothing executed ahead of them, agree on
\* every share, key, collection, record and count: handlers and replay do the same,
\* as long as no node has executed what it cannot send.
RecordsAgree ==
  ~skipped => \A n, m \in Replica :
    ( /\ book[n].height = book[m].height
      /\ \A k \in {n, m} : book[k].appliedTxs \subseteq Confirmed(k) )
    => Written(n) = Written(m)

\* A served download counts once for its miner on every node, however often and
\* wherever its receipt is submitted.
RetrievalCountedOnce ==
  \A n \in Replica : \A m \in DOMAIN book[n].success :
    book[n].success[m] = Cardinality({r \in book[n].receipts : r.miner = m})

\* What is written down on one node arrives on the other as it was meant: once, the same,
\* and hidden again when it was revoked.
RecordsReplicate == RecordsTypeOK /\ RevokedKeysHidden /\ RecordsAgree /\ RetrievalCountedOnce
=============================================================================
