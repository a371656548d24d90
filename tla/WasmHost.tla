------------------------------ MODULE WasmHost ------------------------------
(***************************************************************************)
(* What a WASM contract can do to the chain, and how a block carries it.   *)
(* A node's contract state is a record `s'; a host function maps the state *)
(* and the calling contract to the new state.  An execution is a sequence  *)
(* of host calls.  Other nodes do not execute: they apply the difference   *)
(* between the states before and after (diffWasmState, applyWasmStateDelta)*)
(*                                                                         *)
(* Source: internal/chain/{wasm_host,wasm_delta,wasm}.go.  Read-only host  *)
(* functions change nothing and are not modelled.  Gas is one unit a call. *)
(***************************************************************************)
EXTENDS Integers, FiniteSets, FiniteSetsExt, Sequences, Functions

CONSTANTS
  None,
  User,             \* accounts of people
  Code,             \* bytecode hashes
  Key, Val,         \* what a contract stores
  Method,           \* names of cron methods
  Interval,         \* seconds between two runs of a job
  MaxWasmKVEntries, MaxWasmCronJobs, MaxWasmSubscriptions, MaxWasmEventsPerCall,
  MaxWasmPendingEvents, WasmCronAutoDisable,
  MaxWasmNonce      \* bound: the global counter of contracts and their objects

ASSUME WasmHostAssumption ==
  /\ IsFiniteSet(User) /\ User # {} /\ None \notin User \cup Code \cup Val
  /\ {Interval, MaxWasmKVEntries, MaxWasmCronJobs, MaxWasmSubscriptions, MaxWasmEventsPerCall,
      MaxWasmPendingEvents, WasmCronAutoDisable, MaxWasmNonce} \subseteq Nat

\* The address is the hash of the deployer and the nonce.
generateContractAddress(deployer, n) == <<deployer, n>>

Contract == {generateContractAddress(u, n) : u \in User, n \in 0..MaxWasmNonce}

Account == User \cup Contract

WasmCronJob ==
  [MethodName: Method, NextDueAt: Nat, Enabled: BOOLEAN, FailureCount: Nat]

WasmPendingEvent == [EmitterAddress: Contract, DeliveryBlock: Nat, Subscribers: SUBSET Contract]

WasmContract ==
  [Status: {"none", "active", "init_failed", "destroyed"}, Balance: Nat,
   CodeHash: Code \cup {None}, Admin: User \cup {None}]

\* Objects a contract makes are named by the nonce at the time.
NewIntent == [ID: 0..MaxWasmNonce, User: Contract, LockedFee: Nat]
DealEscrow == [ID: 0..MaxWasmNonce, User: Contract, LockedFee: Nat, Status: {"none", "terminated"}]
DataCollection == [ID: 0..MaxWasmNonce, User: Contract]
DataRecord == [ID: 0..MaxWasmNonce, Collection: 0..MaxWasmNonce]

WasmState ==
  [balance: [Account -> Nat], contracts: [Contract -> WasmContract],
   codes: [Code -> Nat], kv: [Contract -> [Key -> Val \cup {None}]],
   crons: [Contract -> Seq(WasmCronJob)], subs: [Contract -> SUBSET Contract],
   pending: Seq(WasmPendingEvent), nonce: Nat,
   intents: SUBSET NewIntent, escrows: SUBSET DealEscrow,
   collections: SUBSET DataCollection, records: SUBSET DataRecord]

NoKeys == [k \in Key |-> None]

\* No contract yet, and what the users have.
GenesisState(tokens) ==
  [balance |-> [a \in Account |-> IF a \in User THEN tokens ELSE 0],
   contracts |-> [c \in Contract |->
                    [Status |-> "none", Balance |-> 0, CodeHash |-> None, Admin |-> None]],
   codes |-> [h \in Code |-> 0], kv |-> [c \in Contract |-> NoKeys],
   crons |-> [c \in Contract |-> <<>>], subs |-> [c \in Contract |-> {}],
   pending |-> <<>>, nonce |-> 0,
   intents |-> {}, escrows |-> {}, collections |-> {}, records |-> {}]

-----------------------------------------------------------------------------
(* Host functions.  A refused call returns a code and changes nothing. *)

Active(s, c) == s.contracts[c].Status = "active"

When(cond, s, new) == IF cond THEN new ELSE s

\* The entries of a list that are in S.
Filtered(list, S) ==
  LET upto[k \in 0..Len(list)] ==
        IF k = 0 THEN <<>>
        ELSE IF list[k] \in S THEN Append(upto[k - 1], list[k]) ELSE upto[k - 1]
  IN  upto[Len(list)]

kv_set(s, c, k, v) ==
  When(s.kv[c][k] # None \/ Cardinality({x \in Key : s.kv[c][x] # None}) < MaxWasmKVEntries, s,
       [s EXCEPT !.kv[c][k] = v])

kv_delete(s, c, k) == [s EXCEPT !.kv[c][k] = None]

\* The target is an account: a contract that is paid this way cannot spend it.
exec_transfer(s, c, to, amount) ==
  When(Active(s, c) /\ amount > 0 /\ amount <= s.contracts[c].Balance /\ to # c, s,
       [s EXCEPT !.contracts[c].Balance = @ - amount, !.balance[to] = @ + amount])

\* Dropped when the queue is full or nobody subscribes.
enqueueWasmEvent(s, c, height) ==
  LET listeners == {d \in Contract : c \in s.subs[d]} IN
  When(Len(s.pending) < MaxWasmPendingEvents /\ listeners # {}, s,
       [s EXCEPT !.pending = Append(@, [EmitterAddress |-> c, DeliveryBlock |-> height + 1,
                                        Subscribers |-> listeners])])

emit_event(s, c, height, emitted) ==
  When(emitted < MaxWasmEventsPerCall, s, enqueueWasmEvent(s, c, height))

subscribe_event(s, c, emitter) ==
  When(Cardinality(s.subs[c]) < MaxWasmSubscriptions, s, [s EXCEPT !.subs[c] = @ \cup {emitter}])

registerWasmCron(s, c, m, time) ==
  When(/\ Len(s.crons[c]) < MaxWasmCronJobs
       /\ \A i \in DOMAIN s.crons[c] : s.crons[c][i].MethodName # m, s,
       [s EXCEPT !.crons[c] = Append(@, [MethodName |-> m, NextDueAt |-> time + Interval,
                                         Enabled |-> TRUE, FailureCount |-> 0])])

unregister_cron(s, c, m) ==
  [s EXCEPT !.crons[c] = Filtered(@, {j \in WasmCronJob : j.MethodName # m})]

exec_create_intent_unpaid(s, c, fee) ==
  When(Active(s, c) /\ fee <= s.contracts[c].Balance, s,
       [s EXCEPT !.nonce = @ + 1,
                 !.intents = @ \cup {[ID |-> s.nonce, User |-> c, LockedFee |-> fee]}])

exec_create_intent(s, c, fee) ==
  When(Active(s, c) /\ fee <= s.contracts[c].Balance, s,
       [s EXCEPT !.contracts[c].Balance = @ - fee, !.nonce = @ + 1,
                 !.intents = @ \cup {[ID |-> s.nonce, User |-> c, LockedFee |-> fee]}])

\* The escrow grows, the intent it belongs to does not.
exec_renew_deal(s, c, amount) ==
  LET own == {e \in s.escrows : e.User = c} IN
  When(Active(s, c) /\ amount <= s.contracts[c].Balance /\ own # {}, s,
       LET e == CHOOSE e \in own : TRUE IN
       [s EXCEPT !.contracts[c].Balance = @ - amount,
                 !.escrows = (@ \ {e}) \cup {[e EXCEPT !.LockedFee = @ + amount]}])

exec_terminate_deal(s, c) ==
  LET own == {e \in s.escrows : e.User = c} IN
  When(own # {}, s,
       LET e == CHOOSE e \in own : TRUE IN
       [s EXCEPT !.escrows = (@ \ {e}) \cup {[e EXCEPT !.Status = "terminated"]}])

exec_create_collection(s, c) ==
  When(Active(s, c), s,
       [s EXCEPT !.nonce = @ + 1, !.collections = @ \cup {[ID |-> s.nonce, User |-> c]}])

exec_append_record(s, c) ==
  LET own == {x \in s.collections : x.User = c} IN
  When(own # {}, s,
       [s EXCEPT !.nonce = @ + 1,
                 !.records = @ \cup {[ID |-> s.nonce, Collection |-> (CHOOSE x \in own : TRUE).ID]}])

-----------------------------------------------------------------------------
(* A host call of a program: the function and, where it has one, its argument. *)

HostFunction ==
  [op: {"kv_set"}, key: Key, val: Val] \cup [op: {"kv_delete"}, key: Key]
  \cup [op: {"exec_transfer"}, to: Account, amount: Nat]
  \cup [op: {"subscribe_event"}, emitter: Contract]
  \cup [op: {"register_cron", "unregister_cron"}, method: Method]
  \cup [op: {"exec_create_intent", "exec_renew_deal"}, amount: Nat]
  \cup [op: {"emit_event", "exec_terminate_deal", "exec_create_collection", "exec_append_record"}]

HostCall(s, c, h, time, height, emitted) ==
  CASE h.op = "kv_set" -> kv_set(s, c, h.key, h.val)
    [] h.op = "kv_delete" -> kv_delete(s, c, h.key)
    [] h.op = "exec_transfer" -> exec_transfer(s, c, h.to, h.amount)
    [] h.op = "emit_event" -> emit_event(s, c, height, emitted)
    [] h.op = "subscribe_event" -> subscribe_event(s, c, h.emitter)
    [] h.op = "register_cron" -> registerWasmCron(s, c, h.method, time)
    [] h.op = "unregister_cron" -> unregister_cron(s, c, h.method)
    [] h.op = "exec_create_intent" -> exec_create_intent(s, c, h.amount)
    [] h.op = "exec_renew_deal" -> exec_renew_deal(s, c, h.amount)
    [] h.op = "exec_terminate_deal" -> exec_terminate_deal(s, c)
    [] h.op = "exec_create_collection" -> exec_create_collection(s, c)
    [] h.op = "exec_append_record" -> exec_append_record(s, c)

\* An execution makes its host calls in order; the counter of events is its own.
Execute(s, c, program, time, height) ==
  LET run[k \in 0..Len(program)] ==
        IF k = 0 THEN [state |-> s, emitted |-> 0]
        ELSE LET x == run[k - 1]
                 h == program[k]
             IN  [state |-> HostCall(x.state, c, h, time, height, x.emitted),
                  emitted |-> IF h.op = "emit_event" THEN x.emitted + 1 ELSE x.emitted]
  IN  run[Len(program)].state

-----------------------------------------------------------------------------
(* The difference an execution makes, as the transaction carries it. *)

Changed(f, g) == {x \in DOMAIN f : f[x] # g[x]}

diffWasmState(before, after, c) ==
  [KVUpserts |-> {<<k, after.kv[c][k]>> : k \in {x \in Changed(before.kv[c], after.kv[c]) :
                                                   after.kv[c][x] # None}},
   KVDeletes |-> {k \in Key : before.kv[c][k] # None /\ after.kv[c][k] = None},
   ContractBalance |-> after.contracts[c].Balance - before.contracts[c].Balance,
   AccountDeltas |-> [a \in Changed(before.balance, after.balance) |-> after.balance[a] - before.balance[a]],
   PendingEvents |-> SubSeq(after.pending, Len(before.pending) + 1, Len(after.pending)),
   \* Only a change of the number is noticed.
   Subscriptions |-> IF Cardinality(after.subs[c]) = Cardinality(before.subs[c]) THEN None
                     ELSE after.subs[c],
   CronJobs |-> IF Len(after.crons[c]) = Len(before.crons[c]) THEN None ELSE after.crons[c],
   NonceDelta |-> after.nonce - before.nonce,
   NewIntents |-> after.intents \ before.intents,
   EscrowDeltas |-> {[ID |-> p[1].ID, fee |-> p[1].LockedFee - p[2].LockedFee,
                      Status |-> IF p[1].Status = p[2].Status THEN None ELSE p[1].Status] :
                       p \in {q \in after.escrows \X before.escrows :
                                q[1].ID = q[2].ID /\ q[1] # q[2]}},
   NewCollections |-> after.collections \ before.collections,
   NewRecords |-> after.records \ before.records]

\* What the execution moved into escrows.
EscrowedBy(d) == SumFunctionOnSet([x \in d.EscrowDeltas |-> x.fee], d.EscrowDeltas)

NotBelowZero(n) == IF n < 0 THEN 0 ELSE n

appliedKV_kept(kv, d) ==
  [k \in Key |-> IF \E v \in Val : <<k, v>> \in d.KVUpserts
                 THEN CHOOSE v \in Val : <<k, v>> \in d.KVUpserts
                 ELSE kv[k]]

appliedKV(kv, d) ==
  [k \in Key |-> IF k \in d.KVDeletes THEN None
                 ELSE IF \E v \in Val : <<k, v>> \in d.KVUpserts
                      THEN CHOOSE v \in Val : <<k, v>> \in d.KVUpserts
                      ELSE kv[k]]

appliedEscrow(e, d) ==
  IF \E x \in d.EscrowDeltas : x.ID = e.ID
  THEN LET x == CHOOSE x \in d.EscrowDeltas : x.ID = e.ID IN
       [e EXCEPT !.LockedFee = NotBelowZero(@ + x.fee), !.Status = IF x.Status = None THEN @ ELSE x.Status]
  ELSE e

applyWasmStateDelta(s, c, d) ==
  [s EXCEPT
     !.kv[c] = appliedKV(@, d),
     !.contracts[c].Balance = NotBelowZero(@ + d.ContractBalance),
     !.balance = [a \in Account |-> IF a \in DOMAIN d.AccountDeltas
                                    THEN NotBelowZero(@[a] + d.AccountDeltas[a]) ELSE @[a]],
     !.pending = @ \o d.PendingEvents,
     !.subs[c] = IF d.Subscriptions = None THEN @ ELSE d.Subscriptions,
     !.crons[c] = IF d.CronJobs = None THEN @ ELSE d.CronJobs,
     !.nonce = @ + d.NonceDelta,
     !.intents = @ \cup d.NewIntents,
     !.escrows = {appliedEscrow(e, d) : e \in @},
     !.collections = @ \cup d.NewCollections,
     !.records = @ \cup d.NewRecords]
=============================================================================
