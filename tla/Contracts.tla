----------------------------- MODULE Contracts ------------------------------
(***************************************************************************)
(* The life of WASM contracts on two nodes: requests and the jobs of a     *)
(* block run on the node whose turn it is, every other node replays its    *)
(* transactions.  The turn passes with the block.                          *)
(*                                                                         *)
(* Source: internal/chain/{wasm,wasm_cron,wasm_events,block}.go,           *)
(* internal/wasm/runtime.go.                                               *)
(***************************************************************************)
EXTENDS WasmHost

CONSTANTS
  Node,
  Program,          \* the sequences of host calls contracts make
  CronSpec,         \* the jobs a deployment asks for: sequences of methods
  Tokens,           \* what every user has
  Fee,              \* the fee of a request
  Fund,             \* what a request may send along
  Reserve,          \* WasmDefaultCronGasReserve
  MaxHeight,        \* bound: blocks
  MaxRuns           \* bound: executions

ASSUME ContractsAssumption ==
  /\ IsFiniteSet(Node) /\ Cardinality(Node) = 2 /\ Fund \subseteq Nat
  /\ Program \subseteq Seq(HostFunction) /\ CronSpec \subseteq Seq(Method)
  /\ {Tokens, Fee, Reserve, MaxHeight, MaxRuns} \subseteq Nat

VARIABLES
  st,               \* [Node -> WasmState]
  engine,           \* compiled modules in memory; None until the engine is made
  turn,             \* the node that works
  work,             \* where block production is
  height,           \* blocks so far, and their time
  runs,
  doubled,          \* tokens InitFund credited a second time
  gone              \* tokens paid as fee or gas, or added to an escrow

contractVars == <<st, engine, turn, work, height, runs, doubled, gone>>

Idle == [phase |-> "requests", todo |-> {}, contract |-> None, jobs |-> <<>>, i |-> 1,
         events |-> <<>>, waiting |-> {}, remaining |-> <<>>]

blockTime == height

ContractsInit ==
  /\ st = [n \in Node |-> GenesisState(Tokens)]
  /\ engine = [n \in Node |-> None]
  /\ turn \in Node
  /\ work = Idle
  /\ height = 0 /\ runs = 0 /\ doubled = 0 /\ gone = 0

\* Made on first use, with every code the node's state holds.
getWasmEngine(n) ==
  IF engine[n] = None THEN {h \in Code : st[n].codes[h] > 0} ELSE engine[n]

\* The other node.
Peer == CHOOSE n \in Node : n # turn

\* A program of a contract: what it calls, and whether it ends well.
Outcome == Program \X BOOLEAN

\* CallExport: a module that is not compiled fails before its first call.
CallExport(s, c, o, compiled) ==
  IF s.contracts[c].CodeHash \in compiled
  THEN [state |-> Execute(s, c, o[1], blockTime, height), ok |-> o[2], gas |-> Len(o[1])]
  ELSE [state |-> s, ok |-> FALSE, gas |-> 0]

Bounded(s) == runs < MaxRuns /\ s.nonce <= MaxWasmNonce

-----------------------------------------------------------------------------
(* Requests. *)

Pay(s, u, amount) == [s EXCEPT !.balance[u] = @ - amount]

\* The fund is credited to the contract's account and to its own balance.
Deployed(s, u, c, h, fund) ==
  [Pay(s, u, Fee + fund) EXCEPT
     !.balance[c] = @ + fund,
     !.codes[h] = @ + 1,
     !.contracts[c] = [Status |-> "active", Balance |-> fund, CodeHash |-> h, Admin |-> u],
     !.kv[c] = NoKeys]

Register(s, c, methods) ==
  LET with[k \in 0..Len(methods)] ==
        IF k = 0 THEN s ELSE registerWasmCron(with[k - 1], c, methods[k], blockTime)
  IN  with[Len(methods)]

applyDeployContract(s, u, c, h, fund, methods, delta) ==
  [Register(applyWasmStateDelta(Deployed(s, u, c, h, fund), c, delta), c, methods)
     EXCEPT !.nonce = @ + 1]

\* A failed init keeps what it did and marks the contract; replay leaves it active.
DeployContract(u, h, fund, methods, o) ==
  LET s == st[turn]
      c == generateContractAddress(u, s.nonce)
      compiled == getWasmEngine(turn) \cup {h}
      before == [Deployed(s, u, c, h, fund) EXCEPT !.nonce = @ + 1]
      run == CallExport(before, c, o, compiled)
      delta == diffWasmState(before, run.state, c)
      marked == IF run.ok THEN run.state
                ELSE [run.state EXCEPT !.contracts[c].Status = "init_failed"]
  IN  /\ work.phase = "requests" /\ s.nonce < MaxWasmNonce /\ Bounded(run.state)
      /\ s.balance[u] >= Fee + fund
      /\ engine' = [engine EXCEPT ![turn] = compiled]
      /\ st' = [st EXCEPT ![turn] = Register(marked, c, methods),
                          ![Peer] = applyDeployContract(@, u, c, h, fund, methods, delta)]
      /\ doubled' = doubled + fund
      /\ gone' = gone + Fee + EscrowedBy(delta)
      /\ runs' = runs + 1
      /\ UNCHANGED <<turn, work, height>>

applyCallContract(s, u, c, fund, delta) ==
  applyWasmStateDelta([Pay(s, u, Fee + fund) EXCEPT !.contracts[c].Balance = @ + fund], c, delta)

\* A failed call puts everything back, the fee included.
CallContract(u, c, fund, o) ==
  LET s == st[turn]
      compiled == getWasmEngine(turn)
      before == [Pay(s, u, Fee + fund) EXCEPT !.contracts[c].Balance = @ + fund]
      run == CallExport(before, c, o, compiled)
      delta == diffWasmState(before, run.state, c)
  IN  /\ work.phase = "requests" /\ Active(s, c) /\ Bounded(run.state)
      /\ s.balance[u] >= Fee + fund
      /\ engine' = [engine EXCEPT ![turn] = compiled]
      /\ IF run.ok
         THEN /\ st' = [st EXCEPT ![turn] = run.state,
                                  ![Peer] = applyCallContract(@, u, c, fund, delta)]
              /\ gone' = gone + Fee + EscrowedBy(delta)
              /\ runs' = runs + 1
         ELSE UNCHANGED <<st, gone, runs>>
      /\ UNCHANGED <<turn, work, height, doubled>>

\* Mutated: the code goes with the first of its contracts.
applyDestroyContract_code(s, u, c) ==
  [s EXCEPT
     !.balance[u] = @ - Fee + s.contracts[c].Balance,
     !.contracts[c].Balance = 0, !.contracts[c].Status = "destroyed",
     !.crons[c] = <<>>, !.kv[c] = NoKeys,
     !.subs = [d \in Contract |-> IF d = c THEN {} ELSE @[d] \ {c}],
     !.pending = Filtered(@, {e \in WasmPendingEvent : e.EmitterAddress # c}),
     !.codes[s.contracts[c].CodeHash] = 0]

\* On both nodes: the balance goes to the admin, what belonged to the contract goes.
applyDestroyContract(s, u, c) ==
  LET h == s.contracts[c].CodeHash IN
  [s EXCEPT
     !.balance[u] = @ - Fee + s.contracts[c].Balance,
     !.contracts[c].Balance = 0, !.contracts[c].Status = "destroyed",
     !.crons[c] = <<>>, !.kv[c] = NoKeys,
     !.subs = [d \in Contract |-> IF d = c THEN {} ELSE @[d] \ {c}],
     !.pending = Filtered(@, {e \in WasmPendingEvent : e.EmitterAddress # c}),
     !.codes[h] = NotBelowZero(@ - 1)]

DestroyContract(u, c) ==
  /\ work.phase = "requests"
  /\ Active(st[turn], c) /\ st[turn].contracts[c].Admin = u
  /\ st[turn].balance[u] >= Fee
  /\ st' = [n \in Node |-> applyDestroyContract(st[n], u, c)]
  /\ gone' = gone + Fee
  /\ UNCHANGED <<engine, turn, work, height, runs, doubled>>

-----------------------------------------------------------------------------
(* Block production: cron jobs, then events, both within one time budget. *)

BeginBlock ==
  /\ work.phase = "requests" /\ height < MaxHeight
  /\ work' = [Idle EXCEPT !.phase = "cron", !.todo = {c \in Contract : st[turn].crons[c] # <<>>}]
  /\ UNCHANGED <<st, engine, turn, height, runs, doubled, gone>>

\* The jobs of a contract are those it has when its turn comes.
CronContract(c) ==
  /\ work.phase = "cron" /\ work.contract = None /\ c \in work.todo
  /\ work' = IF Active(st[turn], c)
             THEN [work EXCEPT !.todo = @ \ {c}, !.contract = c, !.jobs = st[turn].crons[c], !.i = 1]
             ELSE [work EXCEPT !.todo = @ \ {c}]
  /\ UNCHANGED <<st, engine, turn, height, runs, doubled, gone>>

Due(job) ==
  /\ job.Enabled /\ job.NextDueAt <= blockTime
  /\ st[turn].contracts[work.contract].Balance >= Reserve

AfterRun(job, ok) ==
  LET fails == IF ok THEN 0 ELSE job.FailureCount + 1 IN
  [job EXCEPT !.FailureCount = fails,
              !.Enabled = IF fails >= WasmCronAutoDisable THEN FALSE ELSE @,
              !.NextDueAt = blockTime + Interval]

SkipJob ==
  /\ work.phase = "cron" /\ work.contract # None
  /\ IF work.i <= Len(work.jobs)
     THEN ~Due(work.jobs[work.i]) /\ work' = [work EXCEPT !.i = @ + 1]
     ELSE work' = [work EXCEPT !.contract = None]
  /\ UNCHANGED <<st, engine, turn, height, runs, doubled, gone>>

\* Replay finds the job by its name.
applyWasmCronExec(s, c, job, ok, delta, charged) ==
  LET t == applyWasmStateDelta(s, c, delta) IN
  [t EXCEPT !.contracts[c].Balance = IF @ >= charged THEN @ - charged ELSE @,
            !.crons[c] = [k \in DOMAIN @ |-> IF @[k].MethodName = job.MethodName
                                             THEN AfterRun(@[k], ok) ELSE @[k]]]

Charge(gas, s, c) == Min({gas, s.contracts[c].Balance})

\* The node itself updates the job only where it was.
CronExec(o) ==
  LET s == st[turn]  c == work.contract  i == work.i  job == work.jobs[i]
      run == CallExport(s, c, o, getWasmEngine(turn))
      delta == diffWasmState(s, run.state, c)
      live == run.state.crons[c]
      updated == IF i <= Len(live) /\ live[i].MethodName = job.MethodName
                 THEN [live EXCEPT ![i] = AfterRun(@, run.ok)] ELSE live
      charged == Charge(run.gas, run.state, c)
  IN  /\ work.phase = "cron" /\ c # None /\ i <= Len(work.jobs) /\ Due(job)
      /\ Bounded(run.state)
      /\ engine' = [engine EXCEPT ![turn] = getWasmEngine(turn)]
      /\ st' = [st EXCEPT ![turn] = [run.state EXCEPT !.crons[c] = updated,
                                                      !.contracts[c].Balance = @ - charged],
                          ![Peer] = applyWasmCronExec(@, c, job, run.ok, delta, charged)]
      /\ gone' = gone + charged + EscrowedBy(delta)
      /\ runs' = runs + 1
      /\ work' = [work EXCEPT !.i = @ + 1]
      /\ UNCHANGED <<turn, height, doubled>>

\* All jobs seen: the events follow.
StartEvents ==
  /\ work.phase = "cron" /\ work.contract = None /\ work.todo = {}
  /\ work' = [Idle EXCEPT !.phase = "events", !.events = st[turn].pending,
                          !.waiting = IF st[turn].pending = <<>> THEN {}
                                      ELSE st[turn].pending[1].Subscribers]
  /\ UNCHANGED <<st, engine, turn, height, runs, doubled, gone>>

NextEvent(w) ==
  LET rest == Tail(w.events) IN
  [w EXCEPT !.events = rest, !.waiting = IF rest = <<>> THEN {} ELSE rest[1].Subscribers]

\* An event not yet due stays; one whose subscribers are served is dropped.
PassEvent ==
  /\ work.phase = "events" /\ work.events # <<>>
  /\ LET early == work.events[1].DeliveryBlock > height IN
     /\ early \/ work.waiting = {}
     /\ work' = [NextEvent(work) EXCEPT
                   !.remaining = IF early THEN Append(@, work.events[1]) ELSE @]
  /\ UNCHANGED <<st, engine, turn, height, runs, doubled, gone>>

applyWasmEventDelivery(s, c, delta, charged) ==
  LET t == applyWasmStateDelta(s, c, delta) IN
  [t EXCEPT !.contracts[c].Balance = IF @ >= charged THEN @ - charged ELSE @]

Served(c) == work' = [work EXCEPT !.waiting = @ \ {c}]

\* handle_event of a subscriber; an inactive or poor one is passed over.
DeliverEvent(c, o) ==
  LET s == st[turn]
      run == CallExport(s, c, o, getWasmEngine(turn))
      delta == diffWasmState(s, run.state, c)
      charged == Charge(run.gas, run.state, c)
  IN  /\ work.phase = "events" /\ work.events # <<>> /\ c \in work.waiting
      /\ work.events[1].DeliveryBlock <= height
      /\ IF Active(s, c) /\ s.contracts[c].Balance >= Reserve
         THEN /\ Bounded(run.state)
              /\ engine' = [engine EXCEPT ![turn] = getWasmEngine(turn)]
              /\ st' = [st EXCEPT ![turn] = [run.state EXCEPT !.contracts[c].Balance = @ - charged],
                                  ![Peer] = applyWasmEventDelivery(@, c, delta, charged)]
              /\ gone' = gone + charged + EscrowedBy(delta)
              /\ runs' = runs + 1
         ELSE UNCHANGED <<st, engine, gone, runs>>
      /\ Served(c)
      /\ UNCHANGED <<turn, height, doubled>>

\* The block is made: only the events set aside stay queued here.
EndBlock(kept) ==
  /\ st' = [st EXCEPT ![turn].pending = kept]
  /\ work' = Idle
  /\ height' = height + 1
  /\ turn' \in Node
  /\ UNCHANGED <<engine, runs, doubled, gone>>

ProduceBlock ==
  /\ work.phase = "events" /\ work.events = <<>>
  /\ EndBlock(work.remaining)

\* The budget is spent before an execution: jobs wait, and every event not
\* finished stays, for all its subscribers.
BudgetSpent ==
  \/ /\ work.phase = "cron" /\ work.contract # None /\ work.i <= Len(work.jobs)
     /\ EndBlock(st[turn].pending)
  \/ /\ work.phase = "events" /\ work.waiting # {} /\ work.events # <<>>
     /\ work.events[1].DeliveryBlock <= height
     /\ EndBlock(work.remaining \o work.events)

-----------------------------------------------------------------------------
\* A restart empties the memory, and gives every intent an escrow of its fee.
Restart(n) ==
  /\ work.phase = "requests"
  /\ engine' = [engine EXCEPT ![n] = None]
  /\ st' = [st EXCEPT ![n].escrows = {[ID |-> x.ID, User |-> x.User, LockedFee |-> x.LockedFee,
                                       Status |-> "none"] :
                                        x \in {y \in st[n].intents : y.LockedFee > 0}}]
  /\ UNCHANGED <<turn, work, height, runs, doubled, gone>>

ContractsNext ==
  \/ \E u \in User, h \in Code, fund \in Fund, o \in Outcome :
       \E methods \in CronSpec : DeployContract(u, h, fund, methods, o)
  \/ \E u \in User, c \in Contract, fund \in Fund, o \in Outcome : CallContract(u, c, fund, o)
  \/ \E u \in User, c \in Contract : DestroyContract(u, c)
  \/ BeginBlock \/ SkipJob \/ StartEvents \/ PassEvent \/ ProduceBlock \/ BudgetSpent
  \/ \E c \in Contract : CronContract(c)
  \/ \E o \in Outcome : CronExec(o)
  \/ \E c \in Contract, o \in Outcome : DeliverEvent(c, o)
  \/ \E n \in Node : Restart(n)

ContractsSpec == ContractsInit /\ [][ContractsNext]_contractVars

-----------------------------------------------------------------------------
(* Properties. *)

\* The state a reader of the modules sees: each part in its domain.
ContractsTypeOK ==
  /\ st \in [Node -> WasmState]
  /\ turn \in Node /\ height \in 0..MaxHeight /\ runs \in 0..MaxRuns
  /\ \A n \in Node : engine[n] = None \/ engine[n] \subseteq Code

\* What is replayed: money, stores, codes and every object a contract made are
\* the same on the node that executed and on the node that applied the
\* difference (wasm_delta.go), whoever worked, whatever failed on the way.
ReplicasAgree ==
  \A m, n \in Node :
    /\ st[m].balance = st[n].balance /\ st[m].kv = st[n].kv
    /\ \A c \in Contract : st[m].contracts[c].Balance = st[n].contracts[c].Balance
    /\ st[m].codes = st[n].codes /\ st[m].nonce = st[n].nonce
    /\ st[m].intents = st[n].intents
    /\ st[m].collections = st[n].collections /\ st[m].records = st[n].records

\* The tokens of users, contracts and their intents, with what was paid, are
\* those of the genesis and the second credit of every InitFund: no other
\* execution, failed or replayed, makes or loses any.
WasmSupply ==
  /\ ContractsTypeOK
  /\ \A n \in Node :
    SumFunctionOnSet(st[n].balance, Account)
      + SumFunctionOnSet([c \in Contract |-> st[n].contracts[c].Balance], Contract)
      + SumFunctionOnSet([x \in st[n].intents |-> x.LockedFee], st[n].intents) + gone
    = Cardinality(User) * Tokens + doubled

\* A code is counted once for each contract that runs it and is not destroyed,
\* so destroying one never takes the code from another (wasm.go, RefCount).
CodeForEveryContract ==
  \A n \in Node, h \in Code :
    st[n].codes[h] = Cardinality({c \in Contract : /\ st[n].contracts[c].CodeHash = h
                                                   /\ st[n].contracts[c].Status # "destroyed"})

\* A destroyed contract leaves no job, no store, no subscription and no queued
\* event of its own, on any node, during a block or after.
DestroyedLeavesNothing ==
  \A n \in Node, c \in Contract :
    st[n].contracts[c].Status = "destroyed" =>
      /\ st[n].crons[c] = <<>> /\ st[n].kv[c] = NoKeys /\ st[n].subs[c] = {}
      /\ st[n].contracts[c].Balance = 0
      /\ \A k \in DOMAIN st[n].pending : st[n].pending[k].EmitterAddress # c

\* Destroying a contract takes from the node all that was its own, and nothing of others.
DestroyedCleanly == CodeForEveryContract /\ DestroyedLeavesNothing
=============================================================================
