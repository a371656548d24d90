---------------------------- MODULE MCContracts -----------------------------
(***************************************************************************)
(* A small instance of the contracts: one user, two nodes, and programs    *)
(* that between them make every host call that changes state.              *)
(***************************************************************************)
EXTENDS Contracts, TLC

CONSTANTS alice, h1, tick, tock, left, right

First == generateContractAddress(alice, 0)

Store == <<[op |-> "kv_set", key |-> "k", val |-> 1], [op |-> "kv_set", key |-> "l", val |-> 1]>>
Forget == <<[op |-> "kv_delete", key |-> "k"], [op |-> "exec_transfer", to |-> alice, amount |-> 1]>>
Listen == <<[op |-> "subscribe_event", emitter |-> First], [op |-> "emit_event"],
            [op |-> "exec_transfer", to |-> First, amount |-> 1]>>
Swap == <<[op |-> "unregister_cron", method |-> tick], [op |-> "register_cron", method |-> tock]>>
Upload == <<[op |-> "exec_create_intent", amount |-> 1], [op |-> "exec_renew_deal", amount |-> 1]>>
Collect == <<[op |-> "exec_create_collection"], [op |-> "exec_append_record"],
             [op |-> "exec_terminate_deal"]>>

SomePrograms == {Store, Forget, Listen, Swap, Upload, Collect}

Jobs == {<<>>, <<tick>>}

Names == Permutations(Node)
=============================================================================
