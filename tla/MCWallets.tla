----------------------------- MODULE MCWallets ------------------------------
(***************************************************************************)
(* A small instance of the bridge, the multisig wallets, the agent keys    *)
(* and what users write down.  They share the accounts at most, so a       *)
(* behaviour has one of them at work.                                      *)
(***************************************************************************)
EXTENDS Wallets, Records, TLC

CONSTANTS alice, bob, carol  \* two clients, and one more signer
CONSTANTS pool
CONSTANTS tx1, tx2           \* burns
CONSTANTS k1, k2             \* keys
CONSTANTS n1, n2             \* nodes
CONSTANTS miner

VARIABLE part

\* The nodes are alike, and so are the burns.
Alike == Permutations({n1, n2}) \cup Permutations({tx1, tx2})

vars == <<accountVars, bridgeVars, multisigVars, agentVars, recordsVars, part>>

\* The wallet of three signers, two of whom act.
Joint == [Signers |-> {alice, bob, carol}, Threshold |-> 2, Salt |-> 0]
\* A wallet made by a block, which no two signers can open.
Odd == [Signers |-> {alice, bob}, Threshold |-> 3, Salt |-> 0]
Joints == {Joint, Odd}
Holders == {alice, bob, pool, Joint, Odd}
SomeEach == [a \in Account |-> IF a \in {pool, Odd} THEN 0 ELSE 4]

\* Two files, one encrypted and ready to be written about, one neither.
Files == {[user |-> alice, encrypted |-> TRUE, finalized |-> TRUE],
          [user |-> alice, encrypted |-> FALSE, finalized |-> FALSE]}
Receipts == {[id |-> 1, miner |-> miner]}

Init ==
  /\ AccountsInit /\ BridgeInit /\ MultisigInit /\ AgentInit /\ RecordsInit
  /\ part \in {"bridge", "multisig", "agent", "records"}

BridgeStep == part = "bridge" /\ BridgeNext /\ UNCHANGED <<multisigVars, agentVars, recordsVars, part>>
MultisigStep == part = "multisig" /\ MultisigNext /\ UNCHANGED <<bridgeVars, agentVars, recordsVars, part>>
AgentStep == part = "agent" /\ AgentNext /\ UNCHANGED <<bridgeVars, multisigVars, recordsVars, part>>

RecordsStep ==
  part = "records" /\ RecordsNext
  /\ UNCHANGED <<accountVars, bridgeVars, multisigVars, agentVars, part>>

Next == BridgeStep \/ MultisigStep \/ AgentStep \/ RecordsStep

Spec == Init /\ [][Next]_vars
=============================================================================
