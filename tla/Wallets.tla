------------------------------- MODULE Wallets -------------------------------
(***************************************************************************)
(* Bridge, multisig wallets and agent keys at work on the same accounts:   *)
(* one node's State, whose lock every request and every block takes, so    *)
(* that one of the three moves at a time.                                  *)
(*                                                                         *)
(* Source: internal/chain/{state,bridge,multisig,agent_key}.go.            *)
(***************************************************************************)
EXTENDS Bridge, Multisig, AgentKey

\* The pool's address is the hash of a name, a wallet's the hash of its signers.
ASSUME WalletsAssumption == Pool \notin Wallet

walletsVars == <<accountVars, bridgeVars, multisigVars, agentVars>>

WalletsInit == AccountsInit /\ BridgeInit /\ MultisigInit /\ AgentInit

WalletsNext ==
  \/ BridgeNext /\ UNCHANGED <<multisigVars, agentVars>>
  \/ MultisigNext /\ UNCHANGED <<bridgeVars, agentVars>>
  \/ AgentNext /\ UNCHANGED <<bridgeVars, multisigVars>>

WalletsSpec == WalletsInit /\ [][WalletsNext]_walletsVars
=============================================================================
