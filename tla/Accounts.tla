------------------------------ MODULE Accounts ------------------------------
(***************************************************************************)
(* The accounts of one node, which bridge, multisig wallets and agent keys *)
(* share: a balance, a nonce, and the chain's clock.                       *)
(*                                                                         *)
(* Source: internal/chain/{state,request_auth}.go, internal/wire/types.go. *)
(***************************************************************************)
EXTENDS Integers, FiniteSets, FiniteSetsExt, Sequences, Functions

CONSTANTS
  None,
  Account,          \* every address that ever holds tokens
  Client,           \* the accounts whose owners send requests
  GenesisTokens,    \* [Account -> Nat]: balances at the start
  MaxNonce,         \* bound: requests of one account
  MaxTime           \* bound: the clock

ASSUME AccountAssumption ==
  /\ IsFiniteSet(Account) /\ Client \subseteq Account
  /\ GenesisTokens \in [Account -> Nat]
  /\ MaxNonce \in Nat /\ MaxTime \in Nat
  /\ None \notin Account

VARIABLES
  balance,
  lockedStorage,    \* LockedStorage: what is locked for files
  nonce,
  now               \* consensusTimeLocked: the time of the last block

accountVars == <<balance, lockedStorage, nonce, now>>

AccountsTypeOK ==
  /\ balance \in [Account -> Nat] /\ lockedStorage \in [Account -> Nat]
  /\ nonce \in [Account -> 0..MaxNonce]
  /\ now \in 0..MaxTime

AccountsInit ==
  /\ balance = GenesisTokens
  /\ lockedStorage = [a \in Account |-> 0]
  /\ nonce = [a \in Account |-> 0]
  /\ now = 0

Tokens == SumFunctionOnSet(balance, Account) + SumFunctionOnSet(lockedStorage, Account)

GenesisSupply == SumFunctionOnSet(GenesisTokens, Account)

\* The request carries the account's nonce and uses it up.
consumeAccountNonce(a) ==
  /\ nonce[a] < MaxNonce
  /\ nonce' = [nonce EXCEPT ![a] = @ + 1]

\* A block brings a later time.
NextBlock ==
  /\ now < MaxTime
  /\ now' = now + 1
  /\ UNCHANGED <<balance, lockedStorage, nonce>>
=============================================================================
