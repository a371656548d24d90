------------------------------ MODULE Multisig ------------------------------
(***************************************************************************)
(* Wallets that act when enough of their signers have signed.              *)
(*                                                                         *)
(* Source: internal/chain/multisig.go, internal/wire/multisig.go.          *)
(*                                                                         *)
(* Data abstraction.  A wallet's address is a hash of its first signers,   *)
(* threshold and salt, so here it is that triple.  The signatures of a     *)
(* request are the set of those who signed it: wallet, operation, nonce    *)
(* and fee are all in the signed hash.  A request of a client is executed  *)
(* by MultisigExec, one that comes in a block by applyMultisigExecLocked.  *)
(***************************************************************************)
EXTENDS Accounts

CONSTANTS
  Wallet,           \* the wallets' addresses, accounts of the form described above
  Signer,
  Payment,          \* amounts wallets pay or lock
  ExecFee,          \* the fee of a request, at least the base fee
  MaxExec           \* bound: operations of one wallet

ASSUME MultisigAssumption ==
  /\ Wallet \subseteq Account
  /\ IsFiniteSet(Signer)
  /\ \A w \in Wallet : w \in [Signers : SUBSET Signer, Threshold : Nat, Salt : Nat]
  /\ Payment \subseteq Nat \ {0} /\ ExecFee \in Nat /\ MaxExec \in Nat

VARIABLES
  wallets,          \* MultisigWallets
  walletIntents,    \* history: what wallets have locked for storage
  feesTaken,        \* history: what wallets have paid as fees
  selfPaid          \* history: a wallet has paid itself

multisigVars == <<wallets, walletIntents, feesTaken, selfPaid>>

-----------------------------------------------------------------------------
MultisigWallet == [Signers : SUBSET Signer, Threshold : Nat, Nonce : Nat]

MultisigTypeOK ==
  /\ wallets \in [Wallet -> MultisigWallet \cup {None}]
  /\ walletIntents \in Nat /\ feesTaken \in Nat /\ selfPaid \in BOOLEAN

MultisigInit ==
  /\ wallets = [w \in Wallet |-> None]
  /\ walletIntents = 0 /\ feesTaken = 0 /\ selfPaid = FALSE

\* Signers are distinct, at least two; the threshold is one they can reach.
validSigners(S, t) == Cardinality(S) >= 2 /\ t >= 2 /\ t <= Cardinality(S)

\* Distinct signers of the wallet, as many as its threshold.
verifyMultisigExecSignatures(w, S) ==
  /\ S \subseteq wallets[w].Signers
  /\ Cardinality(S) >= wallets[w].Threshold

-----------------------------------------------------------------------------
\* CreateMultisigWallet, signed by one of the signers.
CreateMultisigWallet(w) ==
  /\ wallets[w] = None
  /\ validSigners(w.Signers, w.Threshold)
  /\ wallets' = [wallets EXCEPT ![w] = [Signers |-> w.Signers, Threshold |-> w.Threshold,
                                        Nonce |-> 0]]
  /\ UNCHANGED <<balance, lockedStorage, nonce, now, walletIntents, feesTaken, selfPaid>>

\* In a block the wallet is taken from the payload, its nonce included; only the
\* address is computed again.
applyCreateMultisig(w) ==
  /\ wallets[w] = None
  /\ \E n \in 0..1 :
       wallets' = [wallets EXCEPT ![w] = [Signers |-> w.Signers, Threshold |-> w.Threshold,
                                          Nonce |-> n]]
  /\ UNCHANGED <<balance, lockedStorage, nonce, now, walletIntents, feesTaken, selfPaid>>

\* Mutated: the payee's account is written first.
paidFrom_swapped(b, w, to, x) ==
  LET from == b[w] - x
      dest == b[to] + x
  IN  [[b EXCEPT ![to] = dest] EXCEPT ![w] = from]

\* Both accounts are read, then the payer's is written, then the payee's.
paidFrom(b, w, to, x) ==
  LET from == b[w] - (x + ExecFee)
      dest == b[to] + x
  IN  [[b EXCEPT ![w] = from] EXCEPT ![to] = dest]

ExecTransfer(w) ==
  \E to \in Account, x \in Payment :
    /\ balance[w] >= x + ExecFee
    /\ balance' = paidFrom(balance, w, to, x)
    /\ selfPaid' = (selfPaid \/ to = w)
    /\ feesTaken' = feesTaken + ExecFee
    /\ wallets' = [wallets EXCEPT ![w].Nonce = @ + 1]
    /\ UNCHANGED walletIntents

\* The payees are credited one by one; the wallet's account, read before, comes last.
ExecBatchTransfer(w) ==
  \E to1, to2 \in Account, x, y \in Payment :
    LET one == [balance EXCEPT ![to1] = @ + x]
        two == [one EXCEPT ![to2] = @ + y]
    IN  /\ balance[w] >= x + y + ExecFee
        /\ balance' = [two EXCEPT ![w] = balance[w] - (x + y + ExecFee)]
        /\ selfPaid' = (selfPaid \/ w \in {to1, to2})
        /\ feesTaken' = feesTaken + ExecFee
        /\ wallets' = [wallets EXCEPT ![w].Nonce = @ + 1]
        /\ UNCHANGED walletIntents

\* The fee of an intent leaves the balance and is locked nowhere but in the intent.
ExecCreateIntent(w) ==
  \E x \in Payment :
    /\ balance[w] >= x + ExecFee
    /\ balance' = [balance EXCEPT ![w] = @ - (x + ExecFee)]
    /\ walletIntents' = walletIntents + x
    /\ feesTaken' = feesTaken + ExecFee
    /\ wallets' = [wallets EXCEPT ![w].Nonce = @ + 1]
    /\ UNCHANGED selfPaid

\* The two operations on the wallet itself take no fee.
ExecUpdateSigners(w) ==
  \E S \in SUBSET Signer, t \in 0..Cardinality(Signer) :
    /\ validSigners(S, t)
    /\ wallets' = [wallets EXCEPT ![w] = [Signers |-> S, Threshold |-> t, Nonce |-> @.Nonce + 1]]
    /\ UNCHANGED <<balance, walletIntents, feesTaken, selfPaid>>

\* Mutated: the threshold is only held against the most signers a wallet may have.
ExecUpdateThreshold_unbounded(w, least) ==
  \E t \in 0..Cardinality(Signer) :
    /\ t >= least
    /\ wallets' = [wallets EXCEPT ![w] = [Signers |-> @.Signers, Threshold |-> t,
                                          Nonce |-> @.Nonce + 1]]
    /\ UNCHANGED <<balance, walletIntents, feesTaken, selfPaid>>

ExecUpdateThreshold(w, least) ==
  \E t \in 0..Cardinality(Signer) :
    /\ t >= least /\ t <= Cardinality(wallets[w].Signers)
    /\ wallets' = [wallets EXCEPT ![w] = [Signers |-> @.Signers, Threshold |-> t,
                                          Nonce |-> @.Nonce + 1]]
    /\ UNCHANGED <<balance, walletIntents, feesTaken, selfPaid>>

ExecOperation(w, leastThreshold) ==
  \/ ExecTransfer(w)
  \/ ExecBatchTransfer(w)
  \/ ExecCreateIntent(w)
  \/ ExecUpdateSigners(w)
  \/ ExecUpdateThreshold(w, leastThreshold)

\* A request that names the wallet's nonce, signed by S.
MayExec(w, S) ==
  /\ wallets[w] # None
  /\ wallets[w].Nonce < MaxExec
  /\ verifyMultisigExecSignatures(w, S)

MultisigExec(w, S) ==
  /\ MayExec(w, S)
  /\ ExecOperation(w, 2)
  /\ UNCHANGED <<lockedStorage, nonce, now>>

\* In a block a threshold of one passes as well.
applyMultisigExec(w, S) ==
  /\ MayExec(w, S)
  /\ ExecOperation(w, 1)
  /\ UNCHANGED <<lockedStorage, nonce, now>>

MultisigNext ==
  \E w \in Wallet :
    \/ CreateMultisigWallet(w) \/ applyCreateMultisig(w)
    \/ \E S \in SUBSET Signer : MultisigExec(w, S) \/ applyMultisigExec(w, S)

-----------------------------------------------------------------------------
\* A wallet that could act when it was made can always act again: its signers are as
\* many as its threshold asks for, after any sequence of changes to either on either
\* path.
WalletNeverStuck ==
  \A w \in Wallet : wallets[w] # None /\ validSigners(w.Signers, w.Threshold) =>
    wallets[w].Threshold \in 1..Cardinality(wallets[w].Signers)

\* Payments and locks only move tokens, unless a wallet pays itself: then the copy of
\* the account that is written last wins, and tokens appear (transfer) or vanish
\* (batch_transfer).  No account goes below zero in either case.
WalletsConserve ==
  /\ AccountsTypeOK /\ MultisigTypeOK
  /\ ~selfPaid => Tokens + walletIntents + feesTaken = GenesisSupply
=============================================================================
