----------------------------- MODULE WalletProofs -----------------------------
(***************************************************************************)
(* What bridge, multisig wallets and agent keys promise, for any accounts, *)
(* amounts, limits and bounds, while all of them work on the same accounts;*)
(* and what module Records promises: what clients write down arrives on    *)
(* every node as it was meant, for any number of nodes and transactions.   *)
(***************************************************************************)
EXTENDS Wallets, Records, Lemmas

-----------------------------------------------------------------------------
(***************************************************************************)
(* Types                                                                   *)
(***************************************************************************)
TypeInv == AccountsTypeOK /\ BridgeTypeOK /\ MultisigTypeOK /\ AgentTypeOK

\* Rolling the window over changes its start and its amount only.
LEMMA RolledWindow ==
  ASSUME AccountsTypeOK, NEW c \in BridgeConfig
  PROVE  /\ rolledWindow(c) \in BridgeConfig
         /\ rolledWindow(c).MaxAmountPerDay = c.MaxAmountPerDay
         /\ rolledWindow(c).DelaySeconds = c.DelaySeconds
         /\ IF now - c.DayStartUnix >= Day
            THEN rolledWindow(c).DayStartUnix = now /\ rolledWindow(c).CurrentDayAmount = 0
            ELSE rolledWindow(c) = c
<1>1. now \in Nat /\ Day \in Nat
  BY AccountAssumption, BridgeAssumption DEF AccountsTypeOK
<1>2. CASE now - c.DayStartUnix >= Day
  BY <1>1, <1>2 DEF rolledWindow, BridgeConfig
<1>3. CASE ~(now - c.DayStartUnix >= Day)
  BY <1>3 DEF rolledWindow
<1> QED
  BY <1>2, <1>3

\* A bridge-out keeps the types of the bridge.
LEMMA BridgeOutType ==
  ASSUME TypeInv, NEW a \in Client, BridgeOut(a)
  PROVE  AccountsTypeOK' /\ BridgeTypeOK'
<1> USE AccountAssumption, BridgeAssumption DEF TypeInv
<1>1. PICK x \in BridgeAmount :
        LET c == rolledWindow(bridgeConfig)
        IN  /\ withinDay(c, x)
            /\ balance[a] >= x + BridgeFee
            /\ consumeAccountNonce(a)
            /\ balance' = [balance EXCEPT ![a] = @ - (x + BridgeFee),
                                          ![Pool] = @ + x + BridgeFee]
            /\ outbounds' = Append(outbounds,
                 [Sender |-> a, Amount |-> x, Fee |-> BridgeFee, LockedAtUnix |-> now,
                  ClaimableAfter |-> now + c.DelaySeconds])
            /\ bridgeConfig' = [c EXCEPT !.CurrentDayAmount = @ + x]
            /\ moved' = [moved EXCEPT ![now] = @ + x]
  BY DEF BridgeOut
<1>2. bridgeConfig \in BridgeConfig
  BY DEF BridgeOut, BridgeOpen, BridgeTypeOK
<1> DEFINE c == rolledWindow(bridgeConfig)
<1>3. c \in BridgeConfig
  BY <1>2, RolledWindow
<1>4. UNCHANGED <<inbounds, consumed, now, lockedStorage>>
  BY DEF BridgeOut
<1>5. x \in Nat /\ BridgeFee \in Nat /\ a \in Account /\ now \in Nat
  BY DEF AccountsTypeOK
<1>6. AccountsTypeOK'
  <2>1. /\ balance[a] >= x + BridgeFee
        /\ balance' = [balance EXCEPT ![a] = @ - (x + BridgeFee), ![Pool] = @ + x + BridgeFee]
        /\ nonce[a] < MaxNonce /\ nonce' = [nonce EXCEPT ![a] = @ + 1]
    BY <1>1 DEF consumeAccountNonce
  <2>2. balance' \in [Account -> Nat]
    BY <1>5, <2>1 DEF AccountsTypeOK
  <2>3. nonce' \in [Account -> 0..MaxNonce]
    BY <1>5, <2>1 DEF AccountsTypeOK
  <2> QED
    BY <1>4, <2>2, <2>3 DEF AccountsTypeOK
<1>7. bridgeConfig' \in BridgeConfig
  <2>1. bridgeConfig' = [c EXCEPT !.CurrentDayAmount = @ + x]
    BY <1>1
  <2> HIDE DEF c
  <2> QED
    BY <1>3, <1>5, <2>1 DEF BridgeConfig
<1>8. outbounds' \in Seq(BridgeOutbound)
  <2>1. [Sender |-> a, Amount |-> x, Fee |-> BridgeFee, LockedAtUnix |-> now,
         ClaimableAfter |-> now + c.DelaySeconds] \in BridgeOutbound
    <3> HIDE DEF c
    <3> QED
      BY <1>3, <1>5 DEF BridgeConfig, BridgeOutbound
  <2> QED
    BY <1>1, <2>1 DEF BridgeTypeOK
<1>9. moved' \in [0..MaxTime -> Nat]
  <2>1. moved \in [0..MaxTime -> Nat] /\ now \in 0..MaxTime
    BY DEF BridgeTypeOK, AccountsTypeOK
  <2>2. moved' = [moved EXCEPT ![now] = @ + x]
    BY <1>1
  <2> QED
    BY <1>5, <2>1, <2>2
<1> QED
  BY <1>4, <1>6, <1>7, <1>8, <1>9 DEF BridgeTypeOK

\* So does a claim.
LEMMA BridgeClaimType ==
  ASSUME TypeInv, NEW req \in BridgeInClaimRequest, BridgeClaim(req)
  PROVE  AccountsTypeOK' /\ BridgeTypeOK'
<1> USE AccountAssumption, BridgeAssumption DEF TypeInv
<1>1. bridgeConfig \in BridgeConfig
  BY DEF BridgeClaim, BridgeOpen, BridgeTypeOK
<1> DEFINE c == rolledWindow(bridgeConfig)
<1>2. c \in BridgeConfig
  BY <1>1, RolledWindow
<1>3. /\ balance[Pool] >= req.Amount
      /\ balance' = [balance EXCEPT ![Pool] = @ - req.Amount,
                                    ![req.Recipient] = @ + req.Amount]
      /\ inbounds' = [inbounds EXCEPT ![req.SourceTxHash] =
                        [Recipient |-> req.Recipient, Amount |-> req.Amount]]
      /\ consumed' = consumed \cup {req}
      /\ bridgeConfig' = [c EXCEPT !.CurrentDayAmount = @ + req.Amount]
      /\ moved' = [moved EXCEPT ![now] = @ + req.Amount]
      /\ UNCHANGED <<lockedStorage, nonce, now, outbounds>>
  BY DEF BridgeClaim
<1>4. /\ req.Amount \in Nat /\ req.Recipient \in Account /\ req.Recipient # Pool
      /\ req.SourceTxHash \in SourceTx
  BY DEF BridgeInClaimRequest
<1>5. AccountsTypeOK'
  BY <1>3, <1>4 DEF AccountsTypeOK
<1>6. bridgeConfig' \in BridgeConfig
  <2> HIDE DEF c
  <2> QED
    BY <1>2, <1>3, <1>4 DEF BridgeConfig, c
<1>7. inbounds' \in [SourceTx -> BridgeInbound \cup {None}]
  BY <1>3, <1>4 DEF BridgeTypeOK, BridgeInbound
<1>8. moved' \in [0..MaxTime -> Nat]
  <2>1. moved \in [0..MaxTime -> Nat] /\ now \in 0..MaxTime
    BY DEF BridgeTypeOK, AccountsTypeOK
  <2>2. moved' = [moved EXCEPT ![now] = @ + req.Amount]
    BY <1>3
  <2> QED
    BY <1>4, <2>1, <2>2
<1>9. consumed' \subseteq BridgeInClaimRequest \cup BridgeSetConfigRequest
  BY <1>3 DEF BridgeTypeOK
<1> QED
  BY <1>3, <1>5, <1>6, <1>7, <1>8, <1>9 DEF BridgeTypeOK

\* The largest limit governance may set.
LEMMA MaximumLimit ==
  /\ Max(DailyMaximum) \in DailyMaximum
  /\ \A x \in DailyMaximum : x <= Max(DailyMaximum)
  /\ Max(DailyMaximum) \in Nat
<1>1. \E m \in DailyMaximum : \A x \in DailyMaximum : m >= x
  BY BridgeAssumption, MaximumExists
<1> QED
  BY <1>1, BridgeAssumption DEF Max

\* So does a change of the configuration.
LEMMA BridgeSetConfigType ==
  ASSUME TypeInv, NEW req \in BridgeSetConfigRequest, NEW r \in Relayer, BridgeSetConfig(req, r)
  PROVE  AccountsTypeOK' /\ BridgeTypeOK'
<1> USE AccountAssumption, BridgeAssumption DEF TypeInv
<1>1. UNCHANGED <<balance, lockedStorage, nonce, now, outbounds, inbounds, moved>>
  BY DEF BridgeSetConfig
<1>2. consumed' \subseteq BridgeInClaimRequest \cup BridgeSetConfigRequest
  BY DEF BridgeSetConfig, BridgeTypeOK
<1>3. bridgeConfig' \in BridgeConfig
  <2>1. CASE /\ bridgeConfig # None
             /\ bridgeConfig' = [bridgeConfig EXCEPT !.Paused = (req.Action = "pause")]
    BY <2>1 DEF BridgeTypeOK, BridgeConfig
  <2>2. CASE /\ req.Action = "update_config"
             /\ bridgeConfig' = [proposedConfig EXCEPT !.RelayerAddress = r,
                                                       !.MaxAmountPerDay = req.MaxAmountPerDay]
    <3>1. req.MaxAmountPerDay \in Nat
      BY <2>2 DEF BridgeSetConfigRequest
    <3>2. proposedConfig \in BridgeConfig
      BY MaximumLimit DEF proposedConfig, BridgeConfig, BridgeTypeOK, AccountsTypeOK
    <3> QED
      BY <2>2, <3>1, <3>2 DEF BridgeConfig
  <2> QED
    BY <2>1, <2>2 DEF BridgeSetConfig
<1> QED
  BY <1>1, <1>2, <1>3 DEF AccountsTypeOK, BridgeTypeOK

\* The bridge's steps keep the types.
LEMMA BridgeTypes ==
  ASSUME TypeInv, BridgeNext, UNCHANGED <<multisigVars, agentVars>>
  PROVE  TypeInv'
<1> USE DEF TypeInv
<1>1. MultisigTypeOK' /\ AgentTypeOK'
  BY DEF multisigVars, agentVars, MultisigTypeOK, AgentTypeOK
<1>2. ASSUME NEW a \in Client, BridgeOut(a) PROVE AccountsTypeOK' /\ BridgeTypeOK'
  BY <1>2, BridgeOutType
<1>3. CASE BridgeRefused
  <2>1. bridgeConfig \in BridgeConfig /\ bridgeConfig' = rolledWindow(bridgeConfig)
    BY <1>3 DEF BridgeRefused, BridgeOpen, BridgeTypeOK
  <2>2. bridgeConfig' \in BridgeConfig
    BY <2>1, RolledWindow
  <2> QED
    BY <1>1, <1>3, <2>2 DEF BridgeRefused, AccountsTypeOK, BridgeTypeOK
<1>4. ASSUME NEW req \in BridgeInClaimRequest, BridgeClaim(req)
      PROVE  AccountsTypeOK' /\ BridgeTypeOK'
  BY <1>4, BridgeClaimType
<1>5. ASSUME NEW req \in BridgeSetConfigRequest, NEW r \in Relayer, BridgeSetConfig(req, r)
      PROVE  AccountsTypeOK' /\ BridgeTypeOK'
  BY <1>5, BridgeSetConfigType
<1>6. CASE NextBlock /\ UNCHANGED bridgeVars
  <2>1. AccountsTypeOK'
    BY <1>6, AccountAssumption DEF NextBlock, AccountsTypeOK
  <2>2. BridgeTypeOK'
    BY <1>6 DEF bridgeVars, BridgeTypeOK
  <2> QED
    BY <1>1, <2>1, <2>2
<1> QED
  BY <1>1, <1>2, <1>3, <1>4, <1>5, <1>6 DEF BridgeNext

\* Paying out of a wallet leaves balances.
LEMMA PaidFromType ==
  ASSUME NEW w \in Wallet, NEW to \in Account, NEW x \in Payment, AccountsTypeOK,
         balance[w] >= x + ExecFee
  PROVE  paidFrom(balance, w, to, x) \in [Account -> Nat]
<1>1. w \in Account /\ x \in Nat /\ ExecFee \in Nat
  BY MultisigAssumption
<1>2. balance[w] \in Nat /\ balance[to] \in Nat
  BY <1>1 DEF AccountsTypeOK
<1>3. balance[w] - (x + ExecFee) \in Nat /\ balance[to] + x \in Nat
  BY <1>1, <1>2
<1> QED
  BY <1>1, <1>3 DEF AccountsTypeOK, paidFrom

\* What an operation does to the wallet that performs it.
LEMMA OperationType ==
  ASSUME TypeInv, NEW w \in Wallet, wallets[w] # None, NEW least \in Nat, ExecOperation(w, least)
  PROVE  balance' \in [Account -> Nat] /\ MultisigTypeOK'
<1> USE MultisigAssumption DEF TypeInv
<1>1. wallets[w] \in MultisigWallet /\ w \in Account /\ ExecFee \in Nat /\ Payment \subseteq Nat
  BY DEF MultisigTypeOK
<1>2. ASSUME wallets' = [wallets EXCEPT ![w].Nonce = @ + 1]
      PROVE  wallets' \in [Wallet -> MultisigWallet \cup {None}]
  <2>1. [wallets[w] EXCEPT !.Nonce = @ + 1] \in MultisigWallet
    BY <1>1 DEF MultisigWallet
  <2> QED
    BY <1>2, <2>1 DEF MultisigTypeOK
<1>3. CASE ExecTransfer(w)
  <2>1. PICK to \in Account, x \in Payment :
          /\ balance[w] >= x + ExecFee
          /\ balance' = paidFrom(balance, w, to, x)
    BY <1>3 DEF ExecTransfer
  <2>2. balance' \in [Account -> Nat]
    BY <2>1, PaidFromType
  <2>3. /\ wallets' = [wallets EXCEPT ![w].Nonce = @ + 1] /\ UNCHANGED walletIntents
        /\ feesTaken' = feesTaken + ExecFee /\ selfPaid' \in BOOLEAN
    BY <1>3 DEF ExecTransfer, MultisigTypeOK
  <2> QED
    BY <1>1, <1>2, <2>2, <2>3 DEF MultisigTypeOK
<1>4. CASE ExecBatchTransfer(w)
  <2>1. PICK to1, to2 \in Account, x, y \in Payment :
          LET one == [balance EXCEPT ![to1] = @ + x]
              two == [one EXCEPT ![to2] = @ + y]
          IN  /\ balance[w] >= x + y + ExecFee
              /\ balance' = [two EXCEPT ![w] = balance[w] - (x + y + ExecFee)]
              /\ selfPaid' = (selfPaid \/ w \in {to1, to2})
              /\ feesTaken' = feesTaken + ExecFee
              /\ wallets' = [wallets EXCEPT ![w].Nonce = @ + 1]
              /\ UNCHANGED walletIntents
    BY <1>4 DEF ExecBatchTransfer
  <2>2. x \in Nat /\ y \in Nat /\ balance \in [Account -> Nat]
    BY <1>1 DEF AccountsTypeOK
  <2>3. [balance EXCEPT ![to1] = @ + x] \in [Account -> Nat]
    BY <2>2
  <2>4. [[balance EXCEPT ![to1] = @ + x] EXCEPT ![to2] = @ + y] \in [Account -> Nat]
    BY <2>2, <2>3
  <2>5. balance[w] - (x + y + ExecFee) \in Nat
    BY <1>1, <2>1, <2>2
  <2>6. balance' \in [Account -> Nat]
    BY <1>1, <2>1, <2>4, <2>5
  <2>7. /\ wallets' = [wallets EXCEPT ![w].Nonce = @ + 1] /\ UNCHANGED walletIntents
        /\ feesTaken' = feesTaken + ExecFee /\ selfPaid' \in BOOLEAN
    BY <1>4 DEF ExecBatchTransfer, MultisigTypeOK
  <2> QED
    BY <1>1, <1>2, <2>6, <2>7 DEF MultisigTypeOK
<1>5. CASE ExecCreateIntent(w)
  <2>1. PICK x \in Payment :
          /\ balance[w] >= x + ExecFee
          /\ balance' = [balance EXCEPT ![w] = @ - (x + ExecFee)]
          /\ walletIntents' = walletIntents + x
    BY <1>5 DEF ExecCreateIntent
  <2>2. balance' \in [Account -> Nat] /\ walletIntents' \in Nat
    BY <1>1, <2>1 DEF AccountsTypeOK, MultisigTypeOK
  <2>3. /\ wallets' = [wallets EXCEPT ![w].Nonce = @ + 1] /\ UNCHANGED selfPaid
        /\ feesTaken' = feesTaken + ExecFee
    BY <1>5 DEF ExecCreateIntent
  <2> QED
    BY <1>1, <1>2, <2>2, <2>3 DEF MultisigTypeOK
<1>6. CASE ExecUpdateSigners(w)
  <2>1. PICK S \in SUBSET Signer, t \in 0..Cardinality(Signer) :
          wallets' = [wallets EXCEPT ![w] = [Signers |-> S, Threshold |-> t, Nonce |-> @.Nonce + 1]]
    BY <1>6 DEF ExecUpdateSigners
  <2>2. Cardinality(Signer) \in Nat
    BY FS_CardinalityType
  <2>3. [Signers |-> S, Threshold |-> t, Nonce |-> wallets[w].Nonce + 1] \in MultisigWallet
    BY <1>1, <2>2 DEF MultisigWallet
  <2>4. UNCHANGED <<balance, walletIntents, feesTaken, selfPaid>>
    BY <1>6 DEF ExecUpdateSigners
  <2> QED
    BY <2>1, <2>3, <2>4 DEF MultisigTypeOK, AccountsTypeOK
<1>7. CASE ExecUpdateThreshold(w, least)
  <2>1. PICK t \in 0..Cardinality(Signer) :
          wallets' = [wallets EXCEPT ![w] = [Signers |-> @.Signers, Threshold |-> t,
                                             Nonce |-> @.Nonce + 1]]
    BY <1>7 DEF ExecUpdateThreshold
  <2>2. t \in Nat
    BY FS_CardinalityType
  <2>3. [Signers |-> wallets[w].Signers, Threshold |-> t, Nonce |-> wallets[w].Nonce + 1]
          \in MultisigWallet
    BY <1>1, <2>2 DEF MultisigWallet
  <2>5. UNCHANGED <<balance, walletIntents, feesTaken, selfPaid>>
    BY <1>7 DEF ExecUpdateThreshold
  <2> QED
    BY <2>1, <2>3, <2>5 DEF MultisigTypeOK, AccountsTypeOK
<1> QED
  BY <1>3, <1>4, <1>5, <1>6, <1>7 DEF ExecOperation

\* The wallets' steps: one is made, or one acts.
LEMMA MultisigStep ==
  ASSUME MultisigNext
  PROVE  \E w \in Wallet :
           /\ UNCHANGED <<lockedStorage, nonce, now>>
           /\ \/ /\ \E n \in {0, 1} : wallets' =
                      [wallets EXCEPT ![w] = [Signers |-> w.Signers, Threshold |-> w.Threshold,
                                              Nonce |-> n]]
                 /\ UNCHANGED <<balance, walletIntents, feesTaken, selfPaid>>
              \/ /\ \E least \in {1, 2} : ExecOperation(w, least)
                 /\ wallets[w] # None
<1>1. PICK w \in Wallet :
        \/ CreateMultisigWallet(w) \/ applyCreateMultisig(w)
        \/ \E S \in SUBSET Signer : MultisigExec(w, S) \/ applyMultisigExec(w, S)
  BY DEF MultisigNext
<1>2. CASE CreateMultisigWallet(w)
  BY <1>2 DEF CreateMultisigWallet
<1>3. CASE applyCreateMultisig(w)
  <2>1. PICK n \in 0..1 :
          wallets' = [wallets EXCEPT ![w] = [Signers |-> w.Signers, Threshold |-> w.Threshold,
                                             Nonce |-> n]]
    BY <1>3, Zenon DEF applyCreateMultisig
  <2>2. n \in {0, 1}
    OBVIOUS
  <2> QED
    BY <1>3, <2>1, <2>2 DEF applyCreateMultisig
<1>4. CASE \E S \in SUBSET Signer : MultisigExec(w, S) \/ applyMultisigExec(w, S)
  BY <1>4 DEF MultisigExec, applyMultisigExec, MayExec
<1> QED
  BY <1>1, <1>2, <1>3, <1>4

\* Every action of the multisig wallets keeps their types.
LEMMA MultisigTypes ==
  ASSUME TypeInv, MultisigNext, UNCHANGED <<bridgeVars, agentVars>>
  PROVE  TypeInv'
<1> USE DEF TypeInv
<1>1. BridgeTypeOK' /\ AgentTypeOK'
  BY DEF bridgeVars, agentVars, BridgeTypeOK, AgentTypeOK
<1>2. PICK w \in Wallet :
        /\ UNCHANGED <<lockedStorage, nonce, now>>
        /\ \/ /\ \E n \in {0, 1} : wallets' =
                   [wallets EXCEPT ![w] = [Signers |-> w.Signers, Threshold |-> w.Threshold,
                                           Nonce |-> n]]
              /\ UNCHANGED <<balance, walletIntents, feesTaken, selfPaid>>
           \/ /\ \E least \in {1, 2} : ExecOperation(w, least)
              /\ wallets[w] # None
  BY MultisigStep
<1>3. balance' \in [Account -> Nat] /\ MultisigTypeOK'
  <2>1. ASSUME NEW n \in {0, 1},
               wallets' = [wallets EXCEPT ![w] = [Signers |-> w.Signers,
                                                  Threshold |-> w.Threshold, Nonce |-> n]],
               UNCHANGED <<balance, walletIntents, feesTaken, selfPaid>>
        PROVE  balance' \in [Account -> Nat] /\ MultisigTypeOK'
    <3>1. [Signers |-> w.Signers, Threshold |-> w.Threshold, Nonce |-> n] \in MultisigWallet
      BY MultisigAssumption DEF MultisigWallet
    <3> QED
      BY <2>1, <3>1 DEF MultisigTypeOK, AccountsTypeOK
  <2>2. ASSUME NEW least \in {1, 2}, ExecOperation(w, least), wallets[w] # None
        PROVE  balance' \in [Account -> Nat] /\ MultisigTypeOK'
    BY <2>2, OperationType
  <2> QED
    BY <1>2, <2>1, <2>2
<1>4. AccountsTypeOK'
  BY <1>2, <1>3 DEF AccountsTypeOK
<1> QED
  BY <1>1, <1>3, <1>4

\* The next midnight is a day's multiple and less than a day away.
LEMMA NextDay ==
  ASSUME NEW t \in Nat
  PROVE  /\ startOfNextDayAt(t) \in Nat
         /\ t < startOfNextDayAt(t) /\ startOfNextDayAt(t) <= t + AgentDay
         /\ \E q \in Nat : startOfNextDayAt(t) = q * AgentDay
<1> DEFINE q == t \div AgentDay
<1>1. AgentDay \in Nat /\ AgentDay > 0
  BY AgentKeyAssumption
<1>2. q \in Nat /\ AgentDay * q <= t /\ t < AgentDay * (q + 1)
  <2>1. t \div AgentDay \in Nat
    BY <1>1
  <2>2. AgentDay * (t \div AgentDay) <= t
    BY <1>1
  <2>3. t < AgentDay * ((t \div AgentDay) + 1)
    BY <1>1
  <2> QED
    BY <2>1, <2>2, <2>3
<1>3. startOfNextDayAt(t) = (q + 1) * AgentDay
  BY DEF startOfNextDayAt
<1> HIDE DEF q
<1>4. /\ (q + 1) * AgentDay = AgentDay * q + AgentDay /\ AgentDay * q \in Nat
      /\ AgentDay * (q + 1) = AgentDay * q + AgentDay
  BY <1>1, <1>2
<1> QED
  BY <1>1, <1>2, <1>3, <1>4

\* The usage of a day is a usage again when the day is rolled over.
LEMMA RolloverType ==
  ASSUME NEW key \in AgentKeyRecord, now \in Nat
  PROVE  /\ rolloverAgentKeyDay(key) \in AgentKeyRecord
         /\ \A f \in {"Master", "AgentPub", "Nonce", "Permissions", "DailyLimit", "TotalLimit",
                      "UsedTotal", "ExpiresAt", "Revoked"} : rolloverAgentKeyDay(key)[f] = key[f]
         /\ IF now > key.DayResetAt
            THEN /\ rolloverAgentKeyDay(key).UsedToday = 0
                 /\ rolloverAgentKeyDay(key).DayResetAt = startOfNextDayAt(now)
            ELSE rolloverAgentKeyDay(key) = key
<1>1. startOfNextDayAt(now) \in Nat
  BY NextDay
<1> QED
  BY <1>1 DEF rolloverAgentKeyDay, AgentKeyRecord

\* So is the usage after a charge.
LEMMA UsageType ==
  ASSUME NEW key \in AgentKeyRecord, now \in Nat, NEW x \in Nat
  PROVE  /\ applyAgentKeyUsage(key, x) \in AgentKeyRecord
         /\ applyAgentKeyUsage(key, x).UsedTotal = key.UsedTotal + x
         /\ applyAgentKeyUsage(key, x).UsedToday = rolloverAgentKeyDay(key).UsedToday + x
         /\ applyAgentKeyUsage(key, x).DayResetAt = rolloverAgentKeyDay(key).DayResetAt
         /\ applyAgentKeyUsage(key, x).DailyLimit = key.DailyLimit
         /\ applyAgentKeyUsage(key, x).TotalLimit = key.TotalLimit
<1> DEFINE rolled == rolloverAgentKeyDay(key)
<1>1. /\ rolled \in AgentKeyRecord /\ rolled.UsedTotal = key.UsedTotal
      /\ rolled.DailyLimit = key.DailyLimit /\ rolled.TotalLimit = key.TotalLimit
  BY RolloverType
<1>2. applyAgentKeyUsage(key, x) = [rolled EXCEPT !.Nonce = @ + 1, !.UsedToday = @ + x,
                                                  !.UsedTotal = @ + x]
  BY DEF applyAgentKeyUsage
<1> HIDE DEF rolled
<1>3. [rolled EXCEPT !.Nonce = @ + 1, !.UsedToday = @ + x, !.UsedTotal = @ + x]
        = [[[rolled EXCEPT !.Nonce = rolled.Nonce + 1] EXCEPT !.UsedToday = rolled.UsedToday + x]
             EXCEPT !.UsedTotal = rolled.UsedTotal + x]
  BY <1>1 DEF AgentKeyRecord
<1>4. rolled.Nonce + 1 \in Nat /\ rolled.UsedToday + x \in Nat /\ rolled.UsedTotal + x \in Nat
  BY <1>1 DEF AgentKeyRecord
<1>5. [rolled EXCEPT !.Nonce = rolled.Nonce + 1] \in AgentKeyRecord
  BY <1>1, <1>4 DEF AgentKeyRecord
<1> QED
  BY <1>1, <1>2, <1>3, <1>4, <1>5 DEF AgentKeyRecord, rolled

\* A new key's record.
LEMMA NewKeyType ==
  ASSUME now \in Nat, MaxTime \in Nat, NEW a \in Client, NEW pub \in AgentPub,
         NEW P \in SUBSET Operation, NEW daily \in Limit, NEW total \in Limit,
         NEW expires \in 0..MaxTime
  PROVE  /\ newAgentKey(a, pub, P, daily, total, expires) \in AgentKeyRecord
         /\ newAgentKey(a, pub, P, daily, total, expires).UsedTotal = 0
         /\ newAgentKey(a, pub, P, daily, total, expires).UsedToday = 0
         /\ newAgentKey(a, pub, P, daily, total, expires).DayResetAt = startOfNextDayAt(now)
<1>1. startOfNextDayAt(now) \in Nat
  BY NextDay
<1>2. normalizeAgentPermissions(P) \in SUBSET Operation
  BY DEF normalizeAgentPermissions
<1> QED
  BY <1>1, <1>2, AgentKeyAssumption DEF newAgentKey, AgentKeyRecord

\* The master's steps and the roll-over change the keys only: one is made with a fresh
\* ID, or one is revoked, extended, topped up or rolled over.
LEMMA KeyStep ==
  ASSUME TypeInv, AgentNext,
         ~ \E k \in KeyID, op \in Operation : AgentRequest(k, op),
         ~ (NextBlock /\ UNCHANGED agentVars)
  PROVE  /\ UNCHANGED <<balance, lockedStorage, now, spent>>
         /\ nonce' \in [Account -> 0..MaxNonce]
         /\ \E k \in KeyID :
              \/ /\ agentKeys[k] = None
                 /\ \E a \in Client, pub \in AgentPub, P \in SUBSET Operation,
                       daily \in Limit, total \in Limit, expires \in 0..MaxTime :
                      agentKeys' = [agentKeys EXCEPT ![k] =
                                      newAgentKey(a, pub, P, daily, total, expires)]
              \/ /\ agentKeys[k] # None
                 /\ \/ agentKeys' = [agentKeys EXCEPT ![k].Revoked = TRUE]
                    \/ \E e \in 0..MaxTime : agentKeys' = [agentKeys EXCEPT ![k].ExpiresAt = e]
                    \/ \E total \in Limit :
                         /\ total >= agentKeys[k].UsedTotal
                         /\ agentKeys' = [agentKeys EXCEPT ![k].TotalLimit = total]
                    \/ agentKeys' = [agentKeys EXCEPT ![k] = rolloverAgentKeyDay(@)]
<1> USE AccountAssumption DEF TypeInv
<1>1. ASSUME NEW a \in Account, consumeAccountNonce(a) PROVE nonce' \in [Account -> 0..MaxNonce]
  BY <1>1 DEF consumeAccountNonce, AccountsTypeOK
<1>2. \A a \in Client : a \in Account
  OBVIOUS
<1>3. \A k \in KeyID : agentKeys[k] # None => agentKeys[k].Master \in Account
  BY <1>2 DEF AgentTypeOK, AgentKeyRecord
<1>4. ASSUME NEW a \in Client, RegisterAgentKey(a) \/ applyRegisterAgentKey(a)
      PROVE  /\ UNCHANGED <<balance, lockedStorage, now, spent>> /\ consumeAccountNonce(a)
             /\ \E k \in KeyID, pub \in AgentPub, P \in SUBSET Operation,
                   daily \in Limit, total \in Limit, expires \in 0..MaxTime :
                  /\ agentKeys[k] = None
                  /\ agentKeys' = [agentKeys EXCEPT ![k] =
                                     newAgentKey(a, pub, P, daily, total, expires)]
  BY <1>4, Zenon DEF RegisterAgentKey, applyRegisterAgentKey
<1>5. ASSUME NEW k \in KeyID, RevokeAgentKey(k)
      PROVE  /\ UNCHANGED <<balance, lockedStorage, now, spent>> /\ agentKeys[k] # None
             /\ consumeAccountNonce(agentKeys[k].Master)
             /\ agentKeys' = [agentKeys EXCEPT ![k].Revoked = TRUE]
  BY <1>5 DEF RevokeAgentKey
<1>6. ASSUME NEW k \in KeyID, ExtendAgentKey(k) \/ applyExtendAgentKey(k)
      PROVE  /\ UNCHANGED <<balance, lockedStorage, now, spent>> /\ agentKeys[k] # None
             /\ consumeAccountNonce(agentKeys[k].Master)
             /\ \E e \in 0..MaxTime : agentKeys' = [agentKeys EXCEPT ![k].ExpiresAt = e]
  <2>1. \A e \in now + 1 .. MaxTime : e \in 0..MaxTime
    BY DEF AccountsTypeOK
  <2> QED
    BY <1>6, <2>1 DEF ExtendAgentKey, applyExtendAgentKey
<1>7. ASSUME NEW k \in KeyID, TopupAgentKey(k) \/ applyTopupAgentKey(k)
      PROVE  /\ UNCHANGED <<balance, lockedStorage, now, spent>> /\ agentKeys[k] # None
             /\ consumeAccountNonce(agentKeys[k].Master)
             /\ \E total \in Limit :
                  /\ total >= agentKeys[k].UsedTotal
                  /\ agentKeys' = [agentKeys EXCEPT ![k].TotalLimit = total]
  BY <1>7 DEF TopupAgentKey, applyTopupAgentKey
<1>8. ASSUME NEW k \in KeyID, validateAgentKeyTx(k)
      PROVE  /\ UNCHANGED <<balance, lockedStorage, now, spent>> /\ agentKeys[k] # None
             /\ UNCHANGED nonce
             /\ agentKeys' = [agentKeys EXCEPT ![k] = rolloverAgentKeyDay(@)]
  BY <1>8 DEF validateAgentKeyTx
<1>9. nonce \in [Account -> 0..MaxNonce]
  BY DEF AccountsTypeOK
<1>10. \/ \E a \in Client : RegisterAgentKey(a) \/ applyRegisterAgentKey(a)
       \/ \E k \in KeyID : \/ RevokeAgentKey(k)
                           \/ ExtendAgentKey(k) \/ applyExtendAgentKey(k)
                           \/ TopupAgentKey(k) \/ applyTopupAgentKey(k)
                           \/ validateAgentKeyTx(k)
  BY DEF AgentNext
<1>11. CASE \E a \in Client : RegisterAgentKey(a) \/ applyRegisterAgentKey(a)
  <2>1. PICK a \in Client : RegisterAgentKey(a) \/ applyRegisterAgentKey(a)
    BY <1>11
  <2>2. /\ UNCHANGED <<balance, lockedStorage, now, spent>> /\ consumeAccountNonce(a)
        /\ \E k \in KeyID, pub \in AgentPub, P \in SUBSET Operation,
              daily \in Limit, total \in Limit, expires \in 0..MaxTime :
             /\ agentKeys[k] = None
             /\ agentKeys' = [agentKeys EXCEPT ![k] =
                                newAgentKey(a, pub, P, daily, total, expires)]
    BY <1>4, <2>1
  <2>3. nonce' \in [Account -> 0..MaxNonce]
    BY <1>1, <1>2, <2>2
  <2> QED
    BY <2>2, <2>3
<1>12. CASE \E k \in KeyID : RevokeAgentKey(k)
  BY <1>1, <1>3, <1>5, <1>12
<1>13. CASE \E k \in KeyID : ExtendAgentKey(k) \/ applyExtendAgentKey(k)
  BY <1>1, <1>3, <1>6, <1>13
<1>14. CASE \E k \in KeyID : TopupAgentKey(k) \/ applyTopupAgentKey(k)
  BY <1>1, <1>3, <1>7, <1>14
<1>15. CASE \E k \in KeyID : validateAgentKeyTx(k)
  BY <1>8, <1>9, <1>15
<1> QED
  BY <1>10, <1>11, <1>12, <1>13, <1>14, <1>15

\* An agent's request, spelled out.
LEMMA RequestStep ==
  ASSUME TypeInv, NEW k \in KeyID, NEW op \in Operation, AgentRequest(k, op)
  PROVE  \E x \in Nat :
           /\ agentKeys[k] # None /\ agentKeys[k] \in AgentKeyRecord
           /\ agentKeys[k].Master \in Client
           /\ verifyAgentRequest(agentKeys[k], op, x)
           /\ balance[agentKeys[k].Master] >= x
           /\ balance' = [balance EXCEPT ![agentKeys[k].Master] = @ - x]
           /\ lockedStorage' = [lockedStorage EXCEPT ![agentKeys[k].Master] = @ + x]
           /\ agentKeys' = [agentKeys EXCEPT ![k] = applyAgentKeyUsage(agentKeys[k], x)]
           /\ spent' = [spent EXCEPT ![k] = [spent[k] EXCEPT ![now] = spent[k][now] + x]]
           /\ UNCHANGED <<nonce, now>>
<1> DEFINE sums == IF op = "create_intent" THEN Spend ELSE {0}
<1>1. PICK x \in sums :
        /\ agentKeys[k] # None
        /\ agentKeys[k].Nonce < MaxNonce
        /\ verifyAgentRequest(agentKeys[k], op, x)
        /\ balance[agentKeys[k].Master] >= x
        /\ balance' = [balance EXCEPT ![agentKeys[k].Master] = @ - x]
        /\ lockedStorage' = [lockedStorage EXCEPT ![agentKeys[k].Master] = @ + x]
        /\ agentKeys' = [agentKeys EXCEPT ![k] = applyAgentKeyUsage(@, x)]
        /\ spent' = [spent EXCEPT ![k][now] = @ + x]
        /\ UNCHANGED <<nonce, now>>
  BY Zenon DEF AgentRequest
<1>2. x \in Nat
  BY AgentKeyAssumption
<1>3. agentKeys[k] \in AgentKeyRecord
  BY <1>1 DEF TypeInv, AgentTypeOK
<1>4. agentKeys[k].Master \in Client
  BY <1>3 DEF AgentKeyRecord
<1>5. agentKeys' = [agentKeys EXCEPT ![k] = applyAgentKeyUsage(agentKeys[k], x)]
  BY <1>1 DEF TypeInv, AgentTypeOK
<1>6. spent' = [spent EXCEPT ![k] = [spent[k] EXCEPT ![now] = spent[k][now] + x]]
  BY <1>1 DEF TypeInv, AgentTypeOK
<1> QED
  BY <1>1, <1>2, <1>3, <1>4, <1>5, <1>6

\* Every action of the agent keys keeps their types.
LEMMA AgentTypes ==
  ASSUME TypeInv, AgentNext, UNCHANGED <<bridgeVars, multisigVars>>
  PROVE  TypeInv'
<1> USE DEF TypeInv
<1>1. BridgeTypeOK' /\ MultisigTypeOK'
  BY DEF bridgeVars, multisigVars, BridgeTypeOK, MultisigTypeOK
<1>2. now \in Nat /\ MaxTime \in Nat
  BY AccountAssumption DEF AccountsTypeOK
<1>3. ASSUME NEW k \in KeyID, NEW op \in Operation, AgentRequest(k, op)
      PROVE  AccountsTypeOK' /\ AgentTypeOK'
  <2>1. PICK x \in Nat :
          /\ agentKeys[k] # None /\ agentKeys[k] \in AgentKeyRecord
          /\ agentKeys[k].Master \in Client
          /\ verifyAgentRequest(agentKeys[k], op, x)
          /\ balance[agentKeys[k].Master] >= x
          /\ balance' = [balance EXCEPT ![agentKeys[k].Master] = @ - x]
          /\ lockedStorage' = [lockedStorage EXCEPT ![agentKeys[k].Master] = @ + x]
          /\ agentKeys' = [agentKeys EXCEPT ![k] = applyAgentKeyUsage(agentKeys[k], x)]
          /\ spent' = [spent EXCEPT ![k] = [spent[k] EXCEPT ![now] = spent[k][now] + x]]
          /\ UNCHANGED <<nonce, now>>
    BY <1>3, RequestStep
  <2> DEFINE m == agentKeys[k].Master
  <2>2. m \in Account
    BY <2>1, AccountAssumption
  <2>3. balance' = [balance EXCEPT ![m] = @ - x] /\ balance[m] >= x
        /\ lockedStorage' = [lockedStorage EXCEPT ![m] = @ + x]
    BY <2>1
  <2>4. AccountsTypeOK'
    <3> HIDE DEF m
    <3>1. balance' \in [Account -> Nat] /\ lockedStorage' \in [Account -> Nat]
      BY <2>2, <2>3 DEF AccountsTypeOK
    <3> QED
      BY <2>1, <3>1 DEF AccountsTypeOK
  <2>5. applyAgentKeyUsage(agentKeys[k], x) \in AgentKeyRecord
    BY <1>2, <2>1, UsageType
  <2>6. [spent[k] EXCEPT ![now] = spent[k][now] + x] \in [0..MaxTime -> Nat]
    <3> DEFINE row == spent[k]
    <3>1. row \in [0..MaxTime -> Nat] /\ now \in 0..MaxTime
      BY DEF AgentTypeOK, AccountsTypeOK
    <3> HIDE DEF row
    <3>2. [row EXCEPT ![now] = row[now] + x] \in [0..MaxTime -> Nat]
      BY <3>1
    <3> QED
      BY <3>2 DEF row
  <2>7. agentKeys' \in [KeyID -> AgentKeyRecord \cup {None}]
    BY <2>1, <2>5 DEF AgentTypeOK
  <2>8. spent' \in [KeyID -> [0..MaxTime -> Nat]]
    BY <2>1, <2>6 DEF AgentTypeOK
  <2> QED
    BY <2>4, <2>7, <2>8 DEF AgentTypeOK
<1>4. CASE NextBlock /\ UNCHANGED agentVars
  <2>1. AccountsTypeOK'
    BY <1>4, AccountAssumption DEF NextBlock, AccountsTypeOK
  <2> QED
    BY <1>1, <1>4, <2>1 DEF agentVars, AgentTypeOK
<1>5. CASE /\ ~ \E k \in KeyID, op \in Operation : AgentRequest(k, op)
           /\ ~ (NextBlock /\ UNCHANGED agentVars)
  <2>1. /\ UNCHANGED <<balance, lockedStorage, now, spent>>
        /\ nonce' \in [Account -> 0..MaxNonce]
    BY <1>5, KeyStep
  <2>2. PICK k \in KeyID :
              \/ /\ agentKeys[k] = None
                 /\ \E a \in Client, pub \in AgentPub, P \in SUBSET Operation,
                       daily \in Limit, total \in Limit, expires \in 0..MaxTime :
                      agentKeys' = [agentKeys EXCEPT ![k] =
                                      newAgentKey(a, pub, P, daily, total, expires)]
              \/ /\ agentKeys[k] # None
                 /\ \/ agentKeys' = [agentKeys EXCEPT ![k].Revoked = TRUE]
                    \/ \E e \in 0..MaxTime : agentKeys' = [agentKeys EXCEPT ![k].ExpiresAt = e]
                    \/ \E total \in Limit :
                         /\ total >= agentKeys[k].UsedTotal
                         /\ agentKeys' = [agentKeys EXCEPT ![k].TotalLimit = total]
                    \/ agentKeys' = [agentKeys EXCEPT ![k] = rolloverAgentKeyDay(@)]
    BY <1>5, KeyStep
  <2>3. agentKeys \in [KeyID -> AgentKeyRecord \cup {None}]
    BY DEF AgentTypeOK
  <2>4. agentKeys' \in [KeyID -> AgentKeyRecord \cup {None}]
    <3>1. ASSUME NEW a \in Client, NEW pub \in AgentPub, NEW P \in SUBSET Operation,
                 NEW daily \in Limit, NEW total \in Limit, NEW expires \in 0..MaxTime,
                 agentKeys' = [agentKeys EXCEPT ![k] =
                                 newAgentKey(a, pub, P, daily, total, expires)]
          PROVE  agentKeys' \in [KeyID -> AgentKeyRecord \cup {None}]
      <4>1. newAgentKey(a, pub, P, daily, total, expires) \in AgentKeyRecord
        BY <1>2, NewKeyType
      <4> QED
        BY <2>3, <3>1, <4>1
    <3>2. ASSUME agentKeys[k] # None
          PROVE  /\ agentKeys[k] \in AgentKeyRecord
                 /\ [agentKeys[k] EXCEPT !.Revoked = TRUE] \in AgentKeyRecord
                 /\ \A e \in 0..MaxTime : [agentKeys[k] EXCEPT !.ExpiresAt = e] \in AgentKeyRecord
                 /\ \A total \in Limit : [agentKeys[k] EXCEPT !.TotalLimit = total] \in AgentKeyRecord
                 /\ rolloverAgentKeyDay(agentKeys[k]) \in AgentKeyRecord
      <4>1. agentKeys[k] \in AgentKeyRecord
        BY <2>3, <3>2
      <4>2. rolloverAgentKeyDay(agentKeys[k]) \in AgentKeyRecord
        BY <1>2, <4>1, RolloverType
      <4>3. [agentKeys[k] EXCEPT !.Revoked = TRUE] \in AgentKeyRecord
        BY <4>1 DEF AgentKeyRecord
      <4>4. ASSUME NEW e \in 0..MaxTime PROVE [agentKeys[k] EXCEPT !.ExpiresAt = e] \in AgentKeyRecord
        BY <1>2, <4>1 DEF AgentKeyRecord
      <4>5. ASSUME NEW t \in Limit PROVE [agentKeys[k] EXCEPT !.TotalLimit = t] \in AgentKeyRecord
        BY <4>1, AgentKeyAssumption DEF AgentKeyRecord
      <4> QED
        BY <4>1, <4>2, <4>3, <4>4, <4>5
    <3>3. CASE agentKeys[k] = None
      BY <2>2, <3>1, <3>3
    <3>4. CASE agentKeys[k] # None
      BY <2>2, <2>3, <3>2, <3>4
    <3> QED
      BY <3>3, <3>4
  <2> QED
    BY <1>1, <2>1, <2>4 DEF AccountsTypeOK, AgentTypeOK
<1> QED
  BY <1>1, <1>3, <1>4, <1>5

\* The initial state has the types.
LEMMA WalletInitTypes == WalletsInit => TypeInv
<1> SUFFICES ASSUME WalletsInit PROVE TypeInv
  OBVIOUS
<1>1. AccountsTypeOK
  BY AccountAssumption DEF WalletsInit, AccountsInit, AccountsTypeOK
<1>2. BridgeTypeOK
  BY DEF WalletsInit, BridgeInit, BridgeTypeOK
<1>3. MultisigTypeOK
  BY DEF WalletsInit, MultisigInit, MultisigTypeOK
<1>4. AgentTypeOK
  BY DEF WalletsInit, AgentInit, AgentTypeOK
<1> QED
  BY <1>1, <1>2, <1>3, <1>4 DEF TypeInv

\* Every step keeps the types.
LEMMA WalletStepTypes == TypeInv /\ [WalletsNext]_walletsVars => TypeInv'
<1> SUFFICES ASSUME TypeInv, [WalletsNext]_walletsVars PROVE TypeInv'
  OBVIOUS
<1>1. CASE UNCHANGED walletsVars
  BY <1>1 DEF walletsVars, accountVars, bridgeVars, multisigVars, agentVars, TypeInv,
     AccountsTypeOK, BridgeTypeOK, MultisigTypeOK, AgentTypeOK
<1> QED
  BY <1>1, BridgeTypes, MultisigTypes, AgentTypes DEF WalletsNext

\* Every variable has its type, whatever the three components do between each other.
THEOREM WalletTypes == WalletsSpec => []TypeInv
  BY WalletInitTypes, WalletStepTypes, PTL DEF WalletsSpec

-----------------------------------------------------------------------------
(***************************************************************************)
(* The pool of the bridge                                                  *)
(***************************************************************************)
\* Payments into the pool, and out of it, are numbers.
LEMMA PoolSumsTyped ==
  ASSUME BridgeTypeOK
  PROVE  /\ \A x \in SourceTx : PaidOut[x] \in Nat
         /\ IsFiniteSet(DOMAIN outbounds)
         /\ \A i \in DOMAIN outbounds : TakenIn[i] \in Nat
         /\ SumFunctionOnSet(PaidOut, SourceTx) \in Nat
         /\ SumFunctionOnSet(TakenIn, DOMAIN outbounds) \in Nat
<1>1. \A x \in SourceTx : PaidOut[x] \in Nat
  BY DEF PaidOut, BridgeTypeOK, BridgeInbound
<1>2. Len(outbounds) \in Nat /\ DOMAIN outbounds = 1..Len(outbounds)
  BY DEF BridgeTypeOK
<1>3. IsFiniteSet(DOMAIN outbounds)
  BY <1>2, FS_Interval
<1>4. \A i \in DOMAIN outbounds : TakenIn[i] \in Nat
  <2> SUFFICES ASSUME NEW i \in DOMAIN outbounds PROVE TakenIn[i] \in Nat
    OBVIOUS
  <2>1. outbounds[i] \in BridgeOutbound
    BY DEF BridgeTypeOK
  <2>2. TakenIn[i] = outbounds[i].Amount + outbounds[i].Fee
    BY DEF TakenIn
  <2> QED
    BY <2>1, <2>2 DEF BridgeOutbound
<1>5. SumFunctionOnSet(PaidOut, SourceTx) \in Nat
  BY <1>1, BridgeAssumption, SumNat
<1>6. SumFunctionOnSet(TakenIn, DOMAIN outbounds) \in Nat
  BY <1>3, <1>4, SumNat
<1> QED
  BY <1>1, <1>3, <1>4, <1>5, <1>6

\* What does not lower the pool or touch the bridge keeps the pool backed.
LEMMA PoolFrame ==
  ASSUME TypeInv, TypeInv', BridgePoolBacked, UNCHANGED <<inbounds, outbounds>>,
         balance'[Pool] >= balance[Pool]
  PROVE  BridgePoolBacked'
<1>1. /\ SumFunctionOnSet(PaidOut, SourceTx) \in Nat
      /\ SumFunctionOnSet(TakenIn, DOMAIN outbounds) \in Nat
  BY PoolSumsTyped DEF TypeInv
<1>2. PaidOut' = PaidOut /\ TakenIn' = TakenIn
  BY DEF PaidOut, TakenIn
<1>3. balance[Pool] \in Nat /\ balance'[Pool] \in Nat
  BY BridgeAssumption DEF TypeInv, AccountsTypeOK
<1>4. SumFunctionOnSet(PaidOut, SourceTx)' = SumFunctionOnSet(PaidOut, SourceTx)
  BY <1>2
<1>5. SumFunctionOnSet(TakenIn, DOMAIN outbounds)' = SumFunctionOnSet(TakenIn, DOMAIN outbounds)
  BY <1>2
<1> QED
  BY <1>1, <1>3, <1>4, <1>5 DEF BridgePoolBacked, TypeInv

\* A transfer brings amount and fee, and one entry that says so.
LEMMA PoolOut ==
  ASSUME TypeInv, TypeInv', BridgePoolBacked, NEW a \in Client, BridgeOut(a)
  PROVE  BridgePoolBacked'
<1>1. PICK x \in BridgeAmount : \E u, v :
        /\ balance' = [balance EXCEPT ![a] = @ - (x + BridgeFee),
                                      ![Pool] = @ + x + BridgeFee]
        /\ outbounds' = Append(outbounds,
             [Sender |-> a, Amount |-> x, Fee |-> BridgeFee, LockedAtUnix |-> u,
              ClaimableAfter |-> v])
        /\ UNCHANGED inbounds
  BY DEF BridgeOut
<1>2. x \in Nat /\ BridgeFee \in Nat /\ Pool # a /\ Pool \in Account /\ balance[Pool] \in Nat
  BY BridgeAssumption DEF TypeInv, AccountsTypeOK
<1>3. balance'[Pool] = balance[Pool] + x + BridgeFee
  BY <1>1, <1>2 DEF TypeInv, AccountsTypeOK
<1>4. SumFunctionOnSet(PaidOut, SourceTx)' = SumFunctionOnSet(PaidOut, SourceTx)
  <2>1. PaidOut' = PaidOut
    BY <1>1 DEF PaidOut
  <2> QED
    BY <2>1
<1> DEFINE n == Len(outbounds)
           D == DOMAIN outbounds
           E == DOMAIN outbounds'
<1>5. /\ n \in Nat /\ D = 1..n /\ E = 1..(n+1)
      /\ outbounds'[n+1].Amount = x /\ outbounds'[n+1].Fee = BridgeFee
      /\ \A i \in D : outbounds'[i] = outbounds[i]
  BY <1>1 DEF TypeInv, BridgeTypeOK
<1>6. SumFunctionOnSet(TakenIn', E) = x + BridgeFee + SumFunctionOnSet(TakenIn, D)
  <2>1. n + 1 \in E /\ E \ {n+1} = D
    BY <1>5
  <2>2. IsFiniteSet(D) /\ IsFiniteSet(E) /\ \A i \in D : TakenIn[i] \in Int
    <3>1. IsFiniteSet(D) /\ \A i \in D : TakenIn[i] \in Nat
      BY PoolSumsTyped DEF TypeInv
    <3>2. E = D \cup {n+1}
      BY <2>1
    <3>3. IsFiniteSet(E)
      BY <3>1, <3>2, FS_AddElement
    <3> QED
      BY <3>1, <3>3
  <2>3. TakenIn'[n+1] = x + BridgeFee
    BY <1>5, <2>1 DEF TakenIn
  <2>4. \A i \in D : TakenIn'[i] = TakenIn[i]
    BY <1>5, <2>1 DEF TakenIn
  <2>5. \A i \in E : TakenIn'[i] \in Int
    BY <1>2, <2>1, <2>2, <2>3, <2>4
  <2> HIDE DEF n, D, E
  <2>6. SumFunctionOnSet(TakenIn', E) = TakenIn'[n+1] + SumFunctionOnSet(TakenIn', E \ {n+1})
    BY <2>1, <2>2, <2>5, SumSplit
  <2>7. SumFunctionOnSet(TakenIn', D) = SumFunctionOnSet(TakenIn, D)
    BY <2>2, <2>4, SumEqual
  <2> QED
    BY <2>1, <2>3, <2>6, <2>7
<1>7. /\ SumFunctionOnSet(PaidOut, SourceTx) \in Nat
      /\ SumFunctionOnSet(TakenIn, D) \in Nat
  BY PoolSumsTyped DEF TypeInv
<1>8. balance[Pool] + SumFunctionOnSet(PaidOut, SourceTx) >= SumFunctionOnSet(TakenIn, D)
  BY DEF BridgePoolBacked
<1>9. balance'[Pool] + SumFunctionOnSet(PaidOut, SourceTx)' >= SumFunctionOnSet(TakenIn', E)
  <2> HIDE DEF D, E
  <2> QED
    BY <1>2, <1>3, <1>4, <1>6, <1>7, <1>8
<1> QED
  BY <1>9 DEF BridgePoolBacked, TypeInv

\* A claim pays once for a burn nobody has been paid for.
LEMMA PoolClaim ==
  ASSUME TypeInv, TypeInv', BridgePoolBacked, NEW req \in BridgeInClaimRequest, BridgeClaim(req)
  PROVE  BridgePoolBacked'
<1> DEFINE tx == req.SourceTxHash
           r == [Recipient |-> req.Recipient, Amount |-> req.Amount]
<1>1. /\ inbounds[tx] = None
      /\ balance' = [balance EXCEPT ![Pool] = @ - req.Amount,
                                    ![req.Recipient] = @ + req.Amount]
      /\ inbounds' = [inbounds EXCEPT ![tx] = r]
      /\ UNCHANGED outbounds
  BY DEF BridgeClaim
<1>2. /\ tx \in SourceTx /\ req.Amount \in Nat /\ req.Recipient \in Account
      /\ req.Recipient # Pool /\ Pool \in Account
  BY AccountAssumption, BridgeAssumption DEF BridgeInClaimRequest
<1>3. balance'[Pool] = balance[Pool] - req.Amount /\ balance[Pool] \in Nat
  BY <1>1, <1>2 DEF TypeInv, AccountsTypeOK
<1>4. r # None
  BY <1>2, BridgeNone DEF BridgeInbound
<1>5. PaidOut[tx] = 0 /\ PaidOut'[tx] = req.Amount
  BY <1>1, <1>2, <1>4 DEF PaidOut, TypeInv, BridgeTypeOK
<1>6. \A y \in SourceTx \ {tx} : PaidOut'[y] = PaidOut[y]
  BY <1>1, <1>2 DEF PaidOut, TypeInv, BridgeTypeOK
<1>7. \A y \in SourceTx : PaidOut[y] \in Int /\ PaidOut'[y] \in Int
  <2>1. \A y \in SourceTx : PaidOut[y] \in Nat
    BY PoolSumsTyped DEF TypeInv
  <2> QED
    BY <1>2, <1>5, <1>6, <2>1
<1>8. SumFunctionOnSet(PaidOut', SourceTx) = SumFunctionOnSet(PaidOut, SourceTx) + req.Amount
  <2> HIDE DEF tx
  <2>1. SumFunctionOnSet(PaidOut', SourceTx)
          = SumFunctionOnSet(PaidOut, SourceTx) + (PaidOut'[tx] - PaidOut[tx])
    BY <1>2, <1>6, <1>7, BridgeAssumption, SumUpdate
  <2> QED
    BY <1>2, <1>5, <2>1
<1>9. TakenIn' = TakenIn /\ DOMAIN outbounds' = DOMAIN outbounds
  BY <1>1 DEF TakenIn
<1>10. /\ SumFunctionOnSet(PaidOut, SourceTx) \in Nat
       /\ SumFunctionOnSet(TakenIn, DOMAIN outbounds) \in Nat
  BY PoolSumsTyped DEF TypeInv
<1>11. balance[Pool] + SumFunctionOnSet(PaidOut, SourceTx) >= SumFunctionOnSet(TakenIn, DOMAIN outbounds)
  BY DEF BridgePoolBacked
<1>12. balance'[Pool] + SumFunctionOnSet(PaidOut', SourceTx)
         >= SumFunctionOnSet(TakenIn', DOMAIN outbounds')
  BY <1>2, <1>3, <1>8, <1>9, <1>10, <1>11
<1> QED
  BY <1>12 DEF BridgePoolBacked, TypeInv

\* A wallet is not the pool, and what it pays does not come from there.
LEMMA PoolNotWallet ==
  ASSUME TypeInv, MultisigNext
  PROVE  balance'[Pool] >= balance[Pool]
<1>1. PICK w \in Wallet :
        \/ UNCHANGED balance
        \/ \E least \in {1, 2} : ExecOperation(w, least)
  BY MultisigStep
<1>2. /\ Pool # w /\ Pool \in Account /\ w \in Account /\ Payment \subseteq Nat
      /\ balance \in [Account -> Nat] /\ balance[Pool] \in Nat
  BY WalletsAssumption, BridgeAssumption, MultisigAssumption DEF TypeInv, AccountsTypeOK
<1>3. CASE UNCHANGED balance
  BY <1>2, <1>3
<1>4. CASE ExecTransfer(w)
  <2>1. PICK to \in Account, x \in Payment : balance' = paidFrom(balance, w, to, x)
    BY <1>4 DEF ExecTransfer
  <2>2. balance'[Pool] = IF to = Pool THEN balance[Pool] + x ELSE balance[Pool]
    BY <1>2, <2>1 DEF paidFrom
  <2> QED
    BY <1>2, <2>2
<1>5. CASE ExecBatchTransfer(w)
  <2>1. PICK to1, to2 \in Account, x, y \in Payment :
          LET one == [balance EXCEPT ![to1] = @ + x]
              two == [one EXCEPT ![to2] = @ + y]
          IN  /\ balance[w] >= x + y + ExecFee
              /\ balance' = [two EXCEPT ![w] = balance[w] - (x + y + ExecFee)]
              /\ selfPaid' = (selfPaid \/ w \in {to1, to2})
              /\ feesTaken' = feesTaken + ExecFee
              /\ wallets' = [wallets EXCEPT ![w].Nonce = @ + 1]
              /\ UNCHANGED walletIntents
    BY <1>5 DEF ExecBatchTransfer
  <2> DEFINE one == [balance EXCEPT ![to1] = @ + x]
             two == [one EXCEPT ![to2] = @ + y]
  <2>2. one \in [Account -> Nat] /\ one[Pool] >= balance[Pool]
    BY <1>2
  <2>3. two \in [Account -> Nat] /\ two[Pool] >= one[Pool]
    <3> HIDE DEF one
    <3> QED
      BY <1>2, <2>2
  <2>4. balance'[Pool] = two[Pool]
    <3> HIDE DEF one
    <3> QED
      BY <1>2, <2>1, <2>3 DEF one
  <2> HIDE DEF one, two
  <2> QED
    BY <1>2, <2>2, <2>3, <2>4
<1>6. CASE ExecCreateIntent(w)
  BY <1>2, <1>6 DEF ExecCreateIntent
<1>7. CASE ExecUpdateSigners(w) \/ \E least \in {1, 2} : ExecUpdateThreshold(w, least)
  BY <1>2, <1>7 DEF ExecUpdateSigners, ExecUpdateThreshold
<1> QED
  BY <1>1, <1>3, <1>4, <1>5, <1>6, <1>7 DEF ExecOperation

\* The pool holds what was locked in it, less one payment per burn, whatever the
\* wallets and agents do meanwhile (bridge.go: BridgeOut, BridgeClaim).
THEOREM PoolBacked == WalletsSpec => []BridgePoolBacked
<1>1. WalletsInit => TypeInv /\ BridgePoolBacked
  <2> SUFFICES ASSUME WalletsInit, TypeInv PROVE BridgePoolBacked
    BY WalletInitTypes
  <2>1. DOMAIN outbounds = {}
    BY DEF WalletsInit, BridgeInit
  <2>2. SumFunctionOnSet(TakenIn, DOMAIN outbounds) = 0
    BY <2>1, SumEmpty
  <2>3. SumFunctionOnSet(PaidOut, SourceTx) \in Nat /\ balance[Pool] \in Nat
    BY PoolSumsTyped, BridgeAssumption DEF TypeInv, AccountsTypeOK
  <2> QED
    BY <2>2, <2>3 DEF BridgePoolBacked, TypeInv
<1>2. TypeInv /\ TypeInv' /\ BridgePoolBacked /\ [WalletsNext]_walletsVars => BridgePoolBacked'
  <2> SUFFICES ASSUME TypeInv, TypeInv', BridgePoolBacked, [WalletsNext]_walletsVars
               PROVE  BridgePoolBacked'
    OBVIOUS
  <2>1. balance[Pool] \in Nat
    BY BridgeAssumption DEF TypeInv, AccountsTypeOK
  <2>2. ASSUME NEW a \in Client, BridgeOut(a) PROVE BridgePoolBacked'
    BY <2>2, PoolOut
  <2>3. ASSUME NEW req \in BridgeInClaimRequest, BridgeClaim(req) PROVE BridgePoolBacked'
    BY <2>3, PoolClaim
  <2>4. ASSUME UNCHANGED <<balance, inbounds, outbounds>> PROVE BridgePoolBacked'
    BY <2>1, <2>4, PoolFrame
  <2>5. CASE BridgeNext
    BY <2>2, <2>3, <2>4, <2>5
       DEF BridgeNext, BridgeRefused, BridgeSetConfig, NextBlock, bridgeVars
  <2>6. CASE MultisigNext /\ UNCHANGED bridgeVars
    BY <2>6, PoolNotWallet, PoolFrame DEF bridgeVars
  <2>7. CASE AgentNext /\ UNCHANGED bridgeVars
    <3>1. CASE \E k \in KeyID, op \in Operation : AgentRequest(k, op)
      <4>1. PICK m \in Client, x \in Nat : balance' = [balance EXCEPT ![m] = @ - x]
        BY <3>1, RequestStep
      <4>2. balance'[Pool] = balance[Pool]
        BY <4>1, BridgeAssumption DEF TypeInv, AccountsTypeOK
      <4> QED
        BY <2>1, <2>7, <4>2, PoolFrame DEF bridgeVars
    <3>2. CASE NextBlock
      BY <2>4, <2>7, <3>2 DEF NextBlock, bridgeVars
    <3>3. CASE ~ (\E k \in KeyID, op \in Operation : AgentRequest(k, op)) /\ ~ NextBlock
      BY <2>4, <2>7, <3>3, KeyStep DEF bridgeVars
    <3> QED
      BY <3>1, <3>2, <3>3
  <2>8. CASE UNCHANGED walletsVars
    BY <2>4, <2>8 DEF walletsVars, accountVars, bridgeVars
  <2> QED
    BY <2>5, <2>6, <2>7, <2>8 DEF WalletsNext
<1>3. TypeInv /\ [WalletsNext]_walletsVars => TypeInv'
  BY WalletStepTypes
<1> QED
  BY <1>1, <1>2, <1>3, PTL DEF WalletsSpec

-----------------------------------------------------------------------------
(***************************************************************************)
(* The bridge's daily limit                                                *)
(*                                                                         *)
(* A limit holds from window to window: what crossed since the window      *)
(* began, and what crossed in the day before it began, are each within the *)
(* largest limit.  A day meets at most these two.                          *)
(***************************************************************************)
Since(s) == {u \in 0..MaxTime : u >= s}

DayBefore(s) == {u \in 0..MaxTime : u < s /\ u >= s - Day}

DayFrom(t) == {u \in 0..MaxTime : u >= t /\ u < t + Day}

DayWindow(c) ==
  /\ c.MaxAmountPerDay \in DailyMaximum
  /\ c.DayStartUnix <= now
  /\ c.CurrentDayAmount <= Max(DailyMaximum)
  /\ SumFunctionOnSet(moved, Since(c.DayStartUnix)) <= c.CurrentDayAmount
  /\ SumFunctionOnSet(moved, DayBefore(c.DayStartUnix)) <= Max(DailyMaximum)
  /\ \A u \in 0..MaxTime : u >= c.DayStartUnix + Day => moved[u] = 0

DayInv ==
  /\ bridgeConfig = None => \A u \in 0..MaxTime : moved[u] = 0
  /\ bridgeConfig # None => DayWindow(bridgeConfig)
  /\ BridgeDayLimit

\* A set of times is finite.
LEMMA TimesFinite == ASSUME NEW S \in SUBSET (0..MaxTime) PROVE IsFiniteSet(S)
<1>1. IsFiniteSet(0..MaxTime)
  BY FS_Interval, AccountAssumption
<1> QED
  BY <1>1, FS_Subset

\* What moved within a set of times.
LEMMA MovedNat ==
  ASSUME BridgeTypeOK, NEW S \in SUBSET (0..MaxTime)
  PROVE  IsFiniteSet(S) /\ (\A u \in S : moved[u] \in Nat) /\ SumFunctionOnSet(moved, S) \in Nat
<1>1. IsFiniteSet(S)
  BY TimesFinite
<1>2. \A u \in S : moved[u] \in Nat
  BY DEF BridgeTypeOK
<1> QED
  BY <1>1, <1>2, SumNat

\* A window that is rolled over begins with nothing moved.
LEMMA WindowRolls ==
  ASSUME TypeInv, NEW b \in BridgeConfig, DayWindow(b)
  PROVE  DayWindow(rolledWindow(b)) /\ now < rolledWindow(b).DayStartUnix + Day
<1> DEFINE c == rolledWindow(b)
           s == b.DayStartUnix
<1> USE DEF TypeInv
<1>1. now \in Nat /\ now \in 0..MaxTime /\ MaxTime \in Nat /\ Day \in Nat /\ Day > 0
  BY AccountAssumption, BridgeAssumption DEF AccountsTypeOK
<1>2. s \in Nat /\ b.CurrentDayAmount \in Nat
  BY DEF BridgeConfig
<1>3. CASE ~ (now - s >= Day)
  <2>1. c = b
    BY <1>3, RolledWindow
  <2> QED
    BY <1>1, <1>2, <1>3, <2>1
<1>4. CASE now - s >= Day
  <2>1. /\ c.DayStartUnix = now /\ c.CurrentDayAmount = 0
        /\ c.MaxAmountPerDay = b.MaxAmountPerDay
    BY <1>4, RolledWindow
  <2>2. \A u \in 0..MaxTime : u >= now => moved[u] = 0
    BY <1>1, <1>2, <1>4 DEF DayWindow
  <2>3. SumFunctionOnSet(moved, Since(now)) = 0
    <3>1. IsFiniteSet(Since(now)) /\ \A u \in Since(now) : moved[u] = 0
      BY <2>2, MovedNat DEF Since
    <3> QED
      BY <3>1, SumZero
  <2>4. SumFunctionOnSet(moved, DayBefore(now)) <= Max(DailyMaximum)
    <3>1. DayBefore(now) \subseteq Since(s) /\ Since(s) \subseteq 0..MaxTime
      BY <1>1, <1>2, <1>4 DEF DayBefore, Since
    <3>2. IsFiniteSet(Since(s)) /\ \A u \in Since(s) : moved[u] \in Nat
      BY <3>1, MovedNat
    <3>3. SumFunctionOnSet(moved, DayBefore(now)) <= SumFunctionOnSet(moved, Since(s))
      BY <3>1, <3>2, SumSubset
    <3>4. /\ SumFunctionOnSet(moved, DayBefore(now)) \in Nat
          /\ SumFunctionOnSet(moved, Since(s)) \in Nat
      BY <3>1, MovedNat
    <3>5. /\ SumFunctionOnSet(moved, Since(s)) <= b.CurrentDayAmount
          /\ b.CurrentDayAmount <= Max(DailyMaximum) /\ Max(DailyMaximum) \in Nat
      BY MaximumLimit DEF DayWindow
    <3> QED
      BY <1>2, <3>3, <3>4, <3>5
  <2>5. DayWindow(c)
    <3>1. \A u \in 0..MaxTime : u >= now + Day => moved[u] = 0
      BY <1>1, <2>2
    <3>2. b.MaxAmountPerDay \in DailyMaximum
      BY DEF DayWindow
    <3> HIDE DEF c
    <3> QED
      BY <1>1, <2>1, <2>3, <2>4, <3>1, <3>2, MaximumLimit DEF DayWindow
  <2> HIDE DEF c
  <2> QED
    BY <1>1, <2>1, <2>5 DEF c
<1> QED
  BY <1>3, <1>4

\* An amount that moves now.
LEMMA MovedMore ==
  ASSUME TypeInv, NEW x \in Nat, moved' = [moved EXCEPT ![now] = @ + x],
         NEW S \in SUBSET (0..MaxTime)
  PROVE  /\ now \in S => SumFunctionOnSet(moved', S) = SumFunctionOnSet(moved, S) + x
         /\ now \notin S => SumFunctionOnSet(moved', S) = SumFunctionOnSet(moved, S)
<1>1. /\ now \in 0..MaxTime /\ moved'[now] = moved[now] + x /\ moved[now] \in Nat
      /\ \A u \in 0..MaxTime \ {now} : moved'[u] = moved[u]
  BY DEF TypeInv, AccountsTypeOK, BridgeTypeOK
<1>2. IsFiniteSet(S) /\ \A u \in S : moved[u] \in Nat
  BY MovedNat DEF TypeInv
<1>3. SumFunctionOnSet(moved, S) \in Nat
  BY MovedNat DEF TypeInv
<1>4. \A u \in S : moved[u] \in Int /\ moved'[u] \in Int
  BY <1>1, <1>2
<1>5. CASE now \in S
  <2>1. SumFunctionOnSet(moved', S) = SumFunctionOnSet(moved, S) + (moved'[now] - moved[now])
    <3>1. \A u \in S \ {now} : moved'[u] = moved[u]
      BY <1>1
    <3> DEFINE f == moved
               g == moved'
    <3>2. IsFiniteSet(S) /\ (\A u \in S : f[u] \in Int /\ g[u] \in Int)
          /\ \A u \in S \ {now} : g[u] = f[u]
      BY <1>2, <1>4, <3>1
    <3> HIDE DEF f, g
    <3> DEFINE R == S
    <3>3. IsFiniteSet(R) /\ (\A u \in R : f[u] \in Int /\ g[u] \in Int) /\ now \in R
          /\ \A u \in R \ {now} : g[u] = f[u]
      BY <1>5, <3>2
    <3> HIDE DEF R
    <3>4. SumFunctionOnSet(g, R) = SumFunctionOnSet(f, R) + (g[now] - f[now])
      BY <3>3, SumUpdate
    <3> QED
      BY <3>4 DEF f, g, R
  <2> QED
    BY <1>1, <1>3, <1>5, <2>1
<1>6. CASE now \notin S
  <2>1. \A u \in S : moved[u] \in Int /\ moved[u] = moved'[u]
    BY <1>1, <1>4, <1>6
  <2>2. SumFunctionOnSet(moved, S) = SumFunctionOnSet(moved', S)
    BY <1>2, <2>1, SumEqual
  <2> QED
    BY <1>3, <1>6, <2>2
<1> QED
  BY <1>5, <1>6

\* What moves within its window keeps every day within two limits.
LEMMA WindowTakes ==
  ASSUME TypeInv, TypeInv', NEW c \in BridgeConfig, DayWindow(c), BridgeDayLimit,
         now < c.DayStartUnix + Day, NEW x \in Nat, withinDay(c, x), now' = now,
         moved' = [moved EXCEPT ![now] = @ + x],
         bridgeConfig' = [c EXCEPT !.CurrentDayAmount = @ + x]
  PROVE  DayWindow(bridgeConfig)' /\ BridgeDayLimit'
<1> DEFINE s == c.DayStartUnix
           M == Max(DailyMaximum)
<1>1. /\ now \in Nat /\ now \in 0..MaxTime /\ MaxTime \in Nat /\ Day \in Nat /\ Day > 0
      /\ s \in Nat /\ c.CurrentDayAmount \in Nat /\ M \in Nat /\ s <= now
  BY AccountAssumption, BridgeAssumption, MaximumLimit
     DEF TypeInv, AccountsTypeOK, BridgeConfig, DayWindow
<1>2. /\ bridgeConfig'.DayStartUnix = s /\ bridgeConfig'.MaxAmountPerDay = c.MaxAmountPerDay
      /\ bridgeConfig'.CurrentDayAmount = c.CurrentDayAmount + x
  BY DEF BridgeConfig
<1>3. c.CurrentDayAmount + x <= M
  <2>1. c.MaxAmountPerDay <= M /\ c.MaxAmountPerDay \in Nat
    BY MaximumLimit DEF DayWindow, BridgeConfig
  <2>2. x <= c.MaxAmountPerDay - c.CurrentDayAmount
    BY DEF withinDay
  <2> HIDE DEF M
  <2> QED
    BY <1>1, <2>1, <2>2
<1>4. SumFunctionOnSet(moved', Since(s)) <= c.CurrentDayAmount + x
  <2>1. Since(s) \subseteq 0..MaxTime /\ now \in Since(s)
    BY <1>1 DEF Since
  <2>2. SumFunctionOnSet(moved', Since(s)) = SumFunctionOnSet(moved, Since(s)) + x
    BY <2>1, MovedMore
  <2>3. SumFunctionOnSet(moved, Since(s)) \in Nat
    BY <2>1, MovedNat DEF TypeInv
  <2>4. SumFunctionOnSet(moved, Since(s)) <= c.CurrentDayAmount
    BY DEF DayWindow
  <2> QED
    BY <1>1, <2>2, <2>3, <2>4
<1>5. SumFunctionOnSet(moved', DayBefore(s)) = SumFunctionOnSet(moved, DayBefore(s))
  <2>1. DayBefore(s) \subseteq 0..MaxTime /\ now \notin DayBefore(s)
    BY <1>1 DEF DayBefore
  <2>2. SumFunctionOnSet(moved, DayBefore(s)) \in Nat
    BY <2>1, MovedNat DEF TypeInv
  <2> QED
    BY <2>1, <2>2, MovedMore
<1>6. \A u \in 0..MaxTime : u >= s + Day => moved'[u] = 0
  <2>1. \A u \in 0..MaxTime : u # now => moved'[u] = moved[u]
    BY DEF TypeInv, BridgeTypeOK
  <2>2. \A u \in 0..MaxTime : u >= s + Day => moved[u] = 0
    BY DEF DayWindow
  <2> QED
    BY <1>1, <2>1, <2>2
<1>7. DayWindow(bridgeConfig)'
  <2>1. SumFunctionOnSet(moved, DayBefore(s)) <= M /\ c.MaxAmountPerDay \in DailyMaximum
    BY DEF DayWindow
  <2>2. Since(bridgeConfig.DayStartUnix)' = Since(s) /\ DayBefore(bridgeConfig.DayStartUnix)' = DayBefore(s)
    BY <1>2 DEF Since, DayBefore
  <2> QED
    BY <1>1, <1>2, <1>3, <1>4, <1>5, <1>6, <2>1, <2>2 DEF DayWindow
<1>8. ASSUME NEW t \in 0..MaxTime
      PROVE  SumFunctionOnSet(moved', DayFrom(t)) <= 2 * M
  <2>1. /\ DayFrom(t) \subseteq 0..MaxTime /\ DayBefore(s) \subseteq 0..MaxTime
        /\ Since(s) \subseteq 0..MaxTime
    BY DEF DayFrom, DayBefore, Since
  <2>2. CASE now \notin DayFrom(t)
    <3>1. SumFunctionOnSet(moved', DayFrom(t)) = SumFunctionOnSet(moved, DayFrom(t))
      <4>1. SumFunctionOnSet(moved, DayFrom(t)) \in Nat
        BY <2>1, MovedNat DEF TypeInv
      <4> QED
        BY <2>1, <2>2, <4>1, MovedMore
    <3> QED
      BY <3>1 DEF BridgeDayLimit, DayFrom
  <2>3. CASE now \in DayFrom(t)
    <3> DEFINE both == DayBefore(s) \cup Since(s)
    <3>1. DayFrom(t) \subseteq both /\ DayBefore(s) \cap Since(s) = {}
      BY <1>1, <2>3 DEF DayFrom, DayBefore, Since
    <3>2. BridgeTypeOK'
      BY DEF TypeInv
    <3>3. \A S \in SUBSET (0..MaxTime) :
            /\ IsFiniteSet(S) /\ SumFunctionOnSet(moved', S) \in Nat
            /\ \A u \in S : moved'[u] \in Nat
      <4>1. \A S \in SUBSET (0..MaxTime) : IsFiniteSet(S)
        BY TimesFinite
      <4>2. \A u \in 0..MaxTime : moved'[u] \in Nat
        BY <3>2 DEF BridgeTypeOK
      <4> QED
        BY <4>1, <4>2, SumNat
    <3>4. both \subseteq 0..MaxTime
      BY <2>1
    <3>5. SumFunctionOnSet(moved', DayFrom(t)) <= SumFunctionOnSet(moved', both)
      <4> HIDE DEF both
      <4> QED
        BY <3>1, <3>3, <3>4, SumSubset
    <3>6. SumFunctionOnSet(moved', both)
            = SumFunctionOnSet(moved', DayBefore(s)) + SumFunctionOnSet(moved', Since(s))
      <4> DEFINE f == moved'
                 A == DayBefore(s)
                 B == Since(s)
      <4>1. \A u \in A \cup B : f[u] \in Int
        <5>1. \A u \in 0..MaxTime : moved'[u] \in Nat
          BY <3>2 DEF BridgeTypeOK
        <5> QED
          BY <2>1, <5>1
      <4>2. IsFiniteSet(A) /\ IsFiniteSet(B) /\ A \cap B = {}
        BY <2>1, <3>1, TimesFinite
      <4> HIDE DEF f, A, B
      <4>3. SumFunctionOnSet(f, A \cup B) = SumFunctionOnSet(f, A) + SumFunctionOnSet(f, B)
        BY <4>1, <4>2, SumUnion
      <4> QED
        BY <4>3 DEF f, A, B
    <3>7. SumFunctionOnSet(moved, DayBefore(s)) <= M
      BY DEF DayWindow
    <3>8. /\ SumFunctionOnSet(moved', DayBefore(s)) \in Nat
          /\ SumFunctionOnSet(moved', Since(s)) \in Nat
          /\ SumFunctionOnSet(moved', DayFrom(t)) \in Nat
      BY <2>1, <3>3
    <3> HIDE DEF M, s, both
    <3> QED
      BY <1>1, <1>3, <1>4, <1>5, <3>5, <3>6, <3>7, <3>8
  <2> QED
    BY <2>2, <2>3
<1> QED
  BY <1>7, <1>8 DEF BridgeDayLimit, DayFrom

\* A window stays one when nothing but time moves.
LEMMA WindowLasts ==
  ASSUME TypeInv, NEW c, DayWindow(c), moved' = moved, now' >= now, now' \in Nat,
         c.DayStartUnix \in Nat
  PROVE  /\ c.MaxAmountPerDay \in DailyMaximum
         /\ c.DayStartUnix <= now'
         /\ c.CurrentDayAmount <= Max(DailyMaximum)
         /\ SumFunctionOnSet(moved', Since(c.DayStartUnix)) <= c.CurrentDayAmount
         /\ SumFunctionOnSet(moved', DayBefore(c.DayStartUnix)) <= Max(DailyMaximum)
         /\ \A u \in 0..MaxTime : u >= c.DayStartUnix + Day => moved'[u] = 0
<1>1. now \in Nat /\ c.DayStartUnix <= now
  BY AccountAssumption DEF TypeInv, AccountsTypeOK, DayWindow
<1>2. c.DayStartUnix <= now'
  BY <1>1
<1> QED
  BY <1>2 DEF DayWindow

\* What leaves the clock, the days and what was paid alone keeps the day's limit.
LEMMA DayFrame ==
  ASSUME TypeInv, TypeInv', DayInv, UNCHANGED <<bridgeConfig, moved>>, now' >= now
  PROVE  DayInv'
<1>1. now' \in Nat
  BY AccountAssumption DEF TypeInv, AccountsTypeOK
<1>2. BridgeDayLimit'
  BY DEF DayInv, BridgeDayLimit
<1>3. CASE bridgeConfig = None
  BY <1>2, <1>3 DEF DayInv
<1>4. CASE bridgeConfig # None
  <2>1. DayWindow(bridgeConfig) /\ bridgeConfig.DayStartUnix \in Nat
    BY <1>4 DEF DayInv, TypeInv, BridgeTypeOK, BridgeConfig
  <2>2. DayWindow(bridgeConfig)'
    BY <1>1, <2>1, WindowLasts DEF DayWindow, Since, DayBefore
  <2> QED
    BY <1>2, <1>4, <2>2 DEF DayInv
<1> QED
  BY <1>3, <1>4

\* Governance changes the limit, not the window, unless it opens the first one.
LEMMA DaySetConfig ==
  ASSUME TypeInv, TypeInv', DayInv, NEW req \in BridgeSetConfigRequest, NEW r \in Relayer,
         BridgeSetConfig(req, r)
  PROVE  DayInv'
<1>1. UNCHANGED <<now, moved>> /\ now \in Nat
  BY AccountAssumption DEF BridgeSetConfig, TypeInv, AccountsTypeOK
<1>2. BridgeDayLimit'
  BY <1>1 DEF DayInv, BridgeDayLimit
<1>3. /\ bridgeConfig # None => bridgeConfig \in BridgeConfig /\ DayWindow(bridgeConfig)
      /\ bridgeConfig = None => \A u \in 0..MaxTime : moved[u] = 0
  BY DEF DayInv, TypeInv, BridgeTypeOK
<1>4. ASSUME bridgeConfig = None
      PROVE  /\ proposedConfig.DayStartUnix = now /\ proposedConfig.CurrentDayAmount = 0
             /\ proposedConfig.MaxAmountPerDay \in DailyMaximum
             /\ proposedConfig \in BridgeConfig
             /\ DayWindow(proposedConfig)
  <2>1. /\ proposedConfig.DayStartUnix = now /\ proposedConfig.CurrentDayAmount = 0
        /\ proposedConfig.MaxAmountPerDay \in DailyMaximum
    BY <1>4, MaximumLimit DEF proposedConfig
  <2>2. proposedConfig \in BridgeConfig
    BY <1>1, <1>4, MaximumLimit, BridgeAssumption DEF proposedConfig, BridgeConfig
  <2>3. /\ SumFunctionOnSet(moved, Since(now)) = 0
        /\ SumFunctionOnSet(moved, DayBefore(now)) = 0
    <3>1. /\ IsFiniteSet(Since(now)) /\ \A u \in Since(now) : moved[u] = 0
          /\ IsFiniteSet(DayBefore(now)) /\ \A u \in DayBefore(now) : moved[u] = 0
      BY <1>3, <1>4, TimesFinite DEF Since, DayBefore
    <3> QED
      BY <3>1, SumZero
  <2> QED
    BY <1>1, <1>3, <1>4, <2>1, <2>2, <2>3, MaximumLimit DEF DayWindow
<1>5. ASSUME NEW c \in BridgeConfig, DayWindow(c), NEW p, NEW q, NEW m \in DailyMaximum,
             \/ bridgeConfig' = [c EXCEPT !.Paused = p]
             \/ bridgeConfig' = [c EXCEPT !.RelayerAddress = q, !.MaxAmountPerDay = m]
      PROVE  DayWindow(bridgeConfig)'
  <2>1. /\ bridgeConfig'.DayStartUnix = c.DayStartUnix
        /\ bridgeConfig'.CurrentDayAmount = c.CurrentDayAmount
        /\ bridgeConfig'.MaxAmountPerDay \in DailyMaximum
    BY <1>5 DEF BridgeConfig, DayWindow
  <2>2. /\ Since(bridgeConfig.DayStartUnix)' = Since(c.DayStartUnix)
        /\ DayBefore(bridgeConfig.DayStartUnix)' = DayBefore(c.DayStartUnix)
    BY <2>1 DEF Since, DayBefore
  <2>3. /\ c.DayStartUnix <= now
        /\ c.CurrentDayAmount <= Max(DailyMaximum)
        /\ SumFunctionOnSet(moved, Since(c.DayStartUnix)) <= c.CurrentDayAmount
        /\ SumFunctionOnSet(moved, DayBefore(c.DayStartUnix)) <= Max(DailyMaximum)
        /\ \A u \in 0..MaxTime : u >= c.DayStartUnix + Day => moved[u] = 0
    BY <1>5 DEF DayWindow
  <2> QED
    BY <1>1, <2>1, <2>2, <2>3 DEF DayWindow
<1>6. bridgeConfig' \in BridgeConfig /\ DayWindow(bridgeConfig)'
  <2>1. CASE /\ bridgeConfig # None
             /\ bridgeConfig' = [bridgeConfig EXCEPT !.Paused = (req.Action = "pause")]
    <3>1. bridgeConfig' \in BridgeConfig
      BY <1>3, <2>1 DEF BridgeConfig
    <3>2. \E m : m \in DailyMaximum
      BY MaximumLimit
    <3> QED
      BY <1>3, <1>5, <2>1, <3>1, <3>2
  <2>2. CASE /\ req.Action = "update_config"
             /\ bridgeConfig' = [proposedConfig EXCEPT !.RelayerAddress = r,
                                                       !.MaxAmountPerDay = req.MaxAmountPerDay]
    <3>1. req.MaxAmountPerDay \in DailyMaximum
      BY <2>2 DEF BridgeSetConfigRequest
    <3>2. proposedConfig \in BridgeConfig /\ DayWindow(proposedConfig)
      <4>1. bridgeConfig # None => proposedConfig = bridgeConfig
        BY DEF proposedConfig
      <4> QED
        BY <1>3, <1>4, <4>1
    <3>3. bridgeConfig' \in BridgeConfig
      BY <2>2, <3>1, <3>2, BridgeAssumption DEF BridgeConfig
    <3> QED
      BY <1>5, <2>2, <3>1, <3>2, <3>3
  <2> QED
    BY <2>1, <2>2 DEF BridgeSetConfig
<1> QED
  BY <1>2, <1>6, BridgeNone DEF DayInv

\* What crosses in the window that is open.
LEMMA DayTakes ==
  ASSUME TypeInv, TypeInv', DayInv, BridgeOpen, NEW x \in Nat,
         withinDay(rolledWindow(bridgeConfig), x), now' = now,
         moved' = [moved EXCEPT ![now] = @ + x],
         bridgeConfig' = [rolledWindow(bridgeConfig) EXCEPT !.CurrentDayAmount = @ + x]
  PROVE  DayInv'
<1> DEFINE c == rolledWindow(bridgeConfig)
<1>1. bridgeConfig \in BridgeConfig /\ DayWindow(bridgeConfig) /\ BridgeDayLimit
  BY DEF BridgeOpen, DayInv, TypeInv, BridgeTypeOK
<1>2. c \in BridgeConfig
  BY <1>1, RolledWindow DEF TypeInv
<1>3. DayWindow(c) /\ now < c.DayStartUnix + Day
  BY <1>1, WindowRolls
<1>4. DayWindow(bridgeConfig)' /\ BridgeDayLimit'
  <2>1. withinDay(c, x) /\ bridgeConfig' = [c EXCEPT !.CurrentDayAmount = @ + x]
    OBVIOUS
  <2> HIDE DEF c
  <2> QED
    BY <1>1, <1>2, <1>3, <2>1, WindowTakes
<1>5. bridgeConfig' \in BridgeConfig
  <2>1. c.CurrentDayAmount + x \in Nat
    BY <1>2 DEF BridgeConfig
  <2> HIDE DEF c
  <2> QED
    BY <1>2, <2>1 DEF BridgeConfig, c
<1> QED
  BY <1>4, <1>5, BridgeNone DEF DayInv

\* No day sees more than twice the largest limit cross the bridge, however its windows
\* are rolled by requests, reset by refused ones and changed by governance
\* (bridge.go: the window of BridgeOut and BridgeClaim).
THEOREM DayLimit == WalletsSpec => []BridgeDayLimit
<1>1. WalletsInit => DayInv
  <2> SUFFICES ASSUME WalletsInit PROVE DayInv
    OBVIOUS
  <2>1. bridgeConfig = None /\ \A u \in 0..MaxTime : moved[u] = 0
    BY DEF WalletsInit, BridgeInit
  <2>2. ASSUME NEW t \in 0..MaxTime
        PROVE  SumFunctionOnSet(moved, DayFrom(t)) <= 2 * Max(DailyMaximum)
    <3>1. IsFiniteSet(DayFrom(t)) /\ \A u \in DayFrom(t) : moved[u] = 0
      BY <2>1, TimesFinite DEF DayFrom
    <3>2. SumFunctionOnSet(moved, DayFrom(t)) = 0
      BY <3>1, SumZero
    <3> QED
      BY <3>2, MaximumLimit
  <2> QED
    BY <2>1, <2>2 DEF DayInv, BridgeDayLimit, DayFrom
<1>2. TypeInv /\ TypeInv' /\ DayInv /\ [WalletsNext]_walletsVars => DayInv'
  <2> SUFFICES ASSUME TypeInv, TypeInv', DayInv, [WalletsNext]_walletsVars PROVE DayInv'
    OBVIOUS
  <2>1. now \in Nat /\ MaxTime \in Nat
    BY AccountAssumption DEF TypeInv, AccountsTypeOK
  <2>2. ASSUME UNCHANGED <<bridgeConfig, moved, now>> PROVE DayInv'
    BY <2>1, <2>2, DayFrame
  <2>3. ASSUME NextBlock, UNCHANGED bridgeVars PROVE DayInv'
    BY <2>1, <2>3, DayFrame DEF NextBlock, bridgeVars
  <2>4. ASSUME NEW a \in Client, BridgeOut(a) PROVE DayInv'
    <3>1. PICK x \in BridgeAmount :
            /\ withinDay(rolledWindow(bridgeConfig), x)
            /\ moved' = [moved EXCEPT ![now] = @ + x]
            /\ bridgeConfig' = [rolledWindow(bridgeConfig) EXCEPT !.CurrentDayAmount = @ + x]
      BY <2>4 DEF BridgeOut
    <3> QED
      BY <2>4, <3>1, BridgeAssumption, DayTakes DEF BridgeOut
  <2>5. CASE BridgeRefused
    <3>1. /\ bridgeConfig \in BridgeConfig /\ DayWindow(bridgeConfig) /\ BridgeDayLimit
          /\ bridgeConfig' = rolledWindow(bridgeConfig) /\ UNCHANGED <<now, moved>>
      BY <2>5 DEF BridgeRefused, BridgeOpen, DayInv, TypeInv, BridgeTypeOK
    <3>2. DayWindow(rolledWindow(bridgeConfig)) /\ rolledWindow(bridgeConfig) \in BridgeConfig
      BY <3>1, WindowRolls, RolledWindow DEF TypeInv
    <3>3. DayWindow(bridgeConfig)' /\ BridgeDayLimit' /\ bridgeConfig' \in BridgeConfig
      BY <3>1, <3>2 DEF DayWindow, Since, DayBefore, BridgeDayLimit
    <3> QED
      BY <3>3, BridgeNone DEF DayInv
  <2>6. ASSUME NEW req \in BridgeInClaimRequest, BridgeClaim(req) PROVE DayInv'
    <3>1. req.Amount \in Nat
      BY BridgeAssumption DEF BridgeInClaimRequest
    <3> QED
      BY <2>6, <3>1, DayTakes DEF BridgeClaim
  <2>7. ASSUME NEW req \in BridgeSetConfigRequest, NEW r \in Relayer, BridgeSetConfig(req, r)
        PROVE  DayInv'
    BY <2>7, DaySetConfig
  <2>8. CASE BridgeNext
    BY <2>3, <2>4, <2>5, <2>6, <2>7, <2>8 DEF BridgeNext
  <2>9. CASE MultisigNext /\ UNCHANGED bridgeVars
    BY <2>2, <2>9, MultisigStep DEF bridgeVars
  <2>10. CASE AgentNext /\ UNCHANGED bridgeVars
    <3>1. CASE \E k \in KeyID, op \in Operation : AgentRequest(k, op)
      BY <2>2, <2>10, <3>1 DEF AgentRequest, bridgeVars
    <3>2. CASE NextBlock /\ UNCHANGED agentVars
      BY <2>3, <2>10, <3>2
    <3>3. CASE ~ (\E k \in KeyID, op \in Operation : AgentRequest(k, op))
               /\ ~ (NextBlock /\ UNCHANGED agentVars)
      BY <2>2, <2>10, <3>3, KeyStep DEF bridgeVars
    <3> QED
      BY <3>1, <3>2, <3>3
  <2>11. CASE UNCHANGED walletsVars
    BY <2>2, <2>11 DEF walletsVars, accountVars, bridgeVars
  <2> QED
    BY <2>8, <2>9, <2>10, <2>11 DEF WalletsNext
<1>3. DayInv => BridgeDayLimit
  BY DEF DayInv
<1> QED
  BY <1>1, <1>2, <1>3, WalletInitTypes, WalletStepTypes, PTL DEF WalletsSpec
-----------------------------------------------------------------------------
(***************************************************************************)
(* Agent keys                                                              *)
(*                                                                         *)
(* A key's count of the day covers everything spent since the midnight its *)
(* day began after; at that midnight itself the new day has begun but the  *)
(* old one's interval has not ended, and the count covers both.            *)
(***************************************************************************)
After(a) == {u \in 0..MaxTime : u > a}

Between(a, b) == {u \in 0..MaxTime : u > a /\ u <= b}

DailyOK(key, row) ==
  key.DailyLimit > 0 =>
    /\ key.UsedToday <= key.DailyLimit
    /\ \A q \in Int : SumFunctionOnSet(row, Between(q * AgentDay - AgentDay, q * AgentDay))
                        <= key.DailyLimit

\* The record of a key that has spent row, at time t.
KeyOK(key, row, t) ==
  /\ key.UsedTotal = SumFunctionOnSet(row, 0..MaxTime)
  /\ key.TotalLimit > 0 => key.UsedTotal <= key.TotalLimit
  /\ \E q \in Int : key.DayResetAt = q * AgentDay
  /\ t >= key.DayResetAt - AgentDay
  /\ \A u \in 0..MaxTime : u > key.DayResetAt => row[u] = 0
  /\ SumFunctionOnSet(row, After(key.DayResetAt - AgentDay)) <= key.UsedToday
  /\ t <= key.DayResetAt - AgentDay =>
       SumFunctionOnSet(row, After(key.DayResetAt - AgentDay - AgentDay)) <= key.UsedToday
  /\ DailyOK(key, row)

Row == [0..MaxTime -> Nat]

KeysInv ==
  \A k \in KeyID :
    /\ agentKeys[k] = None => \A u \in 0..MaxTime : spent[k][u] = 0
    /\ agentKeys[k] # None => KeyOK(agentKeys[k], spent[k], now)

\* What was spent within a set of times.
LEMMA RowNat ==
  ASSUME NEW row \in Row, NEW S \in SUBSET (0..MaxTime)
  PROVE  IsFiniteSet(S) /\ (\A u \in S : row[u] \in Nat) /\ SumFunctionOnSet(row, S) \in Nat
<1>1. IsFiniteSet(S)
  BY TimesFinite
<1>2. \A u \in S : row[u] \in Nat
  BY DEF Row
<1> QED
  BY <1>1, <1>2, SumNat

\* A row of zeros adds up to 0.
LEMMA RowZero ==
  ASSUME NEW row \in Row, NEW S \in SUBSET (0..MaxTime), \A u \in S : row[u] = 0
  PROVE  SumFunctionOnSet(row, S) = 0
  BY TimesFinite, SumZero

\* A part of a row adds up to no more than the row.
LEMMA RowSubset ==
  ASSUME NEW row \in Row, NEW S \in SUBSET (0..MaxTime), NEW R \in SUBSET S
  PROVE  SumFunctionOnSet(row, R) <= SumFunctionOnSet(row, S)
  BY RowNat, SumSubset

\* An amount that is spent at t.
LEMMA RowMore ==
  ASSUME NEW row \in Row, NEW t \in 0..MaxTime, NEW x \in Nat, NEW S \in SUBSET (0..MaxTime)
  PROVE  LET more == [row EXCEPT ![t] = row[t] + x]
         IN  /\ more \in Row
             /\ t \in S => SumFunctionOnSet(more, S) = SumFunctionOnSet(row, S) + x
             /\ t \notin S => SumFunctionOnSet(more, S) = SumFunctionOnSet(row, S)
<1> DEFINE more == [row EXCEPT ![t] = row[t] + x]
<1>1. /\ more[t] = row[t] + x /\ row[t] \in Nat /\ more \in Row
      /\ \A u \in 0..MaxTime \ {t} : more[u] = row[u]
  BY DEF Row
<1>2. IsFiniteSet(S) /\ \A u \in S : row[u] \in Nat /\ more[u] \in Nat
  BY <1>1, RowNat
<1>3. SumFunctionOnSet(row, S) \in Nat
  BY RowNat
<1> HIDE DEF more
<1>4. CASE t \in S
  <2> DEFINE f == row
             g == more
             R == S
             z == t
  <2>1. /\ IsFiniteSet(R) /\ (\A u \in R : f[u] \in Int /\ g[u] \in Int) /\ z \in R
        /\ \A u \in R \ {z} : g[u] = f[u]
    BY <1>1, <1>2, <1>4
  <2> HIDE DEF f, g, R, z
  <2>2. SumFunctionOnSet(g, R) = SumFunctionOnSet(f, R) + (g[z] - f[z])
    BY <2>1, SumUpdate
  <2>3. SumFunctionOnSet(more, S) = SumFunctionOnSet(row, S) + (more[t] - row[t])
    BY <2>2 DEF f, g, R, z
  <2> QED
    BY <1>1, <1>3, <1>4, <2>3 DEF more
<1>5. CASE t \notin S
  <2>1. \A u \in S : row[u] \in Int /\ row[u] = more[u]
    BY <1>1, <1>2, <1>5
  <2>2. SumFunctionOnSet(row, S) = SumFunctionOnSet(more, S)
    BY <1>2, <2>1, SumEqual
  <2> QED
    BY <1>1, <1>5, <2>2 DEF more
<1> QED
  BY <1>4, <1>5

\* Two midnights are a day apart or more.
LEMMA DaysApart ==
  ASSUME NEW p \in Int, NEW q \in Int, NEW a \in Int, NEW b \in Int,
         a = p * AgentDay, b = q * AgentDay, a < b
  PROVE  a <= b - AgentDay
<1>1. AgentDay \in Nat /\ AgentDay > 0
  BY AgentKeyAssumption
<1>2. CASE q - 1 - p \in Nat
  <2>1. (q - 1 - p) * AgentDay >= 0
    BY <1>1, <1>2
  <2>2. (q - 1 - p) * AgentDay = b - AgentDay - a
    BY <1>1
  <2> QED
    BY <1>1, <2>1, <2>2
<1>3. CASE p - q \in Nat
  <2>1. (p - q) * AgentDay >= 0
    BY <1>1, <1>3
  <2>2. (p - q) * AgentDay = a - b
    BY <1>1
  <2> QED
    BY <2>1, <2>2
<1> QED
  BY <1>2, <1>3

\* One day has one midnight at its end.
LEMMA OneMidnight ==
  ASSUME NEW p \in Int, NEW q \in Int, NEW t \in Int,
         t > p * AgentDay - AgentDay, t <= p * AgentDay,
         t > q * AgentDay - AgentDay, t <= q * AgentDay
  PROVE  p = q
<1> DEFINE a == p * AgentDay
           b == q * AgentDay
<1>1. a \in Int /\ b \in Int /\ AgentDay \in Nat /\ AgentDay > 0
  BY AgentKeyAssumption
<1>2. a < b => a <= b - AgentDay
  BY <1>1, DaysApart
<1>3. b < a => b <= a - AgentDay
  BY <1>1, DaysApart
<1>4. a = b
  <2> HIDE DEF a, b
  <2>1. t > a - AgentDay /\ t <= a /\ t > b - AgentDay /\ t <= b
    BY DEF a, b
  <2> QED
    BY <1>1, <1>2, <1>3, <2>1
<1>5. (p - q) * AgentDay = 0
  BY <1>1, <1>4
<1> QED
  BY <1>1, <1>5

\* A key whose day is over begins the next one with nothing spent in it.
LEMMA KeyRolls ==
  ASSUME TypeInv, NEW key \in AgentKeyRecord, NEW row \in Row, KeyOK(key, row, now)
  PROVE  /\ KeyOK(rolloverAgentKeyDay(key), row, now)
         /\ now <= rolloverAgentKeyDay(key).DayResetAt
<1> DEFINE new == rolloverAgentKeyDay(key)
           R == key.DayResetAt
<1>1. now \in Nat /\ now \in 0..MaxTime /\ MaxTime \in Nat /\ AgentDay \in Nat /\ AgentDay > 0
  BY AccountAssumption, AgentKeyAssumption DEF TypeInv, AccountsTypeOK
<1>2. R \in Nat /\ key.UsedToday \in Nat
  BY DEF AgentKeyRecord
<1>3. CASE ~ (now > R)
  BY <1>1, <1>2, <1>3, RolloverType
<1>4. CASE now > R
  <2> DEFINE N == startOfNextDayAt(now)
  <2>1. /\ new.DayResetAt = N /\ new.UsedToday = 0 /\ new.UsedTotal = key.UsedTotal
        /\ new.TotalLimit = key.TotalLimit /\ new.DailyLimit = key.DailyLimit
        /\ new \in AgentKeyRecord
    BY <1>1, <1>4, RolloverType
  <2>2. N \in Nat /\ now < N /\ N <= now + AgentDay /\ \E q \in Nat : N = q * AgentDay
    BY <1>1, NextDay
  <2>3. \A u \in 0..MaxTime : u > R => row[u] = 0
    BY DEF KeyOK
  <2>4. PICK p \in Int, q \in Int : R = p * AgentDay /\ N = q * AgentDay
    BY <2>2 DEF KeyOK
  <2>5. R <= N - AgentDay
    <3>1. R < N /\ R \in Int /\ N \in Int
      BY <1>1, <1>2, <1>4, <2>2
    <3> HIDE DEF R, N
    <3> QED
      BY <2>4, <3>1, DaysApart
  <2>6. SumFunctionOnSet(row, After(N - AgentDay)) = 0
    <3>1. After(N - AgentDay) \subseteq 0..MaxTime /\ \A u \in After(N - AgentDay) : row[u] = 0
      BY <1>1, <1>2, <2>2, <2>3, <2>5 DEF After
    <3> QED
      BY <3>1, RowZero
  <2>7. now <= N - AgentDay => SumFunctionOnSet(row, After(N - AgentDay - AgentDay)) = 0
    <3> SUFFICES ASSUME now <= N - AgentDay
                 PROVE  SumFunctionOnSet(row, After(N - AgentDay - AgentDay)) = 0
      OBVIOUS
    <3>1. R <= N - AgentDay - AgentDay
      <4> DEFINE M == N - AgentDay
                 m == q - 1
      <4>1. R < M /\ R \in Int /\ M \in Int /\ m \in Int
        BY <1>1, <1>2, <1>4, <2>2, <2>4
      <4>2. M = m * AgentDay
        BY <1>1, <2>4
      <4> HIDE DEF R, M, m
      <4>3. R <= M - AgentDay
        BY <2>4, <4>1, <4>2, DaysApart
      <4> QED
        BY <4>3 DEF M
    <3>2. /\ After(N - AgentDay - AgentDay) \subseteq 0..MaxTime
          /\ \A u \in After(N - AgentDay - AgentDay) : row[u] = 0
      BY <1>1, <1>2, <2>2, <2>3, <3>1 DEF After
    <3> QED
      BY <3>2, RowZero
  <2>8. DailyOK(new, row)
    <3>1. DailyOK(key, row) /\ key.DailyLimit \in Nat
      BY DEF KeyOK, AgentKeyRecord
    <3> HIDE DEF new
    <3> QED
      BY <2>1, <3>1 DEF DailyOK
  <2>9. KeyOK(new, row, now)
    <3>1. \A u \in 0..MaxTime : u > N => row[u] = 0
      BY <1>1, <1>2, <2>2, <2>3, <2>5
    <3>2. /\ key.UsedTotal = SumFunctionOnSet(row, 0..MaxTime)
          /\ key.TotalLimit > 0 => key.UsedTotal <= key.TotalLimit
      BY DEF KeyOK
    <3>3. now >= N - AgentDay
      BY <1>1, <2>2
    <3> HIDE DEF new, N
    <3> QED
      BY <2>1, <2>4, <2>6, <2>7, <2>8, <3>1, <3>2, <3>3 DEF KeyOK
  <2> QED
    BY <1>1, <2>1, <2>2, <2>9
<1> QED
  BY <1>3, <1>4

\* What a key spends within its limits keeps every interval within them.
LEMMA KeySpends ==
  ASSUME TypeInv, NEW key \in AgentKeyRecord, NEW row \in Row, KeyOK(key, row, now),
         now <= key.DayResetAt, NEW x \in Nat,
         ~agentLimitExceeded(key.UsedToday, x, key.DailyLimit),
         ~agentLimitExceeded(key.UsedTotal, x, key.TotalLimit),
         NEW new \in AgentKeyRecord, new.UsedTotal = key.UsedTotal + x,
         new.UsedToday = key.UsedToday + x, new.DayResetAt = key.DayResetAt,
         new.DailyLimit = key.DailyLimit, new.TotalLimit = key.TotalLimit
  PROVE  KeyOK(new, [row EXCEPT ![now] = row[now] + x], now)
<1> DEFINE more == [row EXCEPT ![now] = row[now] + x]
           R == key.DayResetAt
<1>1. now \in Nat /\ now \in 0..MaxTime /\ MaxTime \in Nat /\ AgentDay \in Nat /\ AgentDay > 0
  BY AccountAssumption, AgentKeyAssumption DEF TypeInv, AccountsTypeOK
<1>2. /\ R \in Nat /\ key.UsedToday \in Nat /\ key.UsedTotal \in Nat
      /\ key.DailyLimit \in Nat /\ key.TotalLimit \in Nat
  BY DEF AgentKeyRecord
<1>3. ASSUME NEW S \in SUBSET (0..MaxTime)
      PROVE  /\ more \in Row /\ SumFunctionOnSet(row, S) \in Nat
             /\ SumFunctionOnSet(more, S) \in Nat
             /\ now \in S => SumFunctionOnSet(more, S) = SumFunctionOnSet(row, S) + x
             /\ now \notin S => SumFunctionOnSet(more, S) = SumFunctionOnSet(row, S)
  BY <1>1, RowMore, RowNat
<1>4. /\ key.TotalLimit > 0 => key.UsedTotal + x <= key.TotalLimit
      /\ key.DailyLimit > 0 => key.UsedToday + x <= key.DailyLimit
  BY <1>2 DEF agentLimitExceeded
<1>5. \A u \in 0..MaxTime : u > R => more[u] = 0
  <2>1. \A u \in 0..MaxTime : u > R => row[u] = 0
    BY DEF KeyOK
  <2>2. \A u \in 0..MaxTime : u # now => more[u] = row[u]
    BY DEF Row
  <2> QED
    BY <1>1, <1>2, <2>1, <2>2
<1> HIDE DEF more
<1>6. ASSUME NEW a \in Int, SumFunctionOnSet(row, After(a)) <= key.UsedToday
      PROVE  SumFunctionOnSet(more, After(a)) <= key.UsedToday + x
  <2>1. After(a) \subseteq 0..MaxTime
    BY DEF After
  <2> QED
    BY <1>2, <1>3, <1>6, <2>1
<1>7. SumFunctionOnSet(more, After(R - AgentDay)) <= key.UsedToday + x
  BY <1>1, <1>2, <1>6 DEF KeyOK
<1>8. now <= R - AgentDay =>
        SumFunctionOnSet(more, After(R - AgentDay - AgentDay)) <= key.UsedToday + x
  BY <1>1, <1>2, <1>6 DEF KeyOK
<1>9. now >= R - AgentDay /\ \E q \in Int : R = q * AgentDay
  BY DEF KeyOK
<1>10. DailyOK(new, more)
  <2> SUFFICES ASSUME key.DailyLimit > 0, NEW m \in Int
               PROVE  SumFunctionOnSet(more, Between(m * AgentDay - AgentDay, m * AgentDay))
                        <= key.DailyLimit
    BY <1>2, <1>4 DEF DailyOK
  <2> DEFINE M == m * AgentDay
             S == Between(M - AgentDay, M)
  <2>1. M \in Int /\ S \subseteq 0..MaxTime
    BY <1>1 DEF Between
  <2>2. CASE now \notin S
    <3>1. SumFunctionOnSet(row, S) <= key.DailyLimit
      BY DEF KeyOK, DailyOK
    <3>2. SumFunctionOnSet(more, S) = SumFunctionOnSet(row, S)
      <4> HIDE DEF S
      <4> QED
        BY <1>3, <2>1, <2>2
    <3> QED
      BY <3>1, <3>2
  <2>3. CASE now \in S
    <3>1. now > M - AgentDay /\ now <= M
      BY <2>3 DEF Between
    <3>2. PICK q \in Int : R = q * AgentDay
      BY <1>9
    <3>3. \E a \in Int : S \subseteq After(a) /\ SumFunctionOnSet(more, After(a)) <= key.UsedToday + x
      <4>1. CASE now > R - AgentDay
        <5>1. m = q
          BY <1>1, <1>2, <3>1, <3>2, <4>1, OneMidnight
        <5>2. S \subseteq After(R - AgentDay)
          BY <1>1, <3>2, <5>1 DEF Between, After
        <5> QED
          BY <1>1, <1>2, <1>7, <5>2
      <4>2. CASE now <= R - AgentDay
        <5>1. (q - 1) * AgentDay = R - AgentDay
          BY <1>1, <3>2
        <5>2. now > (q - 1) * AgentDay - AgentDay /\ now <= (q - 1) * AgentDay
          BY <1>1, <1>2, <1>9, <4>2, <5>1
        <5>3. m = q - 1
          BY <1>1, <3>1, <5>2, OneMidnight
        <5>4. M = R - AgentDay
          BY <5>1, <5>3
        <5> HIDE DEF M
        <5>5. S \subseteq After(R - AgentDay - AgentDay)
          BY <1>1, <1>2, <5>4 DEF Between, After
        <5> QED
          BY <1>1, <1>2, <1>8, <4>2, <5>5
      <4> QED
        BY <1>1, <1>2, <4>1, <4>2
    <3>4. PICK a \in Int : S \subseteq After(a) /\ SumFunctionOnSet(more, After(a)) <= key.UsedToday + x
      BY <3>3
    <3>5. After(a) \subseteq 0..MaxTime
      BY DEF After
    <3>6. SumFunctionOnSet(more, S) <= SumFunctionOnSet(more, After(a))
      <4>1. more \in Row
        BY <1>3, <3>5
      <4> HIDE DEF S
      <4> QED
        BY <3>4, <3>5, <4>1, RowSubset
    <3>7. SumFunctionOnSet(more, S) \in Nat /\ SumFunctionOnSet(more, After(a)) \in Nat
      <4> HIDE DEF S
      <4> QED
        BY <1>3, <2>1, <3>5
    <3> HIDE DEF S
    <3>8. SumFunctionOnSet(more, S) <= key.DailyLimit
      BY <1>2, <1>4, <3>4, <3>6, <3>7
    <3> QED
      BY <3>8 DEF S
  <2> QED
    BY <2>2, <2>3
<1>11. key.UsedTotal + x = SumFunctionOnSet(more, 0..MaxTime)
  <2>1. key.UsedTotal = SumFunctionOnSet(row, 0..MaxTime)
    BY DEF KeyOK
  <2> QED
    BY <1>1, <1>3, <2>1
<1> QED
  BY <1>4, <1>5, <1>7, <1>8, <1>9, <1>10, <1>11 DEF KeyOK, more

\* A key's record stays right while its limits and counts do.
LEMMA KeySame ==
  ASSUME TypeInv, NEW key \in AgentKeyRecord, NEW row \in Row, NEW t \in Nat, NEW s \in Nat,
         KeyOK(key, row, t), s >= t, NEW new \in AgentKeyRecord,
         new.UsedTotal = key.UsedTotal, new.UsedToday = key.UsedToday,
         new.DayResetAt = key.DayResetAt, new.DailyLimit = key.DailyLimit,
         \/ new.TotalLimit = key.TotalLimit
         \/ new.TotalLimit >= key.UsedTotal
  PROVE  KeyOK(new, row, s)
<1>1. AgentDay \in Nat /\ key.DayResetAt \in Nat /\ key.UsedTotal \in Nat /\ key.TotalLimit \in Nat
  BY AgentKeyAssumption DEF AgentKeyRecord
<1>2. DailyOK(new, row)
  BY DEF KeyOK, DailyOK
<1>3. /\ s >= key.DayResetAt - AgentDay
      /\ s <= key.DayResetAt - AgentDay => t <= key.DayResetAt - AgentDay
  BY <1>1 DEF KeyOK
<1>4. new.TotalLimit > 0 => new.UsedTotal <= new.TotalLimit
  BY <1>1 DEF KeyOK
<1> QED
  BY <1>2, <1>3, <1>4 DEF KeyOK

\* A new key has spent nothing.
LEMMA KeyBegins ==
  ASSUME TypeInv, NEW key \in AgentKeyRecord, NEW row \in Row, \A u \in 0..MaxTime : row[u] = 0,
         key.UsedTotal = 0, key.UsedToday = 0, key.DayResetAt = startOfNextDayAt(now)
  PROVE  KeyOK(key, row, now)
<1> DEFINE R == key.DayResetAt
<1>1. now \in Nat /\ AgentDay \in Nat /\ key.TotalLimit \in Nat /\ key.DailyLimit \in Nat
  BY AgentKeyAssumption DEF AgentKeyRecord, TypeInv, AccountsTypeOK
<1>2. R \in Nat /\ R <= now + AgentDay /\ \E q \in Nat : R = q * AgentDay
  BY <1>1, NextDay
<1>3. ASSUME NEW S \in SUBSET (0..MaxTime) PROVE SumFunctionOnSet(row, S) = 0
  BY <1>3, RowZero
<1>4. \A a : After(a) \in SUBSET (0..MaxTime)
  BY DEF After
<1>5. \A a, b : Between(a, b) \in SUBSET (0..MaxTime)
  BY DEF Between
<1>6. DailyOK(key, row)
  BY <1>1, <1>3, <1>5 DEF DailyOK
<1>7. now >= R - AgentDay /\ \E q \in Int : R = q * AgentDay
  BY <1>1, <1>2
<1>8. key.UsedTotal = SumFunctionOnSet(row, 0..MaxTime)
  BY <1>3
<1>9. /\ SumFunctionOnSet(row, After(R - AgentDay)) <= key.UsedToday
      /\ SumFunctionOnSet(row, After(R - AgentDay - AgentDay)) <= key.UsedToday
  BY <1>3, <1>4
<1>10. key.TotalLimit > 0 => key.UsedTotal <= key.TotalLimit
  BY <1>1
<1> QED
  BY <1>6, <1>7, <1>8, <1>9, <1>10 DEF KeyOK

\* Nothing but the agents' own part moves their keys; a block only moves the clock.
LEMMA KeysFrame ==
  ASSUME TypeInv, TypeInv', KeysInv, UNCHANGED <<agentKeys, spent>>, now' >= now
  PROVE  KeysInv'
<1>1. now \in Nat /\ now' \in Nat
  BY DEF TypeInv, AccountsTypeOK
<1>2. ASSUME NEW k \in KeyID, agentKeys[k] # None PROVE KeyOK(agentKeys[k], spent[k], now')
  <2>1. agentKeys[k] \in AgentKeyRecord /\ spent[k] \in Row /\ KeyOK(agentKeys[k], spent[k], now)
    BY <1>2 DEF TypeInv, AgentTypeOK, KeysInv, Row
  <2> QED
    BY <1>1, <2>1, KeySame
<1> QED
  BY <1>2 DEF KeysInv, KeyOK, DailyOK, After, Between

\* An agent's own part.
LEMMA KeysAgent ==
  ASSUME TypeInv, TypeInv', KeysInv, AgentNext, UNCHANGED <<bridgeVars, multisigVars>>
  PROVE  KeysInv'
<1>1. now \in Nat
  BY DEF TypeInv, AccountsTypeOK
<1>2. SUFFICES ASSUME NEW k \in KeyID
               PROVE  /\ agentKeys'[k] = None => \A u \in 0..MaxTime : spent'[k][u] = 0
                      /\ agentKeys'[k] # None => KeyOK(agentKeys'[k], spent'[k], now')
  BY DEF KeysInv, KeyOK, DailyOK, After, Between
<1>3. /\ agentKeys[k] \in AgentKeyRecord \cup {None} /\ spent[k] \in Row
      /\ agentKeys'[k] \in AgentKeyRecord \cup {None} /\ spent'[k] \in Row
      /\ agentKeys \in [KeyID -> AgentKeyRecord \cup {None}] /\ spent \in [KeyID -> Row]
  BY DEF TypeInv, AgentTypeOK, Row
<1>4. /\ agentKeys[k] = None => \A u \in 0..MaxTime : spent[k][u] = 0
      /\ agentKeys[k] # None => KeyOK(agentKeys[k], spent[k], now)
  BY DEF KeysInv
<1>5. ASSUME NEW j \in KeyID, NEW op \in Operation, AgentRequest(j, op)
      PROVE  /\ agentKeys'[k] = None => \A u \in 0..MaxTime : spent'[k][u] = 0
             /\ agentKeys'[k] # None => KeyOK(agentKeys'[k], spent'[k], now')
  <2>1. PICK x \in Nat :
           /\ agentKeys[j] # None /\ agentKeys[j] \in AgentKeyRecord
           /\ verifyAgentRequest(agentKeys[j], op, x)
           /\ agentKeys' = [agentKeys EXCEPT ![j] = applyAgentKeyUsage(agentKeys[j], x)]
           /\ spent' = [spent EXCEPT ![j] = [spent[j] EXCEPT ![now] = spent[j][now] + x]]
           /\ now' = now
    BY <1>5, RequestStep
  <2>2. CASE k # j
    BY <1>3, <1>4, <2>1, <2>2
  <2>3. CASE k = j
    <3> DEFINE key == agentKeys[k]
               row == spent[k]
               rolled == rolloverAgentKeyDay(key)
               new == applyAgentKeyUsage(key, x)
    <3>1. /\ key \in AgentKeyRecord /\ row \in Row /\ KeyOK(key, row, now)
          /\ agentKeys'[k] = new /\ spent'[k] = [row EXCEPT ![now] = row[now] + x]
      BY <1>3, <1>4, <2>1, <2>3
    <3>2. /\ rolled \in AgentKeyRecord /\ rolled.UsedTotal = key.UsedTotal
          /\ rolled.DailyLimit = key.DailyLimit /\ rolled.TotalLimit = key.TotalLimit
      BY <1>1, <3>1, RolloverType
    <3>3. KeyOK(rolled, row, now) /\ now <= rolled.DayResetAt
      BY <3>1, KeyRolls
    <3>4. /\ new \in AgentKeyRecord /\ new.UsedTotal = key.UsedTotal + x
          /\ new.UsedToday = rolled.UsedToday + x /\ new.DayResetAt = rolled.DayResetAt
          /\ new.DailyLimit = key.DailyLimit /\ new.TotalLimit = key.TotalLimit
      BY <1>1, <3>1, UsageType
    <3>5. /\ ~agentLimitExceeded(rolled.UsedToday, x, rolled.DailyLimit)
          /\ ~agentLimitExceeded(rolled.UsedTotal, x, rolled.TotalLimit)
      BY <2>1, <2>3, <3>2 DEF verifyAgentRequest
    <3>6. agentKeys'[k] # None
      BY <3>1, <3>4, AgentNone
    <3> HIDE DEF new, rolled, key, row
    <3>7. KeyOK(new, [row EXCEPT ![now] = row[now] + x], now)
      BY <3>1, <3>2, <3>3, <3>4, <3>5, KeySpends
    <3> QED
      BY <2>1, <3>1, <3>6, <3>7
  <2> QED
    BY <2>2, <2>3
<1>6. CASE NextBlock /\ UNCHANGED agentVars
  <2>1. now' >= now /\ UNCHANGED <<agentKeys, spent>>
    BY <1>1, <1>6 DEF NextBlock, agentVars
  <2>2. KeysInv'
    BY <2>1, KeysFrame
  <2> QED
    BY <2>2 DEF KeysInv, KeyOK, DailyOK, After, Between
<1>7. CASE /\ ~ \E j \in KeyID, op \in Operation : AgentRequest(j, op)
           /\ ~ (NextBlock /\ UNCHANGED agentVars)
  <2>1. /\ UNCHANGED <<now, spent>>
        /\ \E j \in KeyID :
              \/ /\ agentKeys[j] = None
                 /\ \E a \in Client, pub \in AgentPub, P \in SUBSET Operation,
                       daily \in Limit, total \in Limit, expires \in 0..MaxTime :
                      agentKeys' = [agentKeys EXCEPT ![j] =
                                      newAgentKey(a, pub, P, daily, total, expires)]
              \/ /\ agentKeys[j] # None
                 /\ \/ agentKeys' = [agentKeys EXCEPT ![j].Revoked = TRUE]
                    \/ \E e \in 0..MaxTime : agentKeys' = [agentKeys EXCEPT ![j].ExpiresAt = e]
                    \/ \E total \in Limit :
                         /\ total >= agentKeys[j].UsedTotal
                         /\ agentKeys' = [agentKeys EXCEPT ![j].TotalLimit = total]
                    \/ agentKeys' = [agentKeys EXCEPT ![j] = rolloverAgentKeyDay(@)]
    BY <1>7, KeyStep
  <2>2. CASE agentKeys'[k] = agentKeys[k]
    BY <1>4, <2>1, <2>2
  <2>3. CASE agentKeys'[k] # agentKeys[k] /\ agentKeys[k] = None
    <3>1. PICK a \in Client, pub \in AgentPub, P \in SUBSET Operation,
               daily \in Limit, total \in Limit, expires \in 0..MaxTime :
             agentKeys'[k] = newAgentKey(a, pub, P, daily, total, expires)
      BY <1>3, <2>1, <2>3
    <3> DEFINE key == newAgentKey(a, pub, P, daily, total, expires)
    <3>2. /\ key \in AgentKeyRecord /\ key.UsedTotal = 0 /\ key.UsedToday = 0
          /\ key.DayResetAt = startOfNextDayAt(now)
      BY <1>1, AccountAssumption, NewKeyType
    <3>3. key # None
      BY <3>2, AgentNone
    <3> HIDE DEF key
    <3>4. KeyOK(key, spent[k], now)
      BY <1>3, <1>4, <2>3, <3>2, KeyBegins
    <3> QED
      BY <2>1, <3>1, <3>3, <3>4 DEF key
  <2>4. CASE agentKeys'[k] # agentKeys[k] /\ agentKeys[k] # None
    <3> DEFINE key == agentKeys[k]
               new == agentKeys'[k]
    <3>1. key \in AgentKeyRecord /\ KeyOK(key, spent[k], now)
      BY <1>3, <1>4, <2>4
    <3>2. \/ new = [key EXCEPT !.Revoked = TRUE]
          \/ \E e \in 0..MaxTime : new = [key EXCEPT !.ExpiresAt = e]
          \/ \E total \in Limit : total >= key.UsedTotal /\ new = [key EXCEPT !.TotalLimit = total]
          \/ new = rolloverAgentKeyDay(key)
      BY <1>3, <2>1, <2>4
    <3>3. new \in AgentKeyRecord
      <4>1. rolloverAgentKeyDay(key) \in AgentKeyRecord
        BY <1>1, <3>1, RolloverType
      <4> HIDE DEF key, new
      <4>2. [key EXCEPT !.Revoked = TRUE] \in AgentKeyRecord
        BY <3>1 DEF AgentKeyRecord
      <4>3. \A e \in 0..MaxTime : [key EXCEPT !.ExpiresAt = e] \in AgentKeyRecord
        BY <3>1, AccountAssumption DEF AgentKeyRecord
      <4>4. \A total \in Limit : [key EXCEPT !.TotalLimit = total] \in AgentKeyRecord
        BY <3>1, AgentKeyAssumption DEF AgentKeyRecord
      <4> QED
        BY <3>2, <4>1, <4>2, <4>3, <4>4
    <3>4. CASE new = rolloverAgentKeyDay(key)
      BY <1>3, <2>1, <2>4, <3>1, <3>3, <3>4, KeyRolls, AgentNone
    <3>5. CASE new # rolloverAgentKeyDay(key)
      <4>1. /\ new.UsedTotal = key.UsedTotal /\ new.UsedToday = key.UsedToday
            /\ new.DayResetAt = key.DayResetAt /\ new.DailyLimit = key.DailyLimit
            /\ new.TotalLimit = key.TotalLimit \/ new.TotalLimit >= key.UsedTotal
        BY <3>1, <3>2, <3>5 DEF AgentKeyRecord
      <4> HIDE DEF key, new
      <4>2. KeyOK(new, spent[k], now)
        BY <1>1, <1>3, <3>1, <3>3, <4>1, KeySame
      <4> QED
        BY <2>1, <3>3, <4>2, AgentNone DEF new
    <3> QED
      BY <3>4, <3>5
  <2> QED
    BY <2>2, <2>3, <2>4
<1> QED
  BY <1>5, <1>6, <1>7

\* A key whose record is right is within its limits.
LEMMA KeysLimits ==
  ASSUME TypeInv, KeysInv
  PROVE  AgentLimits
<1>1. AgentTypeOK
  BY DEF TypeInv
<1>2. AgentTotalLimit
  BY <1>1 DEF KeysInv, KeyOK, AgentTotalLimit
<1>3. AgentDayLimit
  <2> SUFFICES ASSUME NEW k \in KeyID, agentKeys[k] # None, agentKeys[k].DailyLimit > 0,
                      NEW m \in 0..MaxTime + AgentDay, m % AgentDay = 0
               PROVE  SumFunctionOnSet(spent[k], {t \in 0..MaxTime : t > m - AgentDay /\ t <= m})
                        <= agentKeys[k].DailyLimit
    BY DEF AgentDayLimit
  <2>1. m \in Int /\ AgentDay \in Nat /\ AgentDay > 0
    BY AccountAssumption, AgentKeyAssumption
  <2>2. m = AgentDay * (m \div AgentDay) + (m % AgentDay) /\ m \div AgentDay \in Int
    BY <2>1
  <2>3. PICK q \in Int : m = q * AgentDay
    BY <2>1, <2>2
  <2>4. DailyOK(agentKeys[k], spent[k])
    BY DEF KeysInv, KeyOK
  <2>5. SumFunctionOnSet(spent[k], Between(q * AgentDay - AgentDay, q * AgentDay))
          <= agentKeys[k].DailyLimit
    BY <2>4 DEF DailyOK
  <2> QED
    BY <2>3, <2>5 DEF Between
<1> QED
  BY <1>1, <1>2, <1>3 DEF AgentLimits

\* A key never spends more than its total limit, and never more than its daily limit
\* between two midnights, whatever else happens to the accounts.
THEOREM KeysKeepLimits == WalletsSpec => []AgentLimits
<1>1. WalletsInit => KeysInv
  <2> SUFFICES ASSUME WalletsInit PROVE KeysInv
    OBVIOUS
  <2> QED
    BY DEF WalletsInit, AgentInit, KeysInv
<1>2. TypeInv /\ TypeInv' /\ KeysInv /\ [WalletsNext]_walletsVars => KeysInv'
  <2> SUFFICES ASSUME TypeInv, TypeInv', KeysInv, [WalletsNext]_walletsVars PROVE KeysInv'
    OBVIOUS
  <2>1. now \in Nat /\ now' \in Nat
    BY DEF TypeInv, AccountsTypeOK
  <2>2. CASE BridgeNext /\ UNCHANGED <<multisigVars, agentVars>>
    <3>1. now' = now \/ now' = now + 1
      BY <2>2 DEF BridgeNext, NextBlock, BridgeOut, BridgeRefused, BridgeClaim, BridgeSetConfig
    <3> QED
      BY <2>1, <2>2, <3>1, KeysFrame DEF agentVars
  <2>3. CASE MultisigNext /\ UNCHANGED <<bridgeVars, agentVars>>
    BY <2>1, <2>3, MultisigStep, KeysFrame DEF agentVars
  <2>4. CASE AgentNext /\ UNCHANGED <<bridgeVars, multisigVars>>
    BY <2>4, KeysAgent
  <2>5. CASE UNCHANGED walletsVars
    BY <2>1, <2>5, KeysFrame DEF walletsVars, accountVars, agentVars
  <2> QED
    BY <2>2, <2>3, <2>4, <2>5 DEF WalletsNext
<1> QED
  BY <1>1, <1>2, WalletInitTypes, WalletStepTypes, KeysLimits, PTL DEF WalletsSpec
-----------------------------------------------------------------------------
(***************************************************************************)
(* Multisig wallets                                                        *)
(***************************************************************************)
\* A wallet that could act once can act again, after any changes to its signers and its
\* threshold (multisig.go: execUpdateSigners, execUpdateThreshold).
THEOREM NeverStuck == WalletsSpec => []WalletNeverStuck
<1>1. WalletsInit => WalletNeverStuck
  BY DEF WalletsInit, MultisigInit, WalletNeverStuck
<1>2. TypeInv /\ WalletNeverStuck /\ [WalletsNext]_walletsVars => WalletNeverStuck'
  <2> SUFFICES ASSUME TypeInv, WalletNeverStuck, [WalletsNext]_walletsVars PROVE WalletNeverStuck'
    OBVIOUS
  <2>1. CASE UNCHANGED wallets
    BY <2>1 DEF WalletNeverStuck
  <2>2. CASE MultisigNext
    <3>1. PICK w \in Wallet :
            \/ \E n \in {0, 1} : wallets' =
                 [wallets EXCEPT ![w] = [Signers |-> w.Signers, Threshold |-> w.Threshold,
                                         Nonce |-> n]]
            \/ (\E least \in {1, 2} : ExecOperation(w, least)) /\ wallets[w] # None
      BY <2>2, MultisigStep
    <3>2. wallets \in [Wallet -> MultisigWallet \cup {None}]
      BY DEF TypeInv, MultisigTypeOK
    <3>3. \A S \in SUBSET Signer : Cardinality(S) \in Nat
      BY MultisigAssumption, FS_Subset, FS_CardinalityType
    <3>4. \A v \in Wallet : v.Threshold \in Nat /\ v.Signers \in SUBSET Signer
      BY MultisigAssumption
    <3>5. CASE \E n \in {0, 1} : wallets' =
                 [wallets EXCEPT ![w] = [Signers |-> w.Signers, Threshold |-> w.Threshold,
                                         Nonce |-> n]]
      <4>1. /\ wallets'[w].Signers = w.Signers /\ wallets'[w].Threshold = w.Threshold
            /\ \A v \in Wallet \ {w} : wallets'[v] = wallets[v]
        BY <3>2, <3>5
      <4>2. validSigners(w.Signers, w.Threshold) =>
              w.Threshold \in 1..Cardinality(w.Signers)
        BY <3>3, <3>4 DEF validSigners
      <4> QED
        BY <4>1, <4>2 DEF WalletNeverStuck
    <3>6. CASE (\E least \in {1, 2} : ExecOperation(w, least)) /\ wallets[w] # None
      <4>1. PICK least \in {1, 2} : ExecOperation(w, least)
        BY <3>6
      <4>2. wallets[w] \in MultisigWallet
        BY <3>2, <3>6
      <4>3. CASE wallets' = [wallets EXCEPT ![w].Nonce = @ + 1]
        <5>1. /\ wallets'[w].Signers = wallets[w].Signers
              /\ wallets'[w].Threshold = wallets[w].Threshold
              /\ \A v \in Wallet \ {w} : wallets'[v] = wallets[v]
          BY <3>2, <4>2, <4>3 DEF MultisigWallet
        <5> QED
          BY <3>6, <5>1 DEF WalletNeverStuck
      <4>4. CASE ExecUpdateSigners(w)
        <5>1. PICK S \in SUBSET Signer, t \in 0..Cardinality(Signer) :
                /\ validSigners(S, t)
                /\ wallets' = [wallets EXCEPT ![w] = [Signers |-> S, Threshold |-> t,
                                                      Nonce |-> @.Nonce + 1]]
          BY <4>4 DEF ExecUpdateSigners
        <5>2. /\ wallets'[w].Signers = S /\ wallets'[w].Threshold = t
              /\ \A v \in Wallet \ {w} : wallets'[v] = wallets[v]
          BY <3>2, <5>1
        <5>3. t \in 1..Cardinality(S)
          BY <3>3, <5>1 DEF validSigners
        <5> QED
          BY <5>2, <5>3 DEF WalletNeverStuck
      <4>5. CASE ExecUpdateThreshold(w, least)
        <5>1. PICK t \in 0..Cardinality(Signer) :
                /\ t >= least /\ t <= Cardinality(wallets[w].Signers)
                /\ wallets' = [wallets EXCEPT ![w] = [Signers |-> @.Signers, Threshold |-> t,
                                                      Nonce |-> @.Nonce + 1]]
          BY <4>5 DEF ExecUpdateThreshold
        <5>2. /\ wallets'[w].Signers = wallets[w].Signers /\ wallets'[w].Threshold = t
              /\ \A v \in Wallet \ {w} : wallets'[v] = wallets[v]
          BY <3>2, <5>1
        <5>3. t \in 1..Cardinality(wallets[w].Signers)
          <6>1. Cardinality(Signer) \in Nat /\ Cardinality(wallets[w].Signers) \in Nat
            BY <3>3, <4>2 DEF MultisigWallet
          <6> QED
            BY <5>1, <6>1
        <5> QED
          BY <5>2, <5>3 DEF WalletNeverStuck
      <4> QED
        BY <4>1, <4>3, <4>4, <4>5
           DEF ExecOperation, ExecTransfer, ExecBatchTransfer, ExecCreateIntent
    <3> QED
      BY <3>1, <3>5, <3>6
  <2> QED
    BY <2>1, <2>2 DEF WalletsNext, walletsVars, multisigVars
<1> QED
  BY <1>1, <1>2, WalletInitTypes, WalletStepTypes, PTL DEF WalletsSpec
-----------------------------------------------------------------------------
(***************************************************************************)
(* All tokens                                                              *)
(***************************************************************************)
\* What one account gets changes the sum by as much.
LEMMA OneAccount ==
  ASSUME NEW b, NEW c, NEW a \in Account, \A y \in Account : b[y] \in Nat /\ c[y] \in Nat,
         \A y \in Account \ {a} : c[y] = b[y]
  PROVE  /\ SumFunctionOnSet(b, Account) \in Nat /\ SumFunctionOnSet(c, Account) \in Nat
         /\ SumFunctionOnSet(c, Account) = SumFunctionOnSet(b, Account) + (c[a] - b[a])
<1> DEFINE S == Account
           f == b
           g == c
           x == a
<1>1. IsFiniteSet(S) /\ x \in S /\ \A y \in S \ {x} : g[y] = f[y]
  BY AccountAssumption
<1>2. \A y \in S : f[y] \in Int /\ g[y] \in Int
  OBVIOUS
<1>3. SumFunctionOnSet(b, S) \in Nat /\ SumFunctionOnSet(c, S) \in Nat
  BY <1>1, SumNat
<1> HIDE DEF S, f, g, x
<1>4. SumFunctionOnSet(g, S) = SumFunctionOnSet(f, S) + (g[x] - f[x])
  BY <1>1, <1>2, SumUpdate
<1> QED
  BY <1>3, <1>4 DEF S, f, g, x

\* The same for two accounts.
LEMMA TwoAccounts ==
  ASSUME NEW b, NEW c, NEW p \in Account, NEW q \in Account, p # q,
         \A y \in Account : b[y] \in Nat /\ c[y] \in Nat,
         \A y \in Account \ {p, q} : c[y] = b[y]
  PROVE  /\ SumFunctionOnSet(b, Account) \in Nat /\ SumFunctionOnSet(c, Account) \in Nat
         /\ SumFunctionOnSet(c, Account)
              = SumFunctionOnSet(b, Account) + (c[p] - b[p]) + (c[q] - b[q])
<1> DEFINE m == [y \in Account |-> IF y = p THEN c[p] ELSE b[y]]
<1>1. /\ m[p] = c[p] /\ m[q] = b[q] /\ b[p] \in Nat /\ c[p] \in Nat /\ b[q] \in Nat /\ c[q] \in Nat
      /\ \A y \in Account : m[y] \in Nat
      /\ \A y \in Account \ {p} : m[y] = b[y]
      /\ \A y \in Account \ {q} : c[y] = m[y]
  OBVIOUS
<1> HIDE DEF m
<1>2. /\ SumFunctionOnSet(b, Account) \in Nat /\ SumFunctionOnSet(m, Account) \in Nat
      /\ SumFunctionOnSet(m, Account) = SumFunctionOnSet(b, Account) + (m[p] - b[p])
  BY <1>1, OneAccount
<1>3. /\ SumFunctionOnSet(c, Account) \in Nat
      /\ SumFunctionOnSet(c, Account) = SumFunctionOnSet(m, Account) + (c[q] - m[q])
  BY <1>1, OneAccount
<1> QED
  BY <1>1, <1>2, <1>3

\* The bridge moves tokens between the pool and its users.
LEMMA BridgeConserves ==
  ASSUME TypeInv, TypeInv', BridgeNext
  PROVE  Tokens' = Tokens
<1> DEFINE b == balance
           c == balance'
<1>1. /\ \A y \in Account : b[y] \in Nat /\ c[y] \in Nat
      /\ b \in [Account -> Nat] /\ Pool \in Account /\ Pool \notin Client /\ Client \subseteq Account
  BY AccountAssumption, BridgeAssumption DEF TypeInv, AccountsTypeOK
<1>2. SumFunctionOnSet(c, Account) = SumFunctionOnSet(b, Account)
  <2>1. CASE UNCHANGED balance
    BY <2>1
  <2>2. ASSUME NEW p \in Account, NEW q \in Account, NEW d \in Nat, p # q,
               c = [b EXCEPT ![p] = b[p] - d, ![q] = b[q] + d]
        PROVE  SumFunctionOnSet(c, Account) = SumFunctionOnSet(b, Account)
    <3>1. c[p] = b[p] - d /\ c[q] = b[q] + d /\ \A y \in Account \ {p, q} : c[y] = b[y]
      BY <1>1, <2>2
    <3>2. b[p] \in Nat /\ b[q] \in Nat
      BY <1>1
    <3>4. (\A y \in Account : b[y] \in Nat /\ c[y] \in Nat) /\ p # q
      BY <1>1, <2>2
    <3> HIDE DEF b, c
    <3>3. /\ SumFunctionOnSet(b, Account) \in Nat /\ SumFunctionOnSet(c, Account) \in Nat
          /\ SumFunctionOnSet(c, Account)
              = SumFunctionOnSet(b, Account) + (c[p] - b[p]) + (c[q] - b[q])
      BY <3>1, <3>4, TwoAccounts
    <3> QED
      BY <3>1, <3>2, <3>3
  <2>3. ASSUME NEW a \in Client, BridgeOut(a)
        PROVE  SumFunctionOnSet(c, Account) = SumFunctionOnSet(b, Account)
    <3>1. PICK x \in BridgeAmount :
            balance' = [balance EXCEPT ![a] = @ - (x + BridgeFee),
                                       ![Pool] = @ + x + BridgeFee]
      BY <2>3 DEF BridgeOut
    <3>2. x + BridgeFee \in Nat /\ x \in Nat /\ BridgeFee \in Nat
      BY BridgeAssumption
    <3>3. a # Pool /\ a \in Account /\ b[Pool] \in Nat
      BY <1>1
    <3>4. b[Pool] + x + BridgeFee = b[Pool] + (x + BridgeFee)
      BY <3>2, <3>3
    <3>5. c = [b EXCEPT ![a] = b[a] - (x + BridgeFee), ![Pool] = b[Pool] + (x + BridgeFee)]
      BY <1>1, <3>1, <3>3, <3>4
    <3> QED
      BY <1>1, <2>2, <3>2, <3>3, <3>5
  <2>4. ASSUME NEW req \in BridgeInClaimRequest, BridgeClaim(req)
        PROVE  SumFunctionOnSet(c, Account) = SumFunctionOnSet(b, Account)
    <3>1. req.Amount \in Nat /\ req.Recipient \in Account /\ req.Recipient # Pool
      BY <1>1, BridgeAssumption DEF BridgeInClaimRequest
    <3>2. c = [b EXCEPT ![Pool] = b[Pool] - req.Amount,
                        ![req.Recipient] = b[req.Recipient] + req.Amount]
      BY <1>1, <2>4, <3>1 DEF BridgeClaim
    <3> QED
      BY <1>1, <2>2, <3>1, <3>2
  <2> QED
    BY <2>1, <2>3, <2>4 DEF BridgeNext, BridgeRefused, BridgeSetConfig, NextBlock
<1>3. UNCHANGED lockedStorage
  BY DEF BridgeNext, BridgeOut, BridgeRefused, BridgeClaim, BridgeSetConfig, NextBlock
<1> QED
  BY <1>2, <1>3 DEF Tokens

\* What a wallet pays reaches the payees, the fees or an intent, unless it pays itself.
LEMMA MultisigConserves ==
  ASSUME TypeInv, TypeInv', MultisigNext, ~selfPaid'
  PROVE  /\ ~selfPaid
         /\ Tokens' + walletIntents' + feesTaken' = Tokens + walletIntents + feesTaken
<1>1. PICK w \in Wallet :
        /\ UNCHANGED lockedStorage
        /\ \/ UNCHANGED <<balance, walletIntents, feesTaken, selfPaid>>
           \/ \E least \in {1, 2} : ExecOperation(w, least)
  BY MultisigStep
<1> DEFINE b == balance
           c == balance'
           before == SumFunctionOnSet(balance, Account)
           after == SumFunctionOnSet(balance', Account)
           locked == SumFunctionOnSet(lockedStorage, Account)
<1>2. /\ b \in [Account -> Nat] /\ \A y \in Account : b[y] \in Nat /\ c[y] \in Nat
      /\ w \in Account /\ ExecFee \in Nat /\ Payment \subseteq Nat
      /\ walletIntents \in Nat /\ feesTaken \in Nat
  BY MultisigAssumption DEF TypeInv, AccountsTypeOK, MultisigTypeOK
<1>3. before \in Nat /\ after \in Nat
  BY <1>2, AccountAssumption, SumNat
<1>4. locked \in Nat
  <2>1. \A a \in Account : lockedStorage[a] \in Nat
    BY DEF TypeInv, AccountsTypeOK
  <2> QED
    BY <2>1, AccountAssumption, SumNat
<1>5. ~selfPaid /\ after + walletIntents' + feesTaken' = before + walletIntents + feesTaken
  <2>1. CASE UNCHANGED <<balance, walletIntents, feesTaken, selfPaid>>
    BY <2>1
  <2>2. CASE ExecTransfer(w)
    <3>1. PICK to \in Account, x \in Payment :
            /\ balance' = paidFrom(balance, w, to, x)
            /\ selfPaid' = (selfPaid \/ to = w)
            /\ feesTaken' = feesTaken + ExecFee
            /\ UNCHANGED walletIntents
      BY <2>2 DEF ExecTransfer
    <3>2. to # w /\ ~selfPaid /\ feesTaken' = feesTaken + ExecFee /\ walletIntents' = walletIntents
      BY <3>1
    <3>3. /\ c[w] = b[w] - (x + ExecFee) /\ c[to] = b[to] + x
          /\ \A y \in Account \ {w, to} : c[y] = b[y]
      BY <1>2, <3>1, <3>2 DEF paidFrom
    <3>4. x \in Nat /\ b[w] \in Nat /\ b[to] \in Nat
      BY <1>2
    <3> HIDE DEF b, c
    <3>5. SumFunctionOnSet(c, Account)
            = SumFunctionOnSet(b, Account) + (c[w] - b[w]) + (c[to] - b[to])
      BY <1>2, <3>2, <3>3, TwoAccounts
    <3>6. after = before + (c[w] - b[w]) + (c[to] - b[to])
      BY <3>5 DEF b, c
    <3> HIDE DEF before, after
    <3> QED
      BY <1>2, <1>3, <3>2, <3>3, <3>4, <3>6
  <2>3. CASE ExecBatchTransfer(w)
    <3>1. PICK to1, to2 \in Account, x, y \in Payment :
            LET one == [balance EXCEPT ![to1] = @ + x]
                two == [one EXCEPT ![to2] = @ + y]
            IN  /\ balance[w] >= x + y + ExecFee
                /\ balance' = [two EXCEPT ![w] = balance[w] - (x + y + ExecFee)]
                /\ selfPaid' = (selfPaid \/ w \in {to1, to2})
                /\ feesTaken' = feesTaken + ExecFee
                /\ wallets' = [wallets EXCEPT ![w].Nonce = @ + 1]
                /\ UNCHANGED walletIntents
      BY <2>3 DEF ExecBatchTransfer
    <3> DEFINE one == [balance EXCEPT ![to1] = balance[to1] + x]
               two == [one EXCEPT ![to2] = one[to2] + y]
    <3>2. /\ x \in Nat /\ y \in Nat /\ ~selfPaid /\ to1 # w /\ to2 # w
          /\ b[w] \in Nat
          /\ feesTaken' = feesTaken + ExecFee /\ walletIntents' = walletIntents
      BY <1>2, <3>1
    <3>3. /\ one \in [Account -> Nat] /\ one[w] = b[w]
          /\ one[to1] = b[to1] + x /\ \A a \in Account \ {to1} : one[a] = b[a]
      BY <1>2, <3>2
    <3>4. balance' = [two EXCEPT ![w] = b[w] - (x + y + ExecFee)]
      BY <3>1
    <3> HIDE DEF one
    <3>5. /\ two \in [Account -> Nat] /\ two[w] = b[w]
          /\ two[to2] = one[to2] + y /\ \A a \in Account \ {to2} : two[a] = one[a]
      BY <1>2, <3>2, <3>3
    <3> HIDE DEF two
    <3>6. c[w] = b[w] - (x + y + ExecFee) /\ \A a \in Account \ {w} : c[a] = two[a]
      BY <1>2, <3>4, <3>5
    <3>7. \A a \in Account : one[a] \in Nat /\ two[a] \in Nat
      BY <3>3, <3>5
    <3>8. before + (one[to1] - b[to1]) = SumFunctionOnSet(one, Account)
      <4> HIDE DEF c
      <4> QED
        BY <1>2, <3>3, <3>7, OneAccount
    <3>9. SumFunctionOnSet(two, Account) = SumFunctionOnSet(one, Account) + (two[to2] - one[to2])
      BY <3>5, <3>7, OneAccount
    <3>10. after = SumFunctionOnSet(two, Account) + (c[w] - two[w])
      <4>1. SumFunctionOnSet(c, Account) = SumFunctionOnSet(two, Account) + (c[w] - two[w])
        <5> HIDE DEF b, c
        <5> QED
          BY <1>2, <3>6, <3>7, OneAccount
      <4> QED
        BY <4>1
    <3>11. b[to1] \in Nat /\ one[to2] \in Nat
      BY <1>2, <3>7
    <3> HIDE DEF b, c, before, after
    <3>12. after = before + x + y + (c[w] - b[w])
      BY <1>2, <1>3, <3>2, <3>3, <3>5, <3>6, <3>8, <3>9, <3>10, <3>11
    <3>13. c[w] - b[w] = - (x + y + ExecFee)
      BY <1>2, <3>2, <3>6
    <3> QED
      BY <1>2, <1>3, <3>2, <3>12, <3>13
  <2>4. CASE ExecCreateIntent(w)
    <3>1. PICK x \in Payment :
            /\ balance' = [balance EXCEPT ![w] = @ - (x + ExecFee)]
            /\ walletIntents' = walletIntents + x
            /\ feesTaken' = feesTaken + ExecFee
            /\ UNCHANGED selfPaid
      BY <2>4 DEF ExecCreateIntent
    <3>2. c[w] = b[w] - (x + ExecFee) /\ \A a \in Account \ {w} : c[a] = b[a]
      BY <1>2, <3>1
    <3>3. x \in Nat /\ b[w] \in Nat
      BY <1>2
    <3> HIDE DEF b, c
    <3>4. SumFunctionOnSet(c, Account) = SumFunctionOnSet(b, Account) + (c[w] - b[w])
      BY <1>2, <3>2, OneAccount
    <3>5. after = before + (c[w] - b[w])
      BY <3>4 DEF b, c
    <3> HIDE DEF before, after
    <3> QED
      BY <1>2, <1>3, <3>1, <3>2, <3>3, <3>5
  <2>5. CASE ExecUpdateSigners(w) \/ \E least \in {1, 2} : ExecUpdateThreshold(w, least)
    BY <2>5 DEF ExecUpdateSigners, ExecUpdateThreshold
  <2> QED
    BY <1>1, <2>1, <2>2, <2>3, <2>4, <2>5 DEF ExecOperation
<1>6. after \in Int /\ walletIntents' \in Int /\ feesTaken' \in Int
  BY <1>3 DEF TypeInv, MultisigTypeOK
<1>7. Tokens = before + locked /\ Tokens' = after + locked
  BY <1>1 DEF Tokens
<1>8. Tokens' + walletIntents' + feesTaken' = (after + walletIntents' + feesTaken') + locked
  <2> HIDE DEF before, after, locked
  <2> QED
    BY <1>4, <1>6, <1>7
<1>9. Tokens + walletIntents + feesTaken = (before + walletIntents + feesTaken) + locked
  <2> HIDE DEF before, after, locked
  <2> QED
    BY <1>2, <1>3, <1>4, <1>7
<1> QED
  BY <1>5, <1>8, <1>9, Zenon

\* What an agent spends is locked for its master.
LEMMA AgentConserves ==
  ASSUME TypeInv, TypeInv', AgentNext
  PROVE  Tokens' = Tokens
<1> DEFINE b == balance
           c == balance'
           l == lockedStorage
           m == lockedStorage'
<1>1. /\ \A y \in Account : b[y] \in Nat /\ c[y] \in Nat /\ l[y] \in Nat /\ m[y] \in Nat
      /\ b \in [Account -> Nat] /\ l \in [Account -> Nat] /\ Client \subseteq Account
  BY AccountAssumption DEF TypeInv, AccountsTypeOK
<1>2. CASE UNCHANGED <<balance, lockedStorage>>
  BY <1>2 DEF Tokens
<1>3. ASSUME NEW k \in KeyID, NEW op \in Operation, AgentRequest(k, op) PROVE Tokens' = Tokens
  <2>1. PICK x \in Nat :
          /\ agentKeys[k].Master \in Client
          /\ balance' = [balance EXCEPT ![agentKeys[k].Master] = @ - x]
          /\ lockedStorage' = [lockedStorage EXCEPT ![agentKeys[k].Master] = @ + x]
    BY <1>3, RequestStep
  <2> DEFINE a == agentKeys[k].Master
  <2>2. a \in Account
    BY <1>1, <2>1
  <2>3. /\ c[a] = b[a] - x /\ m[a] = l[a] + x
        /\ \A y \in Account \ {a} : c[y] = b[y] /\ m[y] = l[y]
    BY <1>1, <2>1, <2>2
  <2> HIDE DEF a, b, c, l, m
  <2>4. /\ SumFunctionOnSet(b, Account) \in Nat
        /\ SumFunctionOnSet(c, Account) = SumFunctionOnSet(b, Account) + (c[a] - b[a])
    BY <1>1, <2>2, <2>3, OneAccount
  <2>5. /\ SumFunctionOnSet(l, Account) \in Nat
        /\ SumFunctionOnSet(m, Account) = SumFunctionOnSet(l, Account) + (m[a] - l[a])
    BY <1>1, <2>2, <2>3, OneAccount
  <2>6. b[a] \in Nat /\ l[a] \in Nat
    BY <1>1, <2>2
  <2>7. SumFunctionOnSet(c, Account) + SumFunctionOnSet(m, Account)
          = SumFunctionOnSet(b, Account) + SumFunctionOnSet(l, Account)
    BY <2>3, <2>4, <2>5, <2>6
  <2> QED
    BY <2>7 DEF Tokens, b, c, l, m
<1>4. CASE NextBlock
  BY <1>2, <1>4 DEF NextBlock
<1>5. CASE /\ ~ \E k \in KeyID, op \in Operation : AgentRequest(k, op)
           /\ ~ (NextBlock /\ UNCHANGED agentVars)
  BY <1>2, <1>5, KeyStep
<1> QED
  BY <1>3, <1>4, <1>5

\* Every token of the genesis is in a balance, locked, in a wallet's intent or taken as
\* a fee, unless a wallet has paid itself (multisig.go: execTransfer, execBatchTransfer).
THEOREM TokensConserved == WalletsSpec => []WalletsConserve
<1> DEFINE Conserve == ~selfPaid => Tokens + walletIntents + feesTaken = GenesisSupply
<1>1. WalletsInit => Conserve
  <2> SUFFICES ASSUME WalletsInit PROVE Conserve
    OBVIOUS
  <2>1. balance = GenesisTokens /\ \A a \in Account : lockedStorage[a] = 0
    BY DEF WalletsInit, AccountsInit
  <2>2. SumFunctionOnSet(lockedStorage, Account) = 0
    BY <2>1, AccountAssumption, SumZero
  <2>3. SumFunctionOnSet(GenesisTokens, Account) \in Nat
    BY AccountAssumption, SumNat
  <2>4. walletIntents = 0 /\ feesTaken = 0
    BY DEF WalletsInit, MultisigInit
  <2> QED
    BY <2>1, <2>2, <2>3, <2>4 DEF Tokens, GenesisSupply
<1>2. TypeInv /\ TypeInv' /\ Conserve /\ [WalletsNext]_walletsVars => Conserve'
  <2> SUFFICES ASSUME TypeInv, TypeInv', Conserve, [WalletsNext]_walletsVars PROVE Conserve'
    OBVIOUS
  <2>1. GenesisSupply' = GenesisSupply
    BY DEF GenesisSupply
  <2>2. CASE BridgeNext /\ UNCHANGED multisigVars
    BY <2>1, <2>2, BridgeConserves DEF multisigVars
  <2>3. CASE MultisigNext
    BY <2>1, <2>3, MultisigConserves
  <2>4. CASE AgentNext /\ UNCHANGED multisigVars
    BY <2>1, <2>4, AgentConserves DEF multisigVars
  <2>5. CASE UNCHANGED walletsVars
    <3>1. Tokens' = Tokens
      BY <2>5 DEF walletsVars, accountVars, Tokens
    <3> QED
      BY <2>1, <2>5, <3>1 DEF walletsVars, multisigVars
  <2> QED
    BY <2>2, <2>3, <2>4, <2>5 DEF WalletsNext
<1>3. TypeInv /\ Conserve => WalletsConserve
  BY DEF TypeInv, WalletsConserve
<1> QED
  BY <1>1, <1>2, <1>3, WalletInitTypes, WalletStepTypes, PTL DEF WalletsSpec

-----------------------------------------------------------------------------
(***************************************************************************)
(* Records: transactions and what they write                               *)
(***************************************************************************)
Kinds == {"create_key_envelope", "create_share", "revoke_share", "create_collection",
          "append_record", "submit_retrieval_receipt"}

IsReceipt(t) == t.kind = "submit_retrieval_receipt"
IsShare(t) == t.kind = "create_share"
IsRevocation(t) == t.kind = "revoke_share"

Fields == {"kind", "id", "user", "nonce", "file", "ref", "parent", "seen"}

\* What every transaction has, whoever made it.
Formed(t) ==
  /\ DOMAIN t = Fields
  /\ t.kind \in Kinds /\ t.id \in Nat /\ t.nonce \in Nat
  /\ ~IsReceipt(t) => t.user \in Writer
  /\ IsReceipt(t) => t.ref \in Receipt
  /\ IsRevocation(t) => t.ref \in Nat
  /\ t.kind = "create_key_envelope" => t.ref = NoRecord

Miners == {r.miner : r \in Receipt}

Counts(receipts) == [m \in Miners |-> Cardinality({r \in receipts : r.miner = m})]

\* A state: its fields, and the receipts counted for each miner.
IsBook(s) ==
  /\ s = [nonces |-> s.nonces, envelopes |-> s.envelopes, shares |-> s.shares,
          collections |-> s.collections, records |-> s.records, receipts |-> s.receipts,
          success |-> s.success, pendingTxs |-> s.pendingTxs, appliedTxs |-> s.appliedTxs,
          height |-> s.height]
  /\ s.nonces \in [Writer -> Nat] /\ s.height \in Nat
  /\ s.shares \subseteq [id : Nat, user : Writer, revoked : BOOLEAN]
  /\ s.receipts \subseteq Receipt /\ s.success = Counts(s.receipts)

-----------------------------------------------------------------------------
(***************************************************************************)
(* What a transaction changes                                              *)
(***************************************************************************)
\* A receipt that is not known yet counts for its miner.
LEMMA CountedReceipt ==
  ASSUME NEW R \in SUBSET Receipt, NEW r \in Receipt, r \notin R
  PROVE  Counts(R \cup {r}) = [Counts(R) EXCEPT ![r.miner] = @ + 1]
<1> DEFINE of(S, m) == {x \in S : x.miner = m}
<1>1. ASSUME NEW m \in Miners
      PROVE  Cardinality(of(R \cup {r}, m))
               = IF m = r.miner THEN Cardinality(of(R, m)) + 1 ELSE Cardinality(of(R, m))
  <2>1. IsFiniteSet(of(R, m))
    BY RecordsAssumption, FS_Subset
  <2>2. CASE m = r.miner
    <3>1. of(R \cup {r}, m) = of(R, m) \cup {r} /\ r \notin of(R, m)
      BY <2>2
    <3> HIDE DEF of
    <3> QED
      BY <2>1, <2>2, <3>1, FS_AddElement
  <2>3. CASE m # r.miner
    <3>1. of(R \cup {r}, m) = of(R, m)
      BY <2>3
    <3> QED
      BY <2>3, <3>1
  <2> QED
    BY <2>2, <2>3
<1>2. r.miner \in Miners
  BY DEF Miners
<1> QED
  BY <1>1, <1>2 DEF Counts

\* Each kind has its effect.
LEMMA EffectOf ==
  ASSUME NEW s, NEW t
  PROVE  /\ t.kind = "create_key_envelope" => effect(s, t) = withEnvelope(s, t)
         /\ t.kind = "create_share" => effect(s, t) = withShare(s, t)
         /\ t.kind = "revoke_share" => effect(s, t) = withRevoked(s, t)
         /\ t.kind = "create_collection" => effect(s, t) = withCollection(s, t)
         /\ t.kind = "append_record" => effect(s, t) = withRecord(withNonce(s, t.user), t)
         /\ t.kind = "submit_retrieval_receipt" => effect(s, t) = withReceipt(s, t.ref)
  BY DEF effect

NextNonces(s, t) == [s.nonces EXCEPT ![t.user] = @ + 1]

\* A state after t has used its nonce, with what it has written down then.
BookAfter(s, t, envelopes, shares, collections, records) ==
  [nonces |-> NextNonces(s, t), envelopes |-> envelopes, shares |-> shares,
   collections |-> collections, records |-> records, receipts |-> s.receipts,
   success |-> s.success, pendingTxs |-> s.pendingTxs, appliedTxs |-> s.appliedTxs,
   height |-> s.height]

ShareEnvelope(t) == [id |-> t.id, share |-> t.id, file |-> t.file, revoked |-> FALSE]

NewShare(t) == [id |-> t.id, user |-> t.user, revoked |-> FALSE]

MarkedShares(s, t) == {[x EXCEPT !.revoked = @ \/ x.id = t.ref] : x \in s.shares}

MarkedEnvelopes(s, t) == {[e EXCEPT !.revoked = @ \/ e.share = t.ref] : e \in s.envelopes}

NewRecord(t) == [id |-> t.id, collection |-> t.ref, file |-> t.file, parent |-> t.parent]

\* A nonce used up, and nothing else.
LEMMA NonceFields ==
  ASSUME NEW s, IsBook(s), NEW t
  PROVE  withNonce(s, t.user) = BookAfter(s, t, s.envelopes, s.shares, s.collections, s.records)
  BY DEF IsBook, withNonce, BookAfter, NextNonces

\* A state after a transaction of each kind.
LEMMA EffectFields ==
  ASSUME NEW s, IsBook(s), NEW t, Formed(t)
  PROVE  /\ t.kind = "create_key_envelope" =>
              effect(s, t) = BookAfter(s, t, s.envelopes \cup {envelopeOf(t)}, s.shares,
                                   s.collections, s.records)
         /\ t.kind = "create_share" =>
              effect(s, t) = BookAfter(s, t, s.envelopes \cup {ShareEnvelope(t)},
                                   s.shares \cup {NewShare(t)}, s.collections, s.records)
         /\ t.kind = "revoke_share" =>
              effect(s, t) = BookAfter(s, t, MarkedEnvelopes(s, t), MarkedShares(s, t),
                                   s.collections, s.records)
         /\ t.kind = "create_collection" =>
              effect(s, t) = BookAfter(s, t, s.envelopes, s.shares,
                                   s.collections \cup {[id |-> t.id, user |-> t.user]}, s.records)
         /\ t.kind = "append_record" =>
              effect(s, t) = BookAfter(s, t, s.envelopes, s.shares, s.collections,
                                   s.records \cup {NewRecord(t)})
         /\ t.kind = "submit_retrieval_receipt" =>
              effect(s, t) = IF t.ref \in s.receipts THEN s
                             ELSE [s EXCEPT !.success[t.ref.miner] = @ + 1,
                                            !.receipts = @ \cup {t.ref}]
<1> DEFINE used == BookAfter(s, t, s.envelopes, s.shares, s.collections, s.records)
<1>1. withNonce(s, t.user) = used
  BY NonceFields
<1>2. CASE t.kind = "create_key_envelope"
  BY <1>1, <1>2, EffectOf DEF withEnvelope, BookAfter
<1>3. CASE t.kind = "create_share"
  <2>1. /\ [t EXCEPT !.ref = t.id].user = t.user
        /\ envelopeOf([t EXCEPT !.ref = t.id]) = ShareEnvelope(t)
    BY DEF Formed, Fields, envelopeOf, ShareEnvelope
  <2>2. withEnvelope(s, [t EXCEPT !.ref = t.id])
          = BookAfter(s, t, s.envelopes \cup {ShareEnvelope(t)}, s.shares, s.collections, s.records)
    BY <1>1, <2>1 DEF withEnvelope, BookAfter
  <2> QED
    BY <1>3, <2>2, EffectOf DEF withShare, BookAfter, NewShare
<1>4. CASE t.kind = "revoke_share"
  <2>1. effect(s, t) =
          [used EXCEPT
             !.shares = {[x EXCEPT !.revoked = @ \/ x.id = t.ref] : x \in @},
             !.envelopes = {[e EXCEPT !.revoked = @ \/ e.share = t.ref] : e \in @}]
    <3>1. withRevoked(s, t) =
            [used EXCEPT
               !.shares = {[x EXCEPT !.revoked = @ \/ x.id = t.ref] : x \in @},
               !.envelopes = {[e EXCEPT !.revoked = @ \/ e.share = t.ref] : e \in @}]
      BY <1>1 DEF withRevoked, BookAfter
    <3> QED
      BY <1>4, <3>1, EffectOf
  <2> QED
    BY <1>4, <2>1 DEF BookAfter, MarkedShares, MarkedEnvelopes
<1>5. CASE t.kind = "create_collection"
  BY <1>1, <1>5, EffectOf DEF withCollection, BookAfter
<1>6. CASE t.kind = "append_record"
  BY <1>1, <1>6, EffectOf DEF withRecord, BookAfter, NewRecord
<1>7. CASE t.kind = "submit_retrieval_receipt"
  BY <1>7, EffectOf DEF withReceipt
<1> QED
  BY <1>2, <1>3, <1>4, <1>5, <1>6, <1>7 DEF Formed, Kinds

\* A state r, where only what is written down and t's nonce may differ from s.
Kept(r, s, t) ==
  /\ IsBook(r)
  /\ r.pendingTxs = s.pendingTxs /\ r.appliedTxs = s.appliedTxs /\ r.height = s.height
  /\ r.nonces = IF IsReceipt(t) THEN s.nonces ELSE NextNonces(s, t)

LEMMA AfterKept ==
  ASSUME NEW s, IsBook(s), NEW t, Formed(t), ~IsReceipt(t),
         NEW es, NEW cs, NEW rs, NEW ss \in SUBSET [id : Nat, user : Writer, revoked : BOOLEAN]
  PROVE  Kept(BookAfter(s, t, es, ss, cs, rs), s, t)
<1>1. NextNonces(s, t) \in [Writer -> Nat]
  BY DEF IsBook, Formed, NextNonces
<1>2. IsBook(BookAfter(s, t, es, ss, cs, rs))
  BY <1>1 DEF IsBook, BookAfter
<1> QED
  BY <1>2 DEF Kept, BookAfter

\* Shares stay shares.
LEMMA ShareTypes ==
  ASSUME NEW s, IsBook(s), NEW t, Formed(t), ~IsReceipt(t)
  PROVE  /\ s.shares \cup {NewShare(t)} \in SUBSET [id : Nat, user : Writer, revoked : BOOLEAN]
         /\ MarkedShares(s, t) \in SUBSET [id : Nat, user : Writer, revoked : BOOLEAN]
<1>1. NewShare(t) \in [id : Nat, user : Writer, revoked : BOOLEAN]
  BY DEF Formed, NewShare
<1>2. ASSUME NEW x \in s.shares
      PROVE  [x EXCEPT !.revoked = @ \/ x.id = t.ref] \in [id : Nat, user : Writer, revoked : BOOLEAN]
  <2>1. x \in [id : Nat, user : Writer, revoked : BOOLEAN]
    BY DEF IsBook
  <2>2. (x.revoked \/ x.id = t.ref) \in BOOLEAN
    OBVIOUS
  <2> QED
    BY <2>1, <2>2
<1> QED
  BY <1>1, <1>2 DEF IsBook, MarkedShares

\* A new receipt.
LEMMA ReceiptKept ==
  ASSUME NEW s, IsBook(s), NEW t, IsReceipt(t), NEW r0 \in Receipt, r0 \notin s.receipts
  PROVE  Kept([s EXCEPT !.success[r0.miner] = @ + 1, !.receipts = @ \cup {r0}], s, t)
<1> DEFINE r == [s EXCEPT !.success[r0.miner] = @ + 1, !.receipts = @ \cup {r0}]
           counted == [s.success EXCEPT ![r0.miner] = @ + 1]
<1>1. /\ s.nonces \in [Writer -> Nat] /\ s.height \in Nat
      /\ s.shares \subseteq [id : Nat, user : Writer, revoked : BOOLEAN]
      /\ s.receipts \in SUBSET Receipt /\ s.success = Counts(s.receipts)
  BY DEF IsBook
<1>2. counted = Counts(s.receipts \cup {r0})
  BY <1>1, CountedReceipt
<1>3. r = [nonces |-> s.nonces, envelopes |-> s.envelopes, shares |-> s.shares,
           collections |-> s.collections, records |-> s.records,
           receipts |-> s.receipts \cup {r0}, success |-> counted,
           pendingTxs |-> s.pendingTxs, appliedTxs |-> s.appliedTxs, height |-> s.height]
  <2>1. r = [s EXCEPT !.success[r0.miner] = @ + 1, !.receipts = @ \cup {r0}]
    OBVIOUS
  <2> HIDE DEF r
  <2> QED
    BY <2>1 DEF IsBook
<1> HIDE DEF r, counted
<1>4. IsBook(r)
  BY <1>1, <1>2, <1>3 DEF IsBook
<1>5. Kept(r, s, t)
  BY <1>3, <1>4 DEF Kept
<1> QED
  BY <1>5 DEF r

\* A transaction uses its sender's nonce, a receipt none, and leaves a state.
LEMMA EffectKeeps ==
  ASSUME NEW s, IsBook(s), NEW t, Formed(t)
  PROVE  Kept(effect(s, t), s, t)
<1>1. s.shares \in SUBSET [id : Nat, user : Writer, revoked : BOOLEAN]
  BY DEF IsBook
<1>2. CASE t.kind = "submit_retrieval_receipt"
  <2>1. CASE t.ref \in s.receipts
    <3>1. effect(s, t) = s
      BY <1>2, <2>1, EffectFields
    <3> QED
      BY <1>2, <3>1 DEF IsReceipt, Kept
  <2>2. CASE t.ref \notin s.receipts
    <3>1. effect(s, t) = [s EXCEPT !.success[t.ref.miner] = @ + 1, !.receipts = @ \cup {t.ref}]
      BY <1>2, <2>2, EffectFields
    <3>2. IsReceipt(t) /\ t.ref \in Receipt
      BY <1>2 DEF IsReceipt, Formed
    <3>3. Kept([s EXCEPT !.success[t.ref.miner] = @ + 1, !.receipts = @ \cup {t.ref}], s, t)
      BY <2>2, <3>2, ReceiptKept
    <3> QED
      BY <3>1, <3>3
  <2> QED
    BY <2>1, <2>2
<1>3. CASE t.kind = "create_key_envelope"
  <2>1. effect(s, t) = BookAfter(s, t, s.envelopes \cup {envelopeOf(t)}, s.shares, s.collections, s.records)
    BY <1>3, EffectFields
  <2>2. ~IsReceipt(t)
    BY <1>3 DEF IsReceipt
  <2>3. Kept(BookAfter(s, t, s.envelopes \cup {envelopeOf(t)}, s.shares, s.collections, s.records), s, t)
    BY <1>1, <2>2, AfterKept
  <2> QED
    BY <2>1, <2>3
<1>4. CASE t.kind = "create_share"
  <2>1. effect(s, t) = BookAfter(s, t, s.envelopes \cup {ShareEnvelope(t)}, s.shares \cup {NewShare(t)},
          s.collections, s.records)
    BY <1>4, EffectFields
  <2>2. ~IsReceipt(t)
    BY <1>4 DEF IsReceipt
  <2>3. Kept(BookAfter(s, t, s.envelopes \cup {ShareEnvelope(t)}, s.shares \cup {NewShare(t)},
          s.collections, s.records), s, t)
    BY <1>1, <2>2, AfterKept, ShareTypes
  <2> QED
    BY <2>1, <2>3
<1>5. CASE t.kind = "revoke_share"
  <2>1. effect(s, t) = BookAfter(s, t, MarkedEnvelopes(s, t), MarkedShares(s, t), s.collections, s.records)
    BY <1>5, EffectFields
  <2>2. ~IsReceipt(t)
    BY <1>5 DEF IsReceipt
  <2>3. Kept(BookAfter(s, t, MarkedEnvelopes(s, t), MarkedShares(s, t), s.collections, s.records), s, t)
    BY <1>1, <2>2, AfterKept, ShareTypes
  <2> QED
    BY <2>1, <2>3
<1>6. CASE t.kind = "create_collection"
  <2>1. effect(s, t) = BookAfter(s, t, s.envelopes, s.shares,
          s.collections \cup {[id |-> t.id, user |-> t.user]}, s.records)
    BY <1>6, EffectFields
  <2>2. ~IsReceipt(t)
    BY <1>6 DEF IsReceipt
  <2>3. Kept(BookAfter(s, t, s.envelopes, s.shares,
          s.collections \cup {[id |-> t.id, user |-> t.user]}, s.records), s, t)
    BY <1>1, <2>2, AfterKept
  <2> QED
    BY <2>1, <2>3
<1>7. CASE t.kind = "append_record"
  <2>1. effect(s, t) = BookAfter(s, t, s.envelopes, s.shares, s.collections, s.records \cup {NewRecord(t)})
    BY <1>7, EffectFields
  <2>2. ~IsReceipt(t)
    BY <1>7 DEF IsReceipt
  <2>3. Kept(BookAfter(s, t, s.envelopes, s.shares, s.collections, s.records \cup {NewRecord(t)}), s, t)
    BY <1>1, <2>2, AfterKept
  <2> QED
    BY <2>1, <2>3
<1> QED
  BY <1>2, <1>3, <1>4, <1>5, <1>6, <1>7 DEF Formed, Kinds

-----------------------------------------------------------------------------
(***************************************************************************)
(* What is written down follows from what was executed                     *)
(***************************************************************************)
Revoked(A, id) == \E r \in A : IsRevocation(r) /\ r.ref = id

Created(A, kinds) == {t \in A : t.kind \in kinds}

\* The share an envelope belongs to.
ShareOfEnvelope(t) == IF IsShare(t) THEN t.id ELSE t.ref

Envelopes(A) ==
  {[id |-> t.id, share |-> ShareOfEnvelope(t), file |-> t.file,
    revoked |-> Revoked(A, ShareOfEnvelope(t))] :
      t \in Created(A, {"create_key_envelope", "create_share"})}

Shares(A) ==
  {[id |-> t.id, user |-> t.user, revoked |-> Revoked(A, t.id)] : t \in Created(A, {"create_share"})}

Collections(A) ==
  {[id |-> t.id, user |-> t.user] : t \in Created(A, {"create_collection"})}

DataRecords(A) ==
  {[id |-> t.id, collection |-> t.ref, file |-> t.file, parent |-> t.parent] :
      t \in Created(A, {"append_record"})}

Receipts(A) == {t.ref : t \in Created(A, {"submit_retrieval_receipt"})}

\* What a state has written down, when it has executed A.
Holds(s, A) ==
  /\ s.envelopes = Envelopes(A) /\ s.shares = Shares(A)
  /\ s.collections = Collections(A) /\ s.records = DataRecords(A)
  /\ s.receipts = Receipts(A)

\* A transaction of no other kind changes what depends on one.
LEMMA OthersSame ==
  ASSUME NEW A, NEW t, \A o \in A \cup {t} : Formed(o)
  PROVE  /\ ~IsRevocation(t) => \A id : Revoked(A \cup {t}, id) = Revoked(A, id)
         /\ \A kinds : t.kind \notin kinds => Created(A \cup {t}, kinds) = Created(A, kinds)
         /\ \A kinds : t.kind \in kinds => Created(A \cup {t}, kinds) = Created(A, kinds) \cup {t}
         /\ t.kind # "create_collection" => Collections(A \cup {t}) = Collections(A)
         /\ t.kind # "append_record" => DataRecords(A \cup {t}) = DataRecords(A)
         /\ ~IsReceipt(t) => Receipts(A \cup {t}) = Receipts(A)
<1>1. ~IsRevocation(t) => \A id : Revoked(A \cup {t}, id) = Revoked(A, id)
  BY DEF Revoked
<1>2. /\ \A kinds : t.kind \notin kinds => Created(A \cup {t}, kinds) = Created(A, kinds)
      /\ \A kinds : t.kind \in kinds => Created(A \cup {t}, kinds) = Created(A, kinds) \cup {t}
  BY DEF Created
<1>3. t.kind # "create_collection" => Collections(A \cup {t}) = Collections(A)
  BY <1>2 DEF Collections
<1>4. t.kind # "append_record" => DataRecords(A \cup {t}) = DataRecords(A)
  BY <1>2 DEF DataRecords
<1>5. ~IsReceipt(t) => Receipts(A \cup {t}) = Receipts(A)
  BY <1>2 DEF Receipts, IsReceipt
<1> QED
  BY <1>1, <1>2, <1>3, <1>4, <1>5

\* Neither a share nor its revocation: envelopes and shares are those there were.
LEMMA SharesSame ==
  ASSUME NEW A, NEW t, \A o \in A \cup {t} : Formed(o), ~IsRevocation(t), ~IsShare(t)
  PROVE  /\ Shares(A \cup {t}) = Shares(A)
         /\ t.kind # "create_key_envelope" => Envelopes(A \cup {t}) = Envelopes(A)
<1>1. \A id : Revoked(A \cup {t}, id) = Revoked(A, id)
  BY OthersSame
<1>2. /\ Created(A \cup {t}, {"create_share"}) = Created(A, {"create_share"})
      /\ t.kind # "create_key_envelope" =>
           Created(A \cup {t}, {"create_key_envelope", "create_share"})
             = Created(A, {"create_key_envelope", "create_share"})
  BY DEF IsShare, Created
<1> QED
  BY <1>1, <1>2 DEF Shares, Envelopes

\* No revocation is of no share.
LEMMA NothingRevoked ==
  ASSUME NEW A, \A o \in A : Formed(o)
  PROVE  ~Revoked(A, NoRecord)
  BY RecordsAssumption DEF Revoked, Formed

\* A new envelope, of no share or of a share not revoked.
LEMMA EnvelopeAdded ==
  ASSUME NEW A, NEW t, \A o \in A \cup {t} : Formed(o),
         t.kind = "create_key_envelope"
  PROVE  Envelopes(A \cup {t}) = Envelopes(A) \cup {envelopeOf(t)}
<1>1. /\ \A id : Revoked(A \cup {t}, id) = Revoked(A, id)
      /\ Created(A \cup {t}, {"create_key_envelope", "create_share"})
           = Created(A, {"create_key_envelope", "create_share"}) \cup {t}
  BY DEF Revoked, IsRevocation, Created
<1>2. /\ ShareOfEnvelope(t) = t.ref /\ t.ref = NoRecord
      /\ ~Revoked(A, NoRecord)
  BY NothingRevoked DEF ShareOfEnvelope, IsShare, Formed
<1>3. Revoked(A, ShareOfEnvelope(t)) = FALSE
  BY <1>2
<1>4. envelopeOf(t) = [id |-> t.id, share |-> ShareOfEnvelope(t), file |-> t.file,
                       revoked |-> Revoked(A, ShareOfEnvelope(t))]
  BY <1>2, <1>3 DEF envelopeOf
<1> QED
  BY <1>1, <1>4 DEF Envelopes

LEMMA ShareAdded ==
  ASSUME NEW A, NEW t, \A o \in A \cup {t} : Formed(o),
         IsShare(t), ~Revoked(A, t.id)
  PROVE  /\ Envelopes(A \cup {t}) = Envelopes(A) \cup {ShareEnvelope(t)}
         /\ Shares(A \cup {t}) = Shares(A) \cup {NewShare(t)}
<1>0. Revoked(A, t.id) = FALSE
  OBVIOUS
<1>1. /\ \A id : Revoked(A \cup {t}, id) = Revoked(A, id)
      /\ Created(A \cup {t}, {"create_key_envelope", "create_share"})
           = Created(A, {"create_key_envelope", "create_share"}) \cup {t}
      /\ Created(A \cup {t}, {"create_share"}) = Created(A, {"create_share"}) \cup {t}
  BY DEF Revoked, IsShare, IsRevocation, Created
<1>2. ShareEnvelope(t) = [id |-> t.id, share |-> ShareOfEnvelope(t), file |-> t.file,
                          revoked |-> Revoked(A, ShareOfEnvelope(t))]
  BY <1>0 DEF ShareEnvelope, ShareOfEnvelope
<1>3. NewShare(t) = [id |-> t.id, user |-> t.user, revoked |-> Revoked(A, t.id)]
  BY <1>0 DEF NewShare
<1> QED
  BY <1>1, <1>2, <1>3 DEF Envelopes, Shares

\* A revocation marks the share and its envelope, where they are.
LEMMA RevocationMarks ==
  ASSUME NEW A, NEW t, \A o \in A \cup {t} : Formed(o), IsRevocation(t), NEW s, Holds(s, A)
  PROVE  /\ Envelopes(A \cup {t}) = MarkedEnvelopes(s, t)
         /\ Shares(A \cup {t}) = MarkedShares(s, t)
<1>1. /\ \A id : Revoked(A \cup {t}, id) = (Revoked(A, id) \/ id = t.ref)
      /\ Created(A \cup {t}, {"create_key_envelope", "create_share"})
           = Created(A, {"create_key_envelope", "create_share"})
      /\ Created(A \cup {t}, {"create_share"}) = Created(A, {"create_share"})
  BY DEF Revoked, IsRevocation, Created
<1> DEFINE share(o) == [id |-> o.id, user |-> o.user, revoked |-> Revoked(A, o.id)]
           envelope(o) == [id |-> o.id, share |-> ShareOfEnvelope(o), file |-> o.file,
                           revoked |-> Revoked(A, ShareOfEnvelope(o))]
           markedShare(o) == [share(o) EXCEPT !.revoked = @ \/ share(o).id = t.ref]
           markedEnvelope(o) == [envelope(o) EXCEPT !.revoked = @ \/ envelope(o).share = t.ref]
           newShare(o) == [id |-> o.id, user |-> o.user, revoked |-> Revoked(A \cup {t}, o.id)]
           newEnvelope(o) == [id |-> o.id, share |-> ShareOfEnvelope(o), file |-> o.file,
                              revoked |-> Revoked(A \cup {t}, ShareOfEnvelope(o))]
<1>2. \A o : markedShare(o) = newShare(o)
  BY <1>1
<1>3. \A o : markedEnvelope(o) = newEnvelope(o)
  BY <1>1
<1>4. /\ s.shares = {share(o) : o \in Created(A, {"create_share"})}
      /\ s.envelopes = {envelope(o) : o \in Created(A, {"create_key_envelope", "create_share"})}
  BY DEF Holds, Shares, Envelopes
<1>5. MarkedShares(s, t) = {markedShare(o) : o \in Created(A, {"create_share"})}
  <2> DEFINE mark(x) == [x EXCEPT !.revoked = @ \/ x.id = t.ref]
  <2>1. MarkedShares(s, t) = {mark(x) : x \in s.shares}
    BY DEF MarkedShares
  <2>2. \A o : markedShare(o) = mark(share(o))
    OBVIOUS
  <2> HIDE DEF share, mark, markedShare
  <2> QED
    BY <1>4, <2>1, <2>2
<1>6. MarkedEnvelopes(s, t)
        = {markedEnvelope(o) : o \in Created(A, {"create_key_envelope", "create_share"})}
  <2> DEFINE mark(x) == [x EXCEPT !.revoked = @ \/ x.share = t.ref]
  <2>1. MarkedEnvelopes(s, t) = {mark(x) : x \in s.envelopes}
    BY DEF MarkedEnvelopes
  <2>2. \A o : markedEnvelope(o) = mark(envelope(o))
    OBVIOUS
  <2> HIDE DEF envelope, mark, markedEnvelope
  <2> QED
    BY <1>4, <2>1, <2>2
<1>7. /\ Shares(A \cup {t}) = {newShare(o) : o \in Created(A, {"create_share"})}
      /\ Envelopes(A \cup {t})
           = {newEnvelope(o) : o \in Created(A, {"create_key_envelope", "create_share"})}
  BY <1>1 DEF Shares, Envelopes
<1> HIDE DEF markedShare, newShare, markedEnvelope, newEnvelope
<1>8. Shares(A \cup {t}) = MarkedShares(s, t)
  BY <1>2, <1>5, <1>7
<1>9. Envelopes(A \cup {t}) = MarkedEnvelopes(s, t)
  BY <1>3, <1>6, <1>7
<1> QED
  BY <1>8, <1>9

\* The revocation of a share this node does not know leaves it as it is.
LEMMA NothingMarked ==
  ASSUME NEW A, NEW t, \A o \in A \cup {t} : Formed(o), NEW s, Holds(s, A), revokesNothing(s, t)
  PROVE  Holds(s, A \cup {t}) /\ \A c \in A : IsShare(c) => c.id # t.ref
<1>1. IsRevocation(t) /\ t.ref \in Nat /\ \A x \in s.shares : x.id # t.ref
  BY DEF revokesNothing, shareOf, IsRevocation, Formed
<1>2. ASSUME NEW c \in A, IsShare(c)
      PROVE  c.id # t.ref
  <2>1. [id |-> c.id, user |-> c.user, revoked |-> Revoked(A, c.id)] \in s.shares
    BY <1>2 DEF Holds, Shares, Created, IsShare
  <2> QED
    BY <1>1, <2>1
<1>3. /\ \A id : id # t.ref => Revoked(A \cup {t}, id) = Revoked(A, id)
      /\ Created(A \cup {t}, {"create_key_envelope", "create_share"})
           = Created(A, {"create_key_envelope", "create_share"})
      /\ Created(A \cup {t}, {"create_share"}) = Created(A, {"create_share"})
  BY <1>1 DEF Revoked, IsRevocation, Created
<1>4. \A c \in Created(A, {"create_key_envelope", "create_share"}) : ShareOfEnvelope(c) # t.ref
  <2>1. ASSUME NEW c \in A, c.kind = "create_key_envelope"
        PROVE  ShareOfEnvelope(c) # t.ref
    BY <1>1, <2>1, RecordsAssumption DEF ShareOfEnvelope, IsShare, Formed
  <2>2. ASSUME NEW c \in A, c.kind = "create_share"
        PROVE  ShareOfEnvelope(c) # t.ref
    BY <1>2, <2>2 DEF ShareOfEnvelope, IsShare
  <2> QED
    BY <2>1, <2>2 DEF Created
<1>5. \A c \in Created(A, {"create_share"}) : c.id # t.ref
  BY <1>2 DEF Created, IsShare
<1>6. Shares(A \cup {t}) = Shares(A)
  BY <1>3, <1>5 DEF Shares
<1>7. Envelopes(A \cup {t}) = Envelopes(A)
  BY <1>3, <1>4 DEF Envelopes
<1>8. /\ Collections(A \cup {t}) = Collections(A) /\ DataRecords(A \cup {t}) = DataRecords(A)
      /\ Receipts(A \cup {t}) = Receipts(A)
  BY <1>1, OthersSame DEF IsRevocation, IsReceipt
<1> QED
  BY <1>2, <1>6, <1>7, <1>8 DEF Holds

\* A transaction is written down, a share if it was not revoked before.
LEMMA EffectHolds ==
  ASSUME NEW s, IsBook(s), NEW A, NEW t, \A o \in A \cup {t} : Formed(o), Holds(s, A),
         IsShare(t) => ~Revoked(A, t.id)
  PROVE  Holds(effect(s, t), A \cup {t})
<1>1. CASE t.kind = "create_key_envelope"
  <2>1. effect(s, t) = BookAfter(s, t, s.envelopes \cup {envelopeOf(t)}, s.shares,
                             s.collections, s.records)
    BY <1>1, EffectFields
  <2>2. /\ Envelopes(A \cup {t}) = Envelopes(A) \cup {envelopeOf(t)}
        /\ Shares(A \cup {t}) = Shares(A)
    BY <1>1, EnvelopeAdded, SharesSame DEF IsShare, IsRevocation
  <2>3. /\ Collections(A \cup {t}) = Collections(A) /\ DataRecords(A \cup {t}) = DataRecords(A)
        /\ Receipts(A \cup {t}) = Receipts(A)
    BY <1>1, OthersSame DEF IsReceipt
  <2> QED
    BY <2>1, <2>2, <2>3 DEF Holds, BookAfter
<1>2. CASE t.kind = "create_share"
  <2>1. effect(s, t) = BookAfter(s, t, s.envelopes \cup {ShareEnvelope(t)},
                             s.shares \cup {NewShare(t)}, s.collections, s.records)
    BY <1>2, EffectFields
  <2>2. /\ Envelopes(A \cup {t}) = Envelopes(A) \cup {ShareEnvelope(t)}
        /\ Shares(A \cup {t}) = Shares(A) \cup {NewShare(t)}
    BY <1>2, ShareAdded DEF IsShare
  <2>3. /\ Collections(A \cup {t}) = Collections(A) /\ DataRecords(A \cup {t}) = DataRecords(A)
        /\ Receipts(A \cup {t}) = Receipts(A)
    BY <1>2, OthersSame DEF IsReceipt
  <2> QED
    BY <2>1, <2>2, <2>3 DEF Holds, BookAfter
<1>3. CASE t.kind = "revoke_share"
  <2>1. effect(s, t) = BookAfter(s, t, MarkedEnvelopes(s, t), MarkedShares(s, t),
                             s.collections, s.records)
    BY <1>3, EffectFields
  <2>2. /\ Envelopes(A \cup {t}) = MarkedEnvelopes(s, t)
        /\ Shares(A \cup {t}) = MarkedShares(s, t)
    BY <1>3, RevocationMarks DEF IsRevocation
  <2>3. /\ Collections(A \cup {t}) = Collections(A) /\ DataRecords(A \cup {t}) = DataRecords(A)
        /\ Receipts(A \cup {t}) = Receipts(A)
    BY <1>3, OthersSame DEF IsReceipt
  <2> QED
    BY <2>1, <2>2, <2>3 DEF Holds, BookAfter
<1>4. CASE t.kind = "create_collection"
  <2>1. effect(s, t) = BookAfter(s, t, s.envelopes, s.shares,
                             s.collections \cup {[id |-> t.id, user |-> t.user]}, s.records)
    BY <1>4, EffectFields
  <2>2. /\ Envelopes(A \cup {t}) = Envelopes(A) /\ Shares(A \cup {t}) = Shares(A)
    BY <1>4, SharesSame DEF IsShare, IsRevocation
  <2>3. Collections(A \cup {t}) = Collections(A) \cup {[id |-> t.id, user |-> t.user]}
    BY <1>4 DEF Collections, Created
  <2>4. DataRecords(A \cup {t}) = DataRecords(A) /\ Receipts(A \cup {t}) = Receipts(A)
    BY <1>4, OthersSame DEF IsReceipt
  <2> QED
    BY <2>1, <2>2, <2>3, <2>4 DEF Holds, BookAfter
<1>5. CASE t.kind = "append_record"
  <2>1. effect(s, t) = BookAfter(s, t, s.envelopes, s.shares, s.collections,
                             s.records \cup {NewRecord(t)})
    BY <1>5, EffectFields
  <2>2. /\ Envelopes(A \cup {t}) = Envelopes(A) /\ Shares(A \cup {t}) = Shares(A)
    BY <1>5, SharesSame DEF IsShare, IsRevocation
  <2>3. DataRecords(A \cup {t}) = DataRecords(A) \cup {NewRecord(t)}
    BY <1>5 DEF DataRecords, Created, NewRecord
  <2>4. Collections(A \cup {t}) = Collections(A) /\ Receipts(A \cup {t}) = Receipts(A)
    BY <1>5, OthersSame DEF IsReceipt
  <2> QED
    BY <2>1, <2>2, <2>3, <2>4 DEF Holds, BookAfter
<1>6. CASE t.kind = "submit_retrieval_receipt"
  <2>1. effect(s, t) = IF t.ref \in s.receipts THEN s
                       ELSE [s EXCEPT !.success[t.ref.miner] = @ + 1, !.receipts = @ \cup {t.ref}]
    BY <1>6, EffectFields
  <2>2. LET r == effect(s, t)
        IN  /\ r.envelopes = s.envelopes /\ r.shares = s.shares /\ r.collections = s.collections
            /\ r.records = s.records /\ r.receipts = s.receipts \cup {t.ref}
    <3>1. CASE t.ref \in s.receipts
      BY <2>1, <3>1
    <3>2. CASE t.ref \notin s.receipts
      BY <2>1, <3>2 DEF IsBook
    <3> QED
      BY <3>1, <3>2
  <2>3. /\ Envelopes(A \cup {t}) = Envelopes(A) /\ Shares(A \cup {t}) = Shares(A)
    BY <1>6, SharesSame DEF IsShare, IsRevocation
  <2>4. Receipts(A \cup {t}) = Receipts(A) \cup {t.ref}
    BY <1>6 DEF Receipts, Created
  <2>5. Collections(A \cup {t}) = Collections(A) /\ DataRecords(A \cup {t}) = DataRecords(A)
    BY <1>6, OthersSame
  <2> QED
    BY <2>2, <2>3, <2>4, <2>5 DEF Holds
<1> QED
  BY <1>1, <1>2, <1>3, <1>4, <1>5, <1>6 DEF Formed, Kinds

-----------------------------------------------------------------------------
(***************************************************************************)
(* The inductive invariant.  A node has executed what its blocks hold and  *)
(* what it executed ahead of them, and that alone decides what it has      *)
(* written down - if no share comes after its revocation.  None does while *)
(* no nonce is used up for nothing: the nonce of the share was used by     *)
(* then, by the share or by a transaction the chain has instead of it.     *)
(***************************************************************************)
\* Everything that was made and can be sent.
Made == UNION {book[n].appliedTxs : n \in Replica}

\* The first k blocks.
Blocks(k) == {log[i] : i \in 1..k}

\* Among A, t used the nonce of its sender: a revocation does where its share is known.
UsesNonce(t, A) ==
  /\ ~IsReceipt(t)
  /\ IsRevocation(t) => \E c \in A : IsShare(c) /\ c.id = t.ref

NoncesUsed(s) ==
  \A t \in s.appliedTxs : UsesNonce(t, s.appliedTxs) => t.nonce < s.nonces[t.user]

NoncesCovered(s) ==
  \A u \in Writer : \A v \in Nat :
    v < s.nonces[u] => \E t \in s.appliedTxs :
                         UsesNonce(t, s.appliedTxs) /\ t.user = u /\ t.nonce = v

\* A node's state and the chain: it has its blocks, and waits for the rest.
NodeInv(n) ==
  LET s == book[n]
  IN  /\ IsBook(s) /\ s.height <= Len(log)
      /\ s.pendingTxs \subseteq Made
      /\ Blocks(s.height) \subseteq s.appliedTxs
      /\ s.appliedTxs \subseteq Blocks(s.height) \cup s.pendingTxs
      /\ s.pendingTxs \cap Blocks(s.height) = {}

ChainInv ==
  /\ writes \in 0..MaxWrites /\ skipped \in BOOLEAN
  /\ log \in Seq(Made)
  /\ book = [n \in Replica |-> book[n]]
  /\ \A t \in Made : Formed(t) /\ t.id <= writes
  /\ \A t, o \in Made : t.id = o.id => t = o
  /\ \A n \in Replica : NodeInv(n)

\* What a node executed decides what it has written down, and which nonces are used.
NodeSync(n) ==
  LET s == book[n]
  IN  /\ Holds(s, s.appliedTxs) /\ NoncesUsed(s) /\ NoncesCovered(s)
      /\ \A r \in s.appliedTxs \ Blocks(s.height) : ~IsReceipt(r) => UsesNonce(r, s.appliedTxs)

\* A revocation was made by the owner of its share, later.
RevocationsFollow ==
  \A r \in Made : IsRevocation(r) =>
    \E c \in Made : IsShare(c) /\ c.id = r.ref /\ c.user = r.user /\ c.nonce < r.nonce

\* When a revocation is in the chain, the nonce of its share was used before it.
ShareNonceGone ==
  \A p \in 1..Len(log) : IsRevocation(log[p]) =>
    \A c \in Made : IsShare(c) /\ c.id = log[p].ref =>
      \E d \in Blocks(p - 1) : UsesNonce(d, Blocks(p - 1)) /\ d.user = c.user /\ d.nonce = c.nonce

SyncInv == (\A n \in Replica : NodeSync(n)) /\ RevocationsFollow /\ ShareNonceGone

RecordsInv == ChainInv /\ (~skipped => SyncInv)

-----------------------------------------------------------------------------
\* What counts among some counts among more of them.
LEMMA StillUses ==
  ASSUME NEW A, NEW B, A \subseteq B, NEW t, UsesNonce(t, A)
  PROVE  UsesNonce(t, B)
  BY DEF UsesNonce

\* What was confirmed is the blocks.
LEMMA ConfirmedBlocks ==
  ASSUME ChainInv, NEW n \in Replica
  PROVE  book[n].height \in 0..Len(log) /\ Confirmed(n) = Blocks(book[n].height)
<1> DEFINE h == book[n].height
<1>1. h \in Nat /\ h <= Len(log) /\ log \in Seq(Made)
  BY DEF ChainInv, NodeInv, IsBook
<1> HIDE DEF h
<1>2. /\ \A i \in 1..h : SubSeq(log, 1, h)[i] = log[i]
      /\ DOMAIN SubSeq(log, 1, h) = 1..h
  BY <1>1
<1>3. Range(SubSeq(log, 1, h)) = {log[i] : i \in 1..h}
  BY <1>2 DEF Range
<1> QED
  BY <1>1, <1>3 DEF Confirmed, Blocks, h

\* A state with another mempool, and other transactions counted as executed.
Queued(s, pending, applied, height) ==
  [nonces |-> s.nonces, envelopes |-> s.envelopes, shares |-> s.shares,
   collections |-> s.collections, records |-> s.records, receipts |-> s.receipts,
   success |-> s.success, pendingTxs |-> pending, appliedTxs |-> applied, height |-> height]

LEMMA QueuedIsBook ==
  ASSUME NEW s, IsBook(s), NEW P, NEW A, NEW h \in Nat
  PROVE  /\ IsBook(Queued(s, P, A, h))
         /\ [s EXCEPT !.pendingTxs = P] = Queued(s, P, s.appliedTxs, s.height)
         /\ [s EXCEPT !.pendingTxs = P, !.appliedTxs = A] = Queued(s, P, A, s.height)
<1>1. /\ s.nonces \in [Writer -> Nat] /\ s.receipts \subseteq Receipt
      /\ s.success = Counts(s.receipts)
      /\ s.shares \subseteq [id : Nat, user : Writer, revoked : BOOLEAN]
  BY DEF IsBook
<1>2. IsBook(Queued(s, P, A, h))
  BY <1>1 DEF IsBook, Queued
<1>3. [s EXCEPT !.pendingTxs = P] = Queued(s, P, s.appliedTxs, s.height)
  BY DEF IsBook, Queued
<1>4. [s EXCEPT !.pendingTxs = P, !.appliedTxs = A]
        = [[s EXCEPT !.pendingTxs = P] EXCEPT !.appliedTxs = A]
  OBVIOUS
<1>5. [Queued(s, P, s.appliedTxs, s.height) EXCEPT !.appliedTxs = A] = Queued(s, P, A, s.height)
  BY DEF Queued
<1>6. [s EXCEPT !.pendingTxs = P, !.appliedTxs = A] = Queued(s, P, A, s.height)
  BY <1>3, <1>4, <1>5
<1> QED
  BY <1>2, <1>3, <1>6

\* A state after t has used its nonce, and counts it as executed.
Executed(r, s, t) ==
  LET q == effect(s, t)
  IN  /\ r.nonces = q.nonces /\ r.envelopes = q.envelopes /\ r.shares = q.shares
      /\ r.collections = q.collections /\ r.records = q.records /\ r.receipts = q.receipts
      /\ r.appliedTxs = s.appliedTxs \cup {t}

\* A transaction with the next nonce, not of a share revoked before nor revoking one
\* that is not there, keeps the state in order.
LEMMA ExecutedInOrder ==
  ASSUME NEW s, IsBook(s), NEW t, \A o \in s.appliedTxs \cup {t} : Formed(o),
         Holds(s, s.appliedTxs), NoncesUsed(s), NoncesCovered(s),
         ~IsReceipt(t) => t.nonce = s.nonces[t.user],
         ~IsReceipt(t) => UsesNonce(t, s.appliedTxs),
         IsShare(t) => ~Revoked(s.appliedTxs, t.id),
         NEW r, Executed(r, s, t)
  PROVE  Holds(r, r.appliedTxs) /\ NoncesUsed(r) /\ NoncesCovered(r)
<1> DEFINE A == s.appliedTxs
           B == A \cup {t}
<1>1. r.appliedTxs = B
  BY DEF Executed
<1>2. Holds(r, B)
  BY EffectHolds DEF Holds, Executed
<1>3. r.nonces = IF IsReceipt(t) THEN s.nonces ELSE NextNonces(s, t)
  BY EffectKeeps DEF Kept, Executed
<1>4. ASSUME NEW o \in A, UsesNonce(o, B)
      PROVE  UsesNonce(o, A)
  BY <1>4 DEF UsesNonce, Revoked
<1>5. s.nonces \in [Writer -> Nat] /\ (~IsReceipt(t) => t.user \in Writer)
  BY DEF IsBook, Formed
<1>6. /\ \A u \in Writer : s.nonces[u] \in Nat
      /\ \A u \in Writer : r.nonces[u] = IF ~IsReceipt(t) /\ u = t.user
                                         THEN s.nonces[u] + 1 ELSE s.nonces[u]
  BY <1>3, <1>5 DEF NextNonces
<1>7. NoncesUsed(r)
  <2>1. ASSUME NEW o \in B, UsesNonce(o, B)
        PROVE  o.nonce < r.nonces[o.user]
    <3>1. o.nonce \in Nat /\ o.user \in Writer
      BY <2>1 DEF Formed, UsesNonce
    <3>2. CASE o \in A
      <4>1. o.nonce < s.nonces[o.user]
        BY <1>4, <2>1, <3>2 DEF NoncesUsed
      <4> QED
        BY <1>6, <3>1, <4>1
    <3>3. CASE o = t
      BY <1>6, <2>1, <3>1, <3>3 DEF UsesNonce
    <3> QED
      BY <3>2, <3>3
  <2> QED
    BY <1>1, <2>1 DEF NoncesUsed
<1>8. NoncesCovered(r)
  <2>1. ASSUME NEW u \in Writer, NEW v \in Nat, v < r.nonces[u]
        PROVE  \E o \in B : UsesNonce(o, B) /\ o.user = u /\ o.nonce = v
    <3>1. CASE v < s.nonces[u]
      <4>1. PICK o \in A : UsesNonce(o, A) /\ o.user = u /\ o.nonce = v
        BY <3>1 DEF NoncesCovered
      <4> QED
        BY <4>1, StillUses
    <3>2. CASE ~(v < s.nonces[u])
      <4>1. ~IsReceipt(t) /\ u = t.user /\ v = t.nonce
        BY <1>6, <2>1, <3>2
      <4>2. UsesNonce(t, B)
        BY <4>1, StillUses
      <4> QED
        BY <4>1, <4>2
    <3> QED
      BY <3>1, <3>2
  <2> QED
    BY <1>1, <2>1 DEF NoncesCovered
<1> QED
  BY <1>1, <1>2, <1>7, <1>8

\* A revocation of a share that is not there changes nothing else.
LEMMA NothingInOrder ==
  ASSUME NEW s, IsBook(s), NEW t, \A o \in s.appliedTxs \cup {t} : Formed(o),
         Holds(s, s.appliedTxs), NoncesUsed(s), NoncesCovered(s), revokesNothing(s, t),
         NEW r, r.nonces = s.nonces, r.envelopes = s.envelopes, r.shares = s.shares,
         r.collections = s.collections, r.records = s.records, r.receipts = s.receipts,
         r.appliedTxs = s.appliedTxs \cup {t}
  PROVE  Holds(r, r.appliedTxs) /\ NoncesUsed(r) /\ NoncesCovered(r)
<1> DEFINE A == s.appliedTxs
           B == A \cup {t}
<1>1. Holds(s, B) /\ \A c \in A : IsShare(c) => c.id # t.ref
  BY NothingMarked
<1>2. IsRevocation(t) /\ ~IsShare(t)
  BY DEF revokesNothing, IsRevocation, IsShare
<1>3. Holds(r, B)
  BY <1>1 DEF Holds
<1>4. ASSUME NEW o \in B, UsesNonce(o, B)
      PROVE  o \in A /\ UsesNonce(o, A)
  BY <1>1, <1>2, <1>4 DEF UsesNonce
<1>5. NoncesUsed(r)
  BY <1>4 DEF NoncesUsed
<1>6. NoncesCovered(r)
  <2>1. ASSUME NEW u \in Writer, NEW v \in Nat, v < s.nonces[u]
        PROVE  \E o \in B : UsesNonce(o, B) /\ o.user = u /\ o.nonce = v
    <3>1. PICK o \in A : UsesNonce(o, A) /\ o.user = u /\ o.nonce = v
      BY <2>1 DEF NoncesCovered
    <3> QED
      BY <3>1, StillUses
  <2>2. r.appliedTxs = B /\ r.nonces = s.nonces
    OBVIOUS
  <2> HIDE DEF B
  <2> QED
    BY <2>1, <2>2 DEF NoncesCovered
<1> QED
  BY <1>3, <1>5, <1>6

-----------------------------------------------------------------------------
(***************************************************************************)
(* One node's step                                                         *)
(***************************************************************************)
\* What is made, when n has executed the transactions of S.
LEMMA MadeNext ==
  ASSUME ChainInv, NEW n \in Replica, NEW X, book' = [book EXCEPT ![n] = X],
         NEW S, X.appliedTxs = book[n].appliedTxs \cup S
  PROVE  Made' = Made \cup S
<1>1. /\ book'[n].appliedTxs = book[n].appliedTxs \cup S
      /\ \A m \in Replica \ {n} : book'[m].appliedTxs = book[m].appliedTxs
  BY DEF ChainInv
<1> QED
  BY <1>1 DEF Made

\* The other nodes, and the blocks they have.
LEMMA OtherNodes ==
  ASSUME ChainInv, NEW n \in Replica, NEW X, book' = [book EXCEPT ![n] = X],
         Len(log') \in Nat, Len(log') >= Len(log), \A i \in 1..Len(log) : log'[i] = log[i],
         Made \subseteq Made'
  PROVE  /\ book'[n] = X /\ book' = [m \in Replica |-> book'[m]]
         /\ \A k \in 0..Len(log) : Blocks(k)' = Blocks(k)
         /\ \A m \in Replica \ {n} : /\ book'[m] = book[m] /\ NodeInv(m)'
                                     /\ NodeSync(m) => NodeSync(m)'
<1>1. book = [m \in Replica |-> book[m]] /\ log \in Seq(Made) /\ Len(log) \in Nat
  BY DEF ChainInv
<1>2. /\ book'[n] = X /\ book' = [m \in Replica |-> book'[m]]
      /\ \A m \in Replica \ {n} : book'[m] = book[m]
  BY <1>1
<1>3. \A k \in 0..Len(log) : Blocks(k)' = Blocks(k)
  BY <1>1 DEF Blocks
<1>4. ASSUME NEW m \in Replica \ {n}
      PROVE  NodeInv(m)' /\ (NodeSync(m) => NodeSync(m)')
  <2>1. NodeInv(m)
    BY <1>4 DEF ChainInv
  <2>2. book'[m] = book[m]
    BY <1>2, <1>4
  <2>3. book[m].height \in 0..Len(log)
    BY <1>1, <2>1 DEF NodeInv, IsBook
  <2>4. Blocks(book[m].height)' = Blocks(book[m].height)
    BY <1>3, <2>2, <2>3
  <2>5. NodeInv(m)'
    BY <1>1, <2>1, <2>2, <2>3, <2>4 DEF NodeInv
  <2>6. NodeSync(m) => NodeSync(m)'
    BY <2>2, <2>4 DEF NodeSync
  <2> QED
    BY <2>5, <2>6
<1> QED
  BY <1>2, <1>3, <1>4

\* The invariant does not depend on what is in a mempool for others.
LEMMA GossipStep ==
  ASSUME RecordsInv, NEW n \in Replica, NEW m \in Replica \ {n}, Gossip(n, m)
  PROVE  RecordsInv'
<1>1. PICK t \in book[n].pendingTxs :
        /\ t \notin book[m].pendingTxs \cup Confirmed(m)
        /\ book' = [book EXCEPT ![m].pendingTxs = @ \cup {t}]
        /\ writes' = writes /\ log' = log /\ skipped' = skipped
  BY DEF Gossip
<1>2. ChainInv /\ NodeInv(m) /\ NodeInv(n) /\ log \in Seq(Made) /\ Len(log) \in Nat
  BY DEF RecordsInv, ChainInv
<1> DEFINE s == book[m]
           X == Queued(s, s.pendingTxs \cup {t}, s.appliedTxs, s.height)
<1>3. IsBook(s) /\ s.height \in Nat
  BY <1>2 DEF NodeInv, IsBook
<1>4. IsBook(X) /\ [s EXCEPT !.pendingTxs = @ \cup {t}] = X
  BY <1>3, QueuedIsBook
<1>5. book' = [book EXCEPT ![m] = X]
  BY <1>1, <1>4
<1>6. /\ X.nonces = s.nonces /\ X.envelopes = s.envelopes /\ X.shares = s.shares
      /\ X.collections = s.collections /\ X.records = s.records /\ X.receipts = s.receipts
      /\ X.appliedTxs = s.appliedTxs /\ X.height = s.height
      /\ X.pendingTxs = s.pendingTxs \cup {t}
  BY DEF Queued
<1> HIDE DEF X
<1>7. Made' = Made
  <2>1. X.appliedTxs = s.appliedTxs \cup {}
    BY <1>6
  <2>2. Made' = Made \cup {}
    BY <1>2, <1>5, <2>1, MadeNext
  <2> QED
    BY <2>2
<1>8. /\ book'[m] = X /\ book' = [k \in Replica |-> book'[k]]
      /\ \A k \in 0..Len(log) : Blocks(k)' = Blocks(k)
      /\ \A k \in Replica \ {m} : NodeInv(k)' /\ (NodeSync(k) => NodeSync(k)')
  <2>1. /\ Len(log') \in Nat /\ Len(log') >= Len(log) /\ Made \subseteq Made'
        /\ \A i \in 1..Len(log) : log'[i] = log[i]
    BY <1>1, <1>2, <1>7
  <2> QED
    BY <1>2, <1>5, <2>1, OtherNodes
<1>9. Confirmed(m) = Blocks(s.height) /\ s.height \in 0..Len(log)
  BY <1>2, ConfirmedBlocks
<1>10. /\ book'[m].height = s.height /\ Blocks(book[m].height)' = Blocks(s.height)
  BY <1>6, <1>8, <1>9
<1>11. t \in Made
  BY <1>1, <1>2 DEF NodeInv
<1>12. NodeInv(m)'
  <2>1. /\ IsBook(X) /\ X.height <= Len(log)
        /\ X.pendingTxs \subseteq Made
        /\ Blocks(s.height) \subseteq X.appliedTxs
        /\ X.appliedTxs \subseteq Blocks(s.height) \cup X.pendingTxs
        /\ X.pendingTxs \cap Blocks(s.height) = {}
    BY <1>1, <1>2, <1>4, <1>6, <1>9, <1>11 DEF NodeInv
  <2>2. Blocks(book[m].height)' = Blocks(s.height) /\ book'[m] = X
    BY <1>8, <1>10
  <2> HIDE DEF s
  <2> QED
    BY <1>1, <1>7, <2>1, <2>2 DEF NodeInv
<1>13. NodeSync(m) => NodeSync(m)'
  BY <1>6, <1>8, <1>10 DEF NodeSync, Holds, NoncesUsed, NoncesCovered
<1>14. ChainInv'
  BY <1>1, <1>2, <1>7, <1>8, <1>12 DEF ChainInv
<1>15. ~skipped' => SyncInv'
  <2>1. SUFFICES ASSUME ~skipped PROVE SyncInv'
    BY <1>1
  <2>2. SyncInv
    BY <2>1 DEF RecordsInv
  <2>3. \A k \in Replica : NodeSync(k)'
    BY <1>8, <1>13, <2>2 DEF SyncInv
  <2>4. RevocationsFollow'
    BY <1>7, <2>2 DEF SyncInv, RevocationsFollow, IsRevocation, IsShare
  <2>5. ShareNonceGone'
    <3>1. \A k : Blocks(k)' = Blocks(k)
      BY <1>1 DEF Blocks
    <3> QED
      BY <1>1, <1>7, <2>2, <3>1 DEF SyncInv, ShareNonceGone
  <2> QED
    BY <2>3, <2>4, <2>5 DEF SyncInv
<1> QED
  BY <1>14, <1>15 DEF RecordsInv

FirstBlocks(l, k) == {l[i] : i \in 1..k}

\* Node n moves to the state X and has executed S then, as far as the chain is concerned.
Moves(n, X, S) ==
  /\ book' = [book EXCEPT ![n] = X] /\ X.appliedTxs = book[n].appliedTxs \cup S
  /\ \A t \in S : /\ Formed(t) /\ t.id <= writes'
                  /\ \A o \in Made \cup S : t.id = o.id => t = o
  /\ writes' \in 0..MaxWrites /\ writes' >= writes /\ skipped' \in BOOLEAN
  /\ log' \in Seq(Made \cup S) /\ Len(log') >= Len(log)
  /\ \A i \in 1..Len(log) : log'[i] = log[i]
  /\ IsBook(X) /\ X.height <= Len(log') /\ X.pendingTxs \subseteq Made \cup S
  /\ FirstBlocks(log', X.height) \subseteq X.appliedTxs
  /\ X.appliedTxs \subseteq FirstBlocks(log', X.height) \cup X.pendingTxs
  /\ X.pendingTxs \cap FirstBlocks(log', X.height) = {}

\* A step of one node that keeps what is asked of it keeps it everywhere.
LEMMA NodeStep ==
  ASSUME ChainInv, NEW n \in Replica, NEW X, NEW S, Moves(n, X, S)
  PROVE  /\ ChainInv' /\ Made' = Made \cup S
         /\ \A k \in 0..Len(log) : Blocks(k)' = Blocks(k)
         /\ book'[n] = X
         /\ \A m \in Replica \ {n} : NodeSync(m) => NodeSync(m)'
<1> USE DEF Moves
<1>1. Made' = Made \cup S
  BY MadeNext
<1>2. Len(log') \in Nat
  OBVIOUS
<1>3. /\ book'[n] = X /\ book' = [m \in Replica |-> book'[m]]
      /\ \A k \in 0..Len(log) : Blocks(k)' = Blocks(k)
      /\ \A m \in Replica \ {n} : NodeInv(m)' /\ (NodeSync(m) => NodeSync(m)')
  <2>1. Made \subseteq Made'
    BY <1>1
  <2> QED
    BY <1>2, <2>1, OtherNodes
<1>4. NodeInv(n)'
  <2>1. Blocks(book[n].height)' = FirstBlocks(log', book'[n].height)
    BY DEF Blocks, FirstBlocks
  <2>2. Blocks(book[n].height)' = FirstBlocks(log', X.height)
    BY <1>3, <2>1
  <2> QED
    BY <1>1, <1>3, <2>2 DEF NodeInv
<1>5. /\ \A t \in Made' : Formed(t) /\ t.id <= writes'
      /\ \A t, o \in Made' : t.id = o.id => t = o
  <2>1. \A t \in Made : Formed(t) /\ t.id <= writes /\ t.id \in Nat /\ writes \in Nat /\ writes' \in Nat
    BY DEF ChainInv, Formed
  <2>2. \A t, o \in Made : t.id = o.id => t = o
    BY DEF ChainInv
  <2> QED
    BY <1>1, <2>1, <2>2
<1>6. \A m \in Replica : NodeInv(m)'
  BY <1>3, <1>4
<1>7. ChainInv'
  BY <1>1, <1>3, <1>5, <1>6 DEF ChainInv
<1> QED
  BY <1>1, <1>3, <1>7

\* A transaction a node executed and sends: made now, with an id of its own.
LEMMA SentStep ==
  ASSUME RecordsInv, NEW n \in Replica, NEW t, Execute(n, t), Formed(t), t.id = writes + 1,
         enqueuedTx(book[n], t),
         ~IsReceipt(t) => t.nonce = book[n].nonces[t.user],
         IsRevocation(t) => \E x \in book[n].shares : x.id = t.ref /\ x.user = t.user
  PROVE  RecordsInv'
<1> DEFINE s == book[n]
           q == effect(s, t)
           X == Queued(q, s.pendingTxs \cup {t}, s.appliedTxs \cup {t}, s.height)
           B == Blocks(s.height)
<1>1. /\ writes' = writes + 1 /\ writes < MaxWrites /\ log' = log
      /\ book' = [book EXCEPT ![n] = recorded(q, t)] /\ skipped' = skipped
  BY DEF Execute, RecordsInv, ChainInv
<1>2. /\ ChainInv /\ NodeInv(n) /\ log \in Seq(Made) /\ Len(log) \in Nat /\ writes \in 0..MaxWrites
      /\ MaxWrites \in Nat /\ skipped \in BOOLEAN
      /\ \A o \in Made : Formed(o) /\ o.id <= writes
  BY RecordsAssumption DEF RecordsInv, ChainInv
<1>3. IsBook(s) /\ s.height \in 0..Len(log) /\ s.appliedTxs \subseteq Made
  BY <1>2, ConfirmedBlocks DEF NodeInv, Made
<1>4. Kept(q, s, t) /\ IsBook(q)
  BY <1>3, EffectKeeps DEF Kept
<1> HIDE DEF q
<1>5. recorded(q, t) = [q EXCEPT !.pendingTxs = s.pendingTxs \cup {t},
                                 !.appliedTxs = s.appliedTxs \cup {t}]
  <2>1. enqueuedTx(q, t) /\ q.pendingTxs = s.pendingTxs /\ q.appliedTxs = s.appliedTxs
    BY <1>4 DEF enqueuedTx, Kept
  <2> HIDE DEF s
  <2> QED
    BY <2>1 DEF recorded
<1>6. recorded(q, t) = X /\ IsBook(X)
  <2>1. q.height = s.height /\ q.height \in Nat
    BY <1>4 DEF Kept, IsBook
  <2> HIDE DEF s
  <2> DEFINE P == s.pendingTxs \cup {t}
             A == s.appliedTxs \cup {t}
  <2>2. X = Queued(q, P, A, q.height)
    BY <2>1
  <2> HIDE DEF X, P, A
  <2>3. /\ IsBook(Queued(q, P, A, q.height))
        /\ [q EXCEPT !.pendingTxs = P, !.appliedTxs = A] = Queued(q, P, A, q.height)
    BY <1>4, <2>1, QueuedIsBook
  <2> QED
    BY <1>5, <2>2, <2>3 DEF P, A
<1>7. /\ X.pendingTxs = s.pendingTxs \cup {t} /\ X.appliedTxs = s.appliedTxs \cup {t}
      /\ X.height = s.height
      /\ X.nonces = q.nonces /\ X.envelopes = q.envelopes /\ X.shares = q.shares
      /\ X.collections = q.collections /\ X.records = q.records /\ X.receipts = q.receipts
  BY DEF Queued
<1> HIDE DEF X
<1>8. t \notin Made /\ t.id \in Nat
  BY <1>2, t.id = writes + 1 DEF Formed
<1>9. B = FirstBlocks(log', X.height) /\ B \subseteq Made
  BY <1>1, <1>2, <1>3, <1>7 DEF Blocks, FirstBlocks
<1>10. /\ ChainInv' /\ Made' = Made \cup {t}
       /\ \A k \in 0..Len(log) : Blocks(k)' = Blocks(k)
       /\ book'[n] = X
       /\ \A m \in Replica \ {n} : NodeSync(m) => NodeSync(m)'
  <2>1. book' = [book EXCEPT ![n] = X]
    BY <1>1, <1>6
  <2>2. \A o \in {t} : /\ Formed(o) /\ o.id <= writes'
                       /\ \A p \in Made \cup {t} : o.id = p.id => o = p
    <3>1. ASSUME NEW p \in Made PROVE p.id # t.id
      <4>1. p.id <= writes /\ p.id \in Nat
        BY <1>2 DEF Formed
      <4> QED
        BY <1>2, <4>1
    <3> QED
      BY <1>1, <1>2, <3>1
  <2>3. writes' \in 0..MaxWrites /\ writes' >= writes /\ skipped' \in BOOLEAN
    BY <1>1, <1>2
  <2>4. /\ log' \in Seq(Made \cup {t}) /\ Len(log') >= Len(log)
        /\ \A i \in 1..Len(log) : log'[i] = log[i]
    BY <1>1, <1>2
  <2>5. /\ X.height <= Len(log') /\ X.pendingTxs \subseteq Made \cup {t}
        /\ FirstBlocks(log', X.height) \subseteq X.appliedTxs
        /\ X.appliedTxs \subseteq FirstBlocks(log', X.height) \cup X.pendingTxs
        /\ X.pendingTxs \cap FirstBlocks(log', X.height) = {}
    BY <1>1, <1>2, <1>3, <1>7, <1>8, <1>9 DEF NodeInv
  <2>6. Moves(n, X, {t})
    BY <1>6, <1>7, <2>1, <2>2, <2>3, <2>4, <2>5 DEF Moves
  <2> QED
    BY <1>2, <2>6, NodeStep
<1>11. SUFFICES ASSUME ~skipped, SyncInv PROVE SyncInv'
  BY <1>1, <1>10 DEF RecordsInv
<1>12. /\ Holds(s, s.appliedTxs) /\ NoncesUsed(s) /\ NoncesCovered(s)
       /\ \A r \in s.appliedTxs \ B : ~IsReceipt(r) => UsesNonce(r, s.appliedTxs)
       /\ RevocationsFollow /\ ShareNonceGone
  BY <1>11 DEF SyncInv, NodeSync
<1>13. IsRevocation(t) => \E c \in s.appliedTxs : IsShare(c) /\ c.id = t.ref /\ c.user = t.user
  <2>1. s.shares = Shares(s.appliedTxs)
    BY <1>12 DEF Holds
  <2> QED
    BY <2>1 DEF Shares, Created, IsShare
<1>14. ~IsReceipt(t) => UsesNonce(t, s.appliedTxs)
  BY <1>13 DEF UsesNonce
<1>15. IsShare(t) => ~Revoked(s.appliedTxs, t.id)
  <2>1. SUFFICES ASSUME NEW r \in s.appliedTxs, IsRevocation(r), r.ref = t.id PROVE FALSE
    BY DEF Revoked
  <2>2. PICK c \in Made : c.id = r.ref
    BY <1>3, <1>12, <2>1 DEF RevocationsFollow
  <2> QED
    BY <1>2, <2>1, <2>2
<1>16. Executed(X, s, t)
  BY <1>7 DEF Executed, q
<1>17. Holds(X, X.appliedTxs) /\ NoncesUsed(X) /\ NoncesCovered(X)
  <2>1. \A o \in s.appliedTxs \cup {t} : Formed(o)
    BY <1>2, <1>3
  <2> QED
    BY <1>3, <1>12, <1>14, <1>15, <1>16, <2>1, ExecutedInOrder
<1>18. NodeSync(n)'
  <2>1. \A r \in X.appliedTxs \ B : ~IsReceipt(r) => UsesNonce(r, X.appliedTxs)
    BY <1>7, <1>12, <1>14, StillUses
  <2>2. book'[n] = X /\ Blocks(book[n].height)' = B
    BY <1>3, <1>7, <1>10
  <2> HIDE DEF B, s
  <2> QED
    BY <1>17, <2>1, <2>2 DEF NodeSync, Holds, NoncesUsed, NoncesCovered
<1>19. RevocationsFollow'
  <2>1. ASSUME IsRevocation(t)
        PROVE  \E c \in Made : IsShare(c) /\ c.id = t.ref /\ c.user = t.user /\ c.nonce < t.nonce
    <3>1. PICK c \in s.appliedTxs : IsShare(c) /\ c.id = t.ref /\ c.user = t.user
      BY <1>13, <2>1
    <3>2. UsesNonce(c, s.appliedTxs)
      BY <3>1 DEF UsesNonce, IsShare, IsReceipt, IsRevocation
    <3>3. c.nonce < s.nonces[c.user]
      BY <1>12, <3>1, <3>2 DEF NoncesUsed
    <3>4. t.nonce = s.nonces[t.user]
      BY <2>1 DEF IsRevocation, IsReceipt
    <3> QED
      BY <1>3, <3>1, <3>3, <3>4
  <2>2. ASSUME NEW r \in Made \cup {t}, IsRevocation(r)
        PROVE  \E c \in Made \cup {t} : IsShare(c) /\ c.id = r.ref /\ c.user = r.user /\ c.nonce < r.nonce
    BY <1>12, <2>1, <2>2 DEF RevocationsFollow
  <2> QED
    BY <1>10, <2>2 DEF RevocationsFollow, IsRevocation, IsShare
<1>20. ShareNonceGone'
  <2>1. ASSUME NEW p \in 1..Len(log), IsRevocation(log[p]), NEW c \in Made \cup {t}, IsShare(c),
               c.id = log[p].ref
        PROVE  \E d \in Blocks(p - 1) : UsesNonce(d, Blocks(p - 1)) /\ d.user = c.user /\ d.nonce = c.nonce
    <3>1. log[p] \in Made
      BY <1>2
    <3>2. PICK e \in Made : e.id = log[p].ref
      BY <1>12, <2>1, <3>1 DEF RevocationsFollow
    <3>3. c \in Made
      BY <1>2, <2>1, <3>2
    <3> QED
      BY <1>12, <2>1, <3>3 DEF ShareNonceGone
  <2>2. \A k : Blocks(k)' = Blocks(k)
    BY <1>1 DEF Blocks
  <2> QED
    BY <1>1, <1>10, <2>1, <2>2 DEF ShareNonceGone
<1> QED
  BY <1>10, <1>12, <1>18, <1>19, <1>20, <1>11 DEF SyncInv

\* A step that uses up a nonce for nothing: from here on only the chain is in order.
LEMMA SkippedStep ==
  ASSUME RecordsInv, NEW n \in Replica, NEW X, book' = [book EXCEPT ![n] = X], IsBook(X),
         X.pendingTxs = book[n].pendingTxs, X.appliedTxs = book[n].appliedTxs,
         X.height = book[n].height,
         writes < MaxWrites, writes' = writes + 1, log' = log, skipped' = TRUE
  PROVE  RecordsInv'
<1>1. /\ ChainInv /\ NodeInv(n) /\ log \in Seq(Made) /\ Len(log) \in Nat /\ writes \in 0..MaxWrites
      /\ MaxWrites \in Nat
  BY RecordsAssumption DEF RecordsInv, ChainInv
<1>2. book[n].height \in 0..Len(log)
  BY <1>1, ConfirmedBlocks
<1>3. Blocks(book[n].height) = FirstBlocks(log', X.height)
  BY DEF Blocks, FirstBlocks
<1>4. Moves(n, X, {})
  <2>1. writes' \in 0..MaxWrites /\ writes' >= writes /\ skipped' \in BOOLEAN
    BY <1>1
  <2>2. /\ log' \in Seq(Made \cup {}) /\ Len(log') >= Len(log)
        /\ \A i \in 1..Len(log) : log'[i] = log[i]
    BY <1>1
  <2>3. /\ X.height <= Len(log') /\ X.pendingTxs \subseteq Made \cup {}
        /\ FirstBlocks(log', X.height) \subseteq X.appliedTxs
        /\ X.appliedTxs \subseteq FirstBlocks(log', X.height) \cup X.pendingTxs
        /\ X.pendingTxs \cap FirstBlocks(log', X.height) = {}
    BY <1>1, <1>3 DEF NodeInv
  <2> QED
    BY <2>1, <2>2, <2>3 DEF Moves
<1>5. ChainInv'
  BY <1>1, <1>4, NodeStep
<1> QED
  BY <1>5 DEF RecordsInv

\* A transaction executed at once for a client, sent or not.
LEMMA ExecuteStep ==
  ASSUME RecordsInv, NEW n \in Replica, NEW t, Execute(n, t), Formed(t), t.id = writes + 1,
         ~IsReceipt(t) => t.nonce = book[n].nonces[t.user],
         IsRevocation(t) => \E x \in book[n].shares : x.id = t.ref /\ x.user = t.user
  PROVE  RecordsInv'
<1>1. CASE enqueuedTx(book[n], t)
  BY <1>1, SentStep
<1>2. CASE ~enqueuedTx(book[n], t)
  <2> DEFINE X == effect(book[n], t)
  <2>1. IsBook(book[n])
    BY DEF RecordsInv, ChainInv, NodeInv
  <2>2. Kept(X, book[n], t)
    BY <2>1, EffectKeeps
  <2>3. /\ writes < MaxWrites /\ writes' = writes + 1 /\ log' = log /\ skipped' = TRUE
        /\ book' = [book EXCEPT ![n] = recorded(X, t)]
    BY <1>2 DEF Execute
  <2> HIDE DEF X
  <2>4. recorded(X, t) = X
    BY <1>2, <2>2 DEF recorded, enqueuedTx, Kept
  <2> QED
    BY <2>2, <2>3, <2>4, SkippedStep DEF Kept
<1> QED
  BY <1>1, <1>2

\* A new share was not revoked on a node where its nonce comes next.
LEMMA ShareNotRevoked ==
  ASSUME ChainInv, SyncInv, NEW n \in Replica, NEW c \in Made, IsShare(c),
         c \notin book[n].appliedTxs, c.nonce = book[n].nonces[c.user]
  PROVE  ~Revoked(book[n].appliedTxs, c.id)
<1> DEFINE s == book[n]
<1>1. /\ NodeInv(n) /\ NodeSync(n) /\ s.appliedTxs \subseteq Made
      /\ s.height \in 0..Len(log) /\ Len(log) \in Nat
      /\ \A t, o \in Made : t.id = o.id => t = o
      /\ \A t \in Made : Formed(t)
  BY ConfirmedBlocks DEF ChainInv, SyncInv, Made
<1>2. SUFFICES ASSUME NEW r \in s.appliedTxs, IsRevocation(r), r.ref = c.id PROVE FALSE
  BY DEF Revoked
<1>3. CASE r \notin Blocks(s.height)
  <2>1. UsesNonce(r, s.appliedTxs)
    BY <1>1, <1>2, <1>3 DEF NodeSync, IsReceipt, IsRevocation
  <2>2. PICK d \in s.appliedTxs : d.id = c.id
    BY <1>2, <2>1 DEF UsesNonce
  <2> QED
    BY <1>1, <2>2
<1>4. CASE r \in Blocks(s.height)
  <2>1. PICK p \in 1..s.height : r = log[p]
    BY <1>4 DEF Blocks
  <2>2. PICK d \in Blocks(p - 1) : UsesNonce(d, Blocks(p - 1)) /\ d.user = c.user /\ d.nonce = c.nonce
    BY <1>1, <1>2, <2>1 DEF SyncInv, ShareNonceGone
  <2>3. Blocks(p - 1) \subseteq s.appliedTxs
    <3>1. Blocks(p - 1) \subseteq Blocks(s.height)
      BY <1>1, <2>1 DEF Blocks
    <3> QED
      BY <1>1, <3>1 DEF NodeInv
  <2>4. UsesNonce(d, s.appliedTxs) /\ d \in s.appliedTxs
    BY <2>2, <2>3, StillUses
  <2>5. d.nonce < s.nonces[d.user]
    BY <1>1, <2>4 DEF NodeSync, NoncesUsed
  <2>6. c.nonce \in Nat
    BY <1>1 DEF Formed
  <2> QED
    BY <2>2, <2>5, <2>6
<1> QED
  BY <1>3, <1>4

\* A transaction of a block is there as if the node had just executed it: executed
\* ahead, of a share that is not there, or replayed.
LEMMA ConfirmedInOrder ==
  ASSUME ChainInv, SyncInv, NEW n \in Replica, NEW t \in Made, NEW X,
         t \notin book[n].appliedTxs, replayable(book[n], t),
         LET q == replayed(book[n], t)
         IN  /\ X.nonces = q.nonces /\ X.envelopes = q.envelopes /\ X.shares = q.shares
             /\ X.collections = q.collections /\ X.records = q.records
             /\ X.receipts = q.receipts /\ X.appliedTxs = book[n].appliedTxs \cup {t}
  PROVE  Holds(X, X.appliedTxs) /\ NoncesUsed(X) /\ NoncesCovered(X)
<1> DEFINE s == book[n]
<1>1. /\ IsBook(s) /\ Holds(s, s.appliedTxs) /\ NoncesUsed(s) /\ NoncesCovered(s)
      /\ \A o \in s.appliedTxs \cup {t} : Formed(o)
  BY DEF ChainInv, NodeInv, SyncInv, NodeSync, Made
<1>2. CASE revokesNothing(s, t)
  <2>1. replayed(s, t) = s
    BY <1>2 DEF replayed
  <2>2. /\ X.nonces = s.nonces /\ X.envelopes = s.envelopes /\ X.shares = s.shares
        /\ X.collections = s.collections /\ X.records = s.records
        /\ X.receipts = s.receipts /\ X.appliedTxs = s.appliedTxs \cup {t}
    BY <2>1
  <2> HIDE DEF s
  <2> QED
    BY <1>1, <1>2, <2>2, NothingInOrder
<1>3. CASE ~revokesNothing(s, t)
  <2>1. Executed(X, s, t)
    BY <1>3 DEF replayed, Executed
  <2>2. IsRevocation(t) => \E x \in s.shares : x.id = t.ref
    BY <1>3 DEF revokesNothing, shareOf, IsRevocation
  <2>3. ~IsReceipt(t) => t.nonce = s.nonces[t.user]
    <3>1. CASE t.kind = "revoke_share"
      <4>1. revokeReplayable(s, t)
        BY <3>1 DEF replayable
      <4> QED
        BY <2>2, <3>1, <4>1 DEF revokeReplayable, shareOf, IsRevocation
    <3>2. CASE t.kind = "append_record"
      <4>1. recordReplayable(s, t)
        BY <3>2 DEF replayable
      <4> QED
        BY <4>1 DEF recordReplayable
    <3>3. CASE t.kind \notin {"revoke_share", "append_record"}
      BY <3>3 DEF replayable, IsReceipt
    <3> QED
      BY <3>1, <3>2, <3>3
  <2>4. ~IsReceipt(t) => UsesNonce(t, s.appliedTxs)
    <3>1. s.shares = Shares(s.appliedTxs)
      BY <1>1 DEF Holds
    <3>2. IsRevocation(t) => \E c \in s.appliedTxs : IsShare(c) /\ c.id = t.ref
      BY <2>2, <3>1 DEF Shares, Created, IsShare
    <3> QED
      BY <3>2 DEF UsesNonce
  <2>5. IsShare(t) => ~Revoked(s.appliedTxs, t.id)
    BY <2>3, ShareNotRevoked DEF IsShare, IsReceipt
  <2> QED
    BY <1>1, <2>1, <2>3, <2>4, <2>5, ExecutedInOrder
<1> QED
  BY <1>2, <1>3

\* The end of a block is a change of the queue.
LEMMA ConfirmedQueue ==
  ASSUME NEW s, IsBook(s), NEW t
  PROVE  confirmedTx(s, t)
           = Queued(s, s.pendingTxs \ {t}, s.appliedTxs \cup {t}, s.height + 1)
<1> DEFINE P == s.pendingTxs \ {t}
           A == s.appliedTxs \cup {t}
           h == s.height + 1
<1>1. s.height \in Nat /\ h \in Nat
  BY DEF IsBook
<1>2. confirmedTx(s, t) = [[[s EXCEPT !.pendingTxs = P] EXCEPT !.appliedTxs = A] EXCEPT !.height = h]
  BY DEF confirmedTx
<1> HIDE DEF P, A, h
<1>3. /\ [s EXCEPT !.pendingTxs = P] = Queued(s, P, s.appliedTxs, s.height)
      /\ [Queued(s, P, s.appliedTxs, s.height) EXCEPT !.appliedTxs = A] = Queued(s, P, A, s.height)
      /\ [Queued(s, P, A, s.height) EXCEPT !.height = h] = Queued(s, P, A, h)
  BY DEF IsBook, Queued
<1>4. confirmedTx(s, t) = Queued(s, P, A, h)
  BY <1>2, <1>3
<1> QED
  BY <1>4 DEF P, A, h

\* A block with t, as its node leaves it.
LEMMA ConfirmFields ==
  ASSUME ChainInv, NEW n \in Replica, NEW t, Formed(t), Confirm(n, t)
  PROVE  \E X :
           /\ book' = [book EXCEPT ![n] = X] /\ IsBook(X)
           /\ X.pendingTxs = book[n].pendingTxs \ {t}
           /\ X.appliedTxs = book[n].appliedTxs \cup {t} /\ X.height = book[n].height + 1
           /\ \E q : /\ X.nonces = q.nonces /\ X.envelopes = q.envelopes /\ X.shares = q.shares
                     /\ X.collections = q.collections /\ X.records = q.records
                     /\ X.receipts = q.receipts
                     /\ \/ t \in book[n].appliedTxs /\ q = book[n]
                        \/ /\ t \notin book[n].appliedTxs /\ replayable(book[n], t)
                           /\ q = replayed(book[n], t)
<1> DEFINE s == book[n]
           P == s.pendingTxs \ {t}
           A == s.appliedTxs \cup {t}
           h == s.height + 1
<1>1. IsBook(s) /\ s.height \in Nat /\ h \in Nat
  BY DEF ChainInv, NodeInv, IsBook
<1>2. Kept(effect(s, t), s, t)
  BY <1>1, EffectKeeps
<1>3. PICK q : /\ book' = [book EXCEPT ![n] = confirmedTx(q, t)]
               /\ q \in {s, effect(s, t)}
               /\ \/ t \in s.appliedTxs /\ q = s
                  \/ t \notin s.appliedTxs /\ replayable(s, t) /\ q = replayed(s, t)
  <2>1. CASE t \in s.appliedTxs
    BY <2>1 DEF Confirm
  <2>2. CASE t \notin s.appliedTxs
    <3>1. /\ replayable(s, t)
          /\ book' = [book EXCEPT ![n] = confirmedTx(replayed(book[n], t), t)]
      BY <2>2 DEF Confirm
    <3>2. replayed(s, t) \in {s, effect(s, t)}
      BY DEF replayed
    <3> QED
      BY <2>2, <3>1, <3>2
  <2> QED
    BY <2>1, <2>2
<1>4. /\ IsBook(q) /\ q.pendingTxs = s.pendingTxs /\ q.appliedTxs = s.appliedTxs
      /\ q.height = s.height
  BY <1>1, <1>2, <1>3 DEF Kept
<1>5. confirmedTx(q, t) = Queued(q, P, A, h)
  BY <1>4, ConfirmedQueue
<1> HIDE DEF P, A, h
<1>6. IsBook(Queued(q, P, A, h))
  BY <1>1, <1>4, QueuedIsBook
<1> DEFINE X == Queued(q, P, A, h)
<1>7. /\ X.pendingTxs = P /\ X.appliedTxs = A /\ X.height = h
      /\ X.nonces = q.nonces /\ X.envelopes = q.envelopes /\ X.shares = q.shares
      /\ X.collections = q.collections /\ X.records = q.records /\ X.receipts = q.receipts
  BY DEF Queued
<1>8. book' = [book EXCEPT ![n] = X] /\ IsBook(X)
  BY <1>3, <1>5, <1>6
<1> HIDE DEF X
<1> WITNESS X
<1>9. \E p : /\ X.nonces = p.nonces /\ X.envelopes = p.envelopes /\ X.shares = p.shares
             /\ X.collections = p.collections /\ X.records = p.records
             /\ X.receipts = p.receipts
             /\ \/ t \in book[n].appliedTxs /\ p = book[n]
                \/ /\ t \notin book[n].appliedTxs /\ replayable(book[n], t)
                   /\ p = replayed(book[n], t)
  BY <1>3, <1>7
<1> QED
  BY <1>7, <1>8, <1>9 DEF P, A, h

\* A node's next block keeps every node in order.
LEMMA ConfirmStep ==
  ASSUME RecordsInv, NEW n \in Replica, NEW t \in Made, Confirm(n, t),
         writes' = writes, skipped' = skipped,
         log' \in Seq(Made), Len(log') >= Len(log), \A i \in 1..Len(log) : log'[i] = log[i],
         book[n].height + 1 <= Len(log'), log'[book[n].height + 1] = t
  PROVE  /\ ChainInv' /\ Made' = Made /\ \A k \in 0..Len(log) : Blocks(k)' = Blocks(k)
         /\ ~skipped => (\A m \in Replica : NodeSync(m)') /\ RevocationsFollow'
<1> DEFINE s == book[n]
           h == s.height + 1
<1>1. /\ ChainInv /\ NodeInv(n) /\ log \in Seq(Made) /\ Len(log) \in Nat /\ writes \in 0..MaxWrites
      /\ skipped \in BOOLEAN /\ MaxWrites \in Nat
      /\ \A o \in Made : Formed(o) /\ o.id <= writes
      /\ \A o, p \in Made : o.id = p.id => o = p
      /\ s.height \in 0..Len(log) /\ s.appliedTxs \subseteq Made
  <2>1. ChainInv /\ s.appliedTxs \subseteq Made
    BY DEF RecordsInv, Made
  <2>2. s.height \in 0..Len(log)
    BY <2>1, ConfirmedBlocks
  <2> QED
    BY <2>1, <2>2, RecordsAssumption DEF ChainInv
<1>2. PICK X :
        /\ book' = [book EXCEPT ![n] = X] /\ IsBook(X)
        /\ X.pendingTxs = s.pendingTxs \ {t}
        /\ X.appliedTxs = s.appliedTxs \cup {t} /\ X.height = h
        /\ \E q : /\ X.nonces = q.nonces /\ X.envelopes = q.envelopes /\ X.shares = q.shares
                  /\ X.collections = q.collections /\ X.records = q.records
                  /\ X.receipts = q.receipts
                  /\ \/ t \in s.appliedTxs /\ q = s
                     \/ t \notin s.appliedTxs /\ replayable(s, t) /\ q = replayed(s, t)
  BY <1>1, ConfirmFields
<1>3. FirstBlocks(log', h) = Blocks(s.height) \cup {t}
  <2>1. ASSUME NEW i \in 1..s.height PROVE log'[i] = log[i]
    BY <1>1
  <2>2. 1..h = 1..s.height \cup {h} /\ log'[h] = t
    BY <1>1
  <2> HIDE DEF h
  <2> QED
    BY <2>1, <2>2 DEF FirstBlocks, Blocks
<1>4. Moves(n, X, {t})
  <2>1. \A o \in {t} : /\ Formed(o) /\ o.id <= writes'
                       /\ \A p \in Made \cup {t} : o.id = p.id => o = p
    BY <1>1
  <2>2. writes' \in 0..MaxWrites /\ writes' >= writes /\ skipped' \in BOOLEAN
    BY <1>1
  <2>3. log' \in Seq(Made \cup {t})
    <3>1. Made \cup {t} = Made
      OBVIOUS
    <3> QED
      BY <3>1
  <2>4. /\ X.height <= Len(log') /\ X.pendingTxs \subseteq Made \cup {t}
        /\ FirstBlocks(log', X.height) \subseteq X.appliedTxs
        /\ X.appliedTxs \subseteq FirstBlocks(log', X.height) \cup X.pendingTxs
        /\ X.pendingTxs \cap FirstBlocks(log', X.height) = {}
    <3>1. FirstBlocks(log', X.height) = Blocks(s.height) \cup {t}
      BY <1>2, <1>3
    <3> QED
      BY <1>1, <1>2, <3>1 DEF NodeInv
  <2> QED
    BY <1>2, <2>1, <2>2, <2>3, <2>4 DEF Moves
<1>5. /\ ChainInv' /\ Made' = Made \cup {t}
      /\ \A k \in 0..Len(log) : Blocks(k)' = Blocks(k)
      /\ book'[n] = X
      /\ \A m \in Replica \ {n} : NodeSync(m) => NodeSync(m)'
  BY <1>1, <1>4, NodeStep
<1>6. Made' = Made
  BY <1>5
<1>7. ASSUME ~skipped PROVE (\A m \in Replica : NodeSync(m)') /\ RevocationsFollow'
  <2>1. SyncInv /\ NodeSync(n)
    BY <1>7 DEF RecordsInv, SyncInv
  <2>2. Holds(X, X.appliedTxs) /\ NoncesUsed(X) /\ NoncesCovered(X)
    <3>1. CASE t \in s.appliedTxs
      <4>1. /\ X.nonces = s.nonces /\ X.envelopes = s.envelopes /\ X.shares = s.shares
            /\ X.collections = s.collections /\ X.records = s.records
            /\ X.receipts = s.receipts /\ X.appliedTxs = s.appliedTxs
        BY <1>2, <3>1
      <4>2. Holds(s, s.appliedTxs) /\ NoncesUsed(s) /\ NoncesCovered(s)
        BY <2>1 DEF NodeSync
      <4> HIDE DEF s
      <4> QED
        BY <4>1, <4>2 DEF Holds, NoncesUsed, NoncesCovered
    <3>2. CASE t \notin s.appliedTxs
      <4>1. /\ replayable(s, t)
            /\ LET q == replayed(s, t)
               IN  /\ X.nonces = q.nonces /\ X.envelopes = q.envelopes /\ X.shares = q.shares
                   /\ X.collections = q.collections /\ X.records = q.records
                   /\ X.receipts = q.receipts /\ X.appliedTxs = s.appliedTxs \cup {t}
        BY <1>2, <3>2
      <4> QED
        BY <1>1, <2>1, <3>2, <4>1, ConfirmedInOrder
    <3> QED
      BY <3>1, <3>2
  <2>3. NodeSync(n)'
    <3>1. Blocks(book[n].height)' = Blocks(s.height) \cup {t}
      <4>1. Blocks(book[n].height)' = FirstBlocks(log', book'[n].height)
        BY DEF Blocks, FirstBlocks
      <4> QED
        BY <1>2, <1>3, <1>5, <4>1
    <3>2. \A r \in X.appliedTxs \ (Blocks(s.height) \cup {t}) :
            ~IsReceipt(r) => UsesNonce(r, X.appliedTxs)
      BY <1>2, <2>1, StillUses DEF NodeSync
    <3>3. book'[n] = X
      BY <1>5
    <3> HIDE DEF s
    <3> QED
      BY <2>2, <3>1, <3>2, <3>3 DEF NodeSync, Holds, NoncesUsed, NoncesCovered
  <2>4. RevocationsFollow'
    BY <1>6, <2>1 DEF SyncInv, RevocationsFollow, IsRevocation, IsShare
  <2> QED
    BY <1>5, <2>1, <2>3, <2>4 DEF SyncInv
<1> QED
  BY <1>5, <1>6, <1>7

\* No earlier transaction of its sender is left behind by the one that comes first.
LEMMA FirstIsEarliest ==
  ASSUME NEW T, NEW t \in FirstOf(T), NEW o \in T, o.user = t.user, o.nonce < t.nonce
  PROVE  FALSE
  BY DEF FirstOf

\* A revocation enters the chain when the nonce of its share is used up in it.
LEMMA ShareGoesFirst ==
  ASSUME ChainInv, SyncInv, NEW n \in Replica, book[n].height = Len(log),
         NEW t \in Candidates(book[n]), IsRevocation(t), NEW c \in Made, IsShare(c), c.id = t.ref
  PROVE  \E d \in Blocks(Len(log)) :
           UsesNonce(d, Blocks(Len(log))) /\ d.user = c.user /\ d.nonce = c.nonce
<1> DEFINE s == book[n]
           L == Blocks(Len(log))
           ahead == s.pendingTxs \cap s.appliedTxs
           next == {o \in s.pendingTxs : replayable(s, o)
                      /\ (o.kind = "submit_retrieval_receipt" \/ o.nonce = s.nonces[o.user])}
<1>1. /\ L \subseteq s.appliedTxs /\ s.appliedTxs \subseteq L \cup s.pendingTxs
      /\ s.pendingTxs \cap L = {} /\ s.pendingTxs \subseteq Made /\ s.appliedTxs \subseteq Made
      /\ \A o \in Made : Formed(o) /\ \A p \in Made : o.id = p.id => o = p
      /\ NodeSync(n)
  BY DEF ChainInv, NodeInv, SyncInv, Made
<1>2. t \in FirstOf(IF ahead # {} THEN ahead ELSE next)
  BY DEF Candidates
<1>3. t \in s.pendingTxs
  BY <1>2 DEF FirstOf
<1>4. c.user = t.user /\ c.nonce < t.nonce /\ c.nonce \in Nat /\ c.user \in Writer
  <2>1. PICK e \in Made : e.id = t.ref /\ e.user = t.user /\ e.nonce < t.nonce
    BY <1>1, <1>3 DEF SyncInv, RevocationsFollow
  <2>2. e = c
    BY <1>1, <2>1
  <2> QED
    BY <1>1, <2>1, <2>2 DEF Formed, IsShare, IsReceipt
<1>5. ~IsRevocation(c) /\ ~IsReceipt(c) /\ ~IsReceipt(t)
  BY DEF IsShare, IsRevocation, IsReceipt
<1>6. CASE ahead # {}
  <2>1. t \in FirstOf(ahead) /\ t \in ahead
    BY <1>2, <1>6 DEF FirstOf
  <2>2. UsesNonce(t, s.appliedTxs)
    BY <1>1, <1>5, <2>1 DEF NodeSync
  <2>3. PICK e \in s.appliedTxs : e.id = t.ref
    BY <2>2 DEF UsesNonce
  <2>4. c \in s.appliedTxs
    BY <1>1, <2>3
  <2>5. c \notin ahead
    BY <1>4, <2>1, FirstIsEarliest
  <2>6. c \in L
    BY <1>1, <2>4, <2>5
  <2> QED
    BY <1>5, <2>6 DEF UsesNonce
<1>7. CASE ahead = {}
  <2>1. s.appliedTxs = L
    BY <1>1, <1>7
  <2>2. t.nonce = s.nonces[t.user]
    BY <1>2, <1>5, <1>7 DEF FirstOf, IsReceipt
  <2>3. c.nonce < s.nonces[c.user]
    BY <1>4, <2>2
  <2>4. PICK d \in s.appliedTxs : UsesNonce(d, s.appliedTxs) /\ d.user = c.user /\ d.nonce = c.nonce
    BY <1>1, <1>4, <2>3 DEF NodeSync, NoncesCovered
  <2> QED
    BY <2>1, <2>4
<1> QED
  BY <1>6, <1>7

LEMMA ProduceStep ==
  ASSUME RecordsInv, NEW n \in Replica, ProduceRecords(n)
  PROVE  RecordsInv'
<1>1. PICK t \in Candidates(book[n]) :
        /\ Confirm(n, t) /\ log' = Append(log, t) /\ writes' = writes /\ skipped' = skipped
        /\ book[n].height = Len(log)
  BY DEF ProduceRecords
<1>2. ChainInv /\ log \in Seq(Made) /\ Len(log) \in Nat /\ book[n].pendingTxs \subseteq Made
  BY DEF RecordsInv, ChainInv, NodeInv
<1>3. t \in Made
  BY <1>1, <1>2 DEF Candidates, FirstOf
<1>4. /\ log' \in Seq(Made) /\ Len(log') = Len(log) + 1
      /\ \A i \in 1..Len(log) : log'[i] = log[i]
      /\ log'[Len(log) + 1] = t
  BY <1>1, <1>2, <1>3
<1>5. /\ ChainInv' /\ Made' = Made /\ \A k \in 0..Len(log) : Blocks(k)' = Blocks(k)
      /\ ~skipped => (\A m \in Replica : NodeSync(m)') /\ RevocationsFollow'
  <2>1. Len(log') >= Len(log) /\ book[n].height + 1 <= Len(log') /\ log'[book[n].height + 1] = t
    BY <1>1, <1>2, <1>4
  <2> QED
    BY <1>1, <1>3, <1>4, <2>1, ConfirmStep
<1>6. ASSUME ~skipped PROVE ShareNonceGone'
  <2>1. SyncInv
    BY <1>6 DEF RecordsInv
  <2>2. ASSUME NEW p \in 1..Len(log'), IsRevocation(log'[p]), NEW c \in Made, IsShare(c),
               c.id = log'[p].ref
        PROVE  \E d \in Blocks(p - 1) :
                 UsesNonce(d, Blocks(p - 1)) /\ d.user = c.user /\ d.nonce = c.nonce
    <3>1. CASE p \in 1..Len(log)
      BY <1>4, <2>1, <2>2, <3>1 DEF SyncInv, ShareNonceGone
    <3>2. CASE p = Len(log) + 1
      <4>1. log'[p] = t /\ p - 1 = Len(log)
        BY <1>2, <1>4, <3>2
      <4>2. \E d \in Blocks(Len(log)) :
              UsesNonce(d, Blocks(Len(log))) /\ d.user = c.user /\ d.nonce = c.nonce
        BY <1>1, <1>2, <2>1, <2>2, <4>1, ShareGoesFirst
      <4> QED
        BY <4>1, <4>2
    <3> QED
      BY <1>2, <1>4, <3>1, <3>2
  <2>3. \A p \in 1..Len(log') : Blocks(p - 1)' = Blocks(p - 1)
    <3>1. ASSUME NEW p \in 1..Len(log') PROVE p - 1 \in 0..Len(log)
      BY <1>2, <1>4
    <3> QED
      BY <1>5, <3>1
  <2> QED
    BY <1>5, <2>2, <2>3 DEF ShareNonceGone
<1> QED
  BY <1>1, <1>5, <1>6 DEF RecordsInv, SyncInv

LEMMA AcceptStep ==
  ASSUME RecordsInv, NEW n \in Replica, AcceptRecords(n)
  PROVE  RecordsInv'
<1> DEFINE t == log[book[n].height + 1]
<1>1. /\ book[n].height < Len(log) /\ Confirm(n, t)
      /\ writes' = writes /\ log' = log /\ skipped' = skipped
  BY DEF AcceptRecords
<1>2. ChainInv /\ log \in Seq(Made) /\ Len(log) \in Nat /\ book[n].height \in Nat
  BY DEF RecordsInv, ChainInv, NodeInv, IsBook
<1>3. t \in Made
  BY <1>1, <1>2
<1> HIDE DEF t
<1>4. /\ ChainInv' /\ Made' = Made /\ \A k \in 0..Len(log) : Blocks(k)' = Blocks(k)
      /\ ~skipped => (\A m \in Replica : NodeSync(m)') /\ RevocationsFollow'
  <2>1. /\ log' \in Seq(Made) /\ Len(log') >= Len(log) /\ \A i \in 1..Len(log) : log'[i] = log[i]
        /\ book[n].height + 1 <= Len(log') /\ log'[book[n].height + 1] = t
    BY <1>1, <1>2 DEF t
  <2> QED
    BY <1>1, <1>3, <2>1, ConfirmStep
<1>5. ASSUME ~skipped PROVE ShareNonceGone'
  <2>1. \A k : Blocks(k)' = Blocks(k)
    BY <1>1 DEF Blocks
  <2> QED
    BY <1>1, <1>4, <1>5, <2>1 DEF RecordsInv, SyncInv, ShareNonceGone
<1> QED
  BY <1>1, <1>4, <1>5 DEF RecordsInv, SyncInv

-----------------------------------------------------------------------------
(***************************************************************************)
(* The requests                                                            *)
(***************************************************************************)
\* A request as its node signs it.
IsRequest(t, n, kind, u, ref) ==
  /\ DOMAIN t = Fields
  /\ t.kind = kind /\ t.id = writes + 1 /\ t.user = u /\ t.nonce = book[n].nonces[u]
  /\ t.ref = ref

LEMMA SignedFields ==
  ASSUME NEW n, NEW kind, NEW u
  PROVE  IsRequest(Signed(n, kind, u), n, kind, u, NoRecord)
<1> DEFINE i == writes + 1
           v == book[n].nonces[u]
           t == [Blank EXCEPT !.kind = kind, !.id = i, !.user = u, !.nonce = v]
<1>1. Signed(n, kind, u) = t
  BY DEF Signed
<1> HIDE DEF i, v
<1>2. /\ DOMAIN t = Fields
      /\ t.kind = kind /\ t.id = i /\ t.user = u /\ t.nonce = v /\ t.ref = NoRecord
  BY DEF Blank, Fields
<1> HIDE DEF t
<1> QED
  BY <1>1, <1>2 DEF IsRequest, i, v

\* The file and what it refers to are filled in.
LEMMA RequestFields ==
  ASSUME NEW t, NEW n, NEW kind, NEW u, NEW ref, IsRequest(t, n, kind, u, ref), NEW x, NEW f, NEW p
  PROVE  /\ IsRequest([t EXCEPT !.file = f], n, kind, u, ref)
         /\ IsRequest([t EXCEPT !.ref = x], n, kind, u, x)
         /\ IsRequest([t EXCEPT !.ref = x, !.file = f, !.parent = p], n, kind, u, x)
<1>1. IsRequest([t EXCEPT !.file = f], n, kind, u, ref)
  BY DEF IsRequest, Fields
<1>2. IsRequest([t EXCEPT !.ref = x], n, kind, u, x)
  BY DEF IsRequest, Fields
<1>3. IsRequest([t EXCEPT !.ref = x, !.file = f, !.parent = p], n, kind, u, x)
  BY DEF IsRequest, Fields
<1> QED
  BY <1>1, <1>2, <1>3

\* A request of a user, executed.
LEMMA WritingStep ==
  ASSUME RecordsInv, NEW n \in Replica, NEW u \in Writer, NEW t, NEW ref,
         NEW kind, IsRequest(t, n, kind, u, ref),
         kind \in Kinds \ {"submit_retrieval_receipt"},
         kind = "create_key_envelope" => ref = NoRecord,
         kind = "revoke_share" => \E x \in book[n].shares : x.id = ref /\ x.user = u,
         Execute(n, t)
  PROVE  RecordsInv'
<1>1. /\ writes \in Nat /\ book[n].nonces[u] \in Nat
      /\ book[n].shares \subseteq [id : Nat, user : Writer, revoked : BOOLEAN]
  BY DEF RecordsInv, ChainInv, NodeInv, IsBook
<1>2. Formed(t)
  BY <1>1 DEF Formed, IsReceipt, IsRevocation, IsRequest, Fields
<1> QED
  BY <1>2, ExecuteStep DEF IsReceipt, IsRevocation, IsRequest

LEMMA CreateKeyEnvelopeStep ==
  ASSUME RecordsInv, NEW n \in Replica, NEW u \in Writer, NEW f, CreateKeyEnvelope(n, u, f)
  PROVE  RecordsInv'
<1> DEFINE t == [Signed(n, "create_key_envelope", u) EXCEPT !.file = f]
<1>1. IsRequest(t, n, "create_key_envelope", u, NoRecord)
  BY SignedFields, RequestFields
<1>2. Execute(n, t)
  BY DEF CreateKeyEnvelope
<1> HIDE DEF t
<1> QED
  BY <1>1, <1>2, WritingStep DEF Kinds

LEMMA CreateShareStep ==
  ASSUME RecordsInv, NEW n \in Replica, NEW u \in Writer, NEW f, CreateShare(n, u, f)
  PROVE  RecordsInv'
<1> DEFINE t == [Signed(n, "create_share", u) EXCEPT !.file = f]
<1>1. IsRequest(t, n, "create_share", u, NoRecord)
  BY SignedFields, RequestFields
<1>2. Execute(n, t)
  BY DEF CreateShare
<1> HIDE DEF t
<1> QED
  BY <1>1, <1>2, WritingStep DEF Kinds

LEMMA RevokeShareStep ==
  ASSUME RecordsInv, NEW n \in Replica, NEW u \in Writer, NEW share, RevokeShare(n, u, share)
  PROVE  RecordsInv'
<1> DEFINE t == [Signed(n, "revoke_share", u) EXCEPT !.ref = share.id]
<1>1. IsRequest(t, n, "revoke_share", u, share.id)
  BY SignedFields, RequestFields
<1>2. Execute(n, t) /\ \E x \in book[n].shares : x.id = share.id /\ x.user = u
  BY DEF RevokeShare
<1> HIDE DEF t
<1> QED
  BY <1>1, <1>2, WritingStep DEF Kinds

LEMMA CreateCollectionStep ==
  ASSUME RecordsInv, NEW n \in Replica, NEW u \in Writer, CreateCollection(n, u)
  PROVE  RecordsInv'
<1> DEFINE t == Signed(n, "create_collection", u)
<1>1. IsRequest(t, n, "create_collection", u, NoRecord)
  BY SignedFields
<1>2. Execute(n, t)
  BY DEF CreateCollection
<1> HIDE DEF t
<1> QED
  BY <1>1, <1>2, WritingStep DEF Kinds

LEMMA AppendRecordStep ==
  ASSUME RecordsInv, NEW n \in Replica, NEW u \in Writer, NEW c, NEW f, NEW p,
         AppendRecord(n, u, c, f, p)
  PROVE  RecordsInv'
<1> DEFINE t == [Signed(n, "append_record", u) EXCEPT !.ref = c.id, !.file = f, !.parent = p]
<1>1. IsRequest(t, n, "append_record", u, c.id)
  BY SignedFields, RequestFields
<1>2. CASE recordFits(book[n], t)
  <2>1. Execute(n, t)
    BY <1>2 DEF AppendRecord
  <2> HIDE DEF t
  <2> QED
    BY <1>1, <2>1, WritingStep DEF Kinds
<1>3. CASE ~recordFits(book[n], t)
  <2>1. /\ writes < MaxWrites /\ writes' = writes + 1 /\ log' = log /\ skipped' = TRUE
        /\ book' = [book EXCEPT ![n] = withNonce(book[n], u)]
    BY <1>3 DEF AppendRecord
  <2> HIDE DEF t
  <2>2. IsBook(book[n])
    BY DEF RecordsInv, ChainInv, NodeInv
  <2>3. /\ IsBook(withNonce(book[n], u))
        /\ withNonce(book[n], u).pendingTxs = book[n].pendingTxs
        /\ withNonce(book[n], u).appliedTxs = book[n].appliedTxs
        /\ withNonce(book[n], u).height = book[n].height
    BY <2>2 DEF withNonce, IsBook
  <2> QED
    BY <2>1, <2>3, SkippedStep
<1> QED
  BY <1>2, <1>3

LEMMA SubmitRetrievalReceiptStep ==
  ASSUME RecordsInv, NEW n \in Replica, NEW r \in Receipt, SubmitRetrievalReceipt(n, r)
  PROVE  RecordsInv'
<1> DEFINE i == writes + 1
           known == r \in book[n].receipts
           t == [Blank EXCEPT !.kind = "submit_retrieval_receipt", !.id = i, !.user = r.miner,
                              !.ref = r, !.seen = known]
<1>1. Execute(n, t)
  BY DEF SubmitRetrievalReceipt
<1>2. writes \in Nat /\ i \in Nat
  BY DEF RecordsInv, ChainInv
<1> HIDE DEF i, known
<1>3. /\ DOMAIN t = Fields
      /\ t.kind = "submit_retrieval_receipt" /\ t.id = i /\ t.nonce = 0 /\ t.ref = r
  BY DEF Blank, Fields
<1> HIDE DEF t
<1>4. Formed(t) /\ IsReceipt(t) /\ ~IsRevocation(t)
  BY <1>2, <1>3 DEF Formed, IsReceipt, IsRevocation, Kinds, Fields
<1> QED
  BY <1>1, <1>3, <1>4, ExecuteStep DEF i

-----------------------------------------------------------------------------
(***************************************************************************)
(* The theorem                                                             *)
(***************************************************************************)
LEMMA RecordsStart == RecordsInit => RecordsInv
<1> SUFFICES ASSUME RecordsInit PROVE RecordsInv
  OBVIOUS
<1>1. ASSUME NEW n \in Replica
      PROVE  /\ book[n] = [nonces |-> [u \in Writer |-> 0], envelopes |-> {}, shares |-> {},
                           collections |-> {}, records |-> {}, receipts |-> {},
                           success |-> [m \in Miners |-> 0],
                           pendingTxs |-> {}, appliedTxs |-> {}, height |-> 0]
  BY DEF RecordsInit, Miners
<1>2. Made = {}
  BY <1>1 DEF Made
<1>3. Blocks(0) = {}
  BY DEF Blocks
<1>4. Counts({}) = [m \in Miners |-> 0]
  <2>1. ASSUME NEW m \in Miners PROVE Cardinality({r \in {} : r.miner = m}) = 0
    <3>1. {r \in {} : r.miner = m} = {}
      OBVIOUS
    <3> QED
      BY <3>1, FS_EmptySet
  <2> QED
    BY <2>1 DEF Counts
<1>5. ASSUME NEW n \in Replica
      PROVE  NodeInv(n) /\ NodeSync(n)
  <2>1. IsBook(book[n])
    <3> DEFINE s == book[n]
               zero == [u \in Writer |-> 0]
               none == [m \in Miners |-> 0]
    <3>1. zero \in [Writer -> Nat]
      OBVIOUS
    <3> HIDE DEF zero, none
    <3>2. s = [nonces |-> zero, envelopes |-> {}, shares |-> {}, collections |-> {},
               records |-> {}, receipts |-> {}, success |-> none,
               pendingTxs |-> {}, appliedTxs |-> {}, height |-> 0]
      BY <1>1 DEF zero, none
    <3> HIDE DEF s
    <3>3. s.nonces = zero /\ s.success = none /\ s.receipts = {} /\ s.shares = {} /\ s.height = 0
      BY <3>2
    <3>4. Counts({}) = none
      BY <1>4 DEF none
    <3>5. s = [nonces |-> s.nonces, envelopes |-> s.envelopes, shares |-> s.shares,
          collections |-> s.collections, records |-> s.records, receipts |-> s.receipts,
          success |-> s.success, pendingTxs |-> s.pendingTxs, appliedTxs |-> s.appliedTxs,
          height |-> s.height]
      BY <3>2
    <3>6. IsBook(s)
      BY <3>1, <3>3, <3>4, <3>5 DEF IsBook
    <3> QED
      BY <3>6 DEF s
  <2>2. log = <<>> /\ Len(log) = 0
    BY DEF RecordsInit
  <2>3. NodeInv(n)
    BY <1>1, <1>3, <2>1, <2>2 DEF NodeInv
  <2>4. Holds(book[n], {})
    BY <1>1 DEF Holds, Envelopes, Shares, Collections, DataRecords, Receipts, Created
  <2>5. NoncesUsed(book[n]) /\ NoncesCovered(book[n])
    BY <1>1 DEF NoncesUsed, NoncesCovered
  <2> QED
    BY <1>1, <2>3, <2>4, <2>5 DEF NodeSync
<1>6. ChainInv
  <2>1. /\ writes \in 0..MaxWrites /\ skipped \in BOOLEAN /\ log \in Seq(Made)
        /\ book = [n \in Replica |-> book[n]]
    <3>1. writes \in 0..MaxWrites /\ skipped \in BOOLEAN /\ log \in Seq(Made)
      <4>1. writes = 0 /\ log = <<>> /\ skipped = FALSE
        BY DEF RecordsInit
      <4>2. writes \in 0..MaxWrites
        BY <4>1, RecordsAssumption
      <4>3. log \in Seq(Made)
        BY <4>1
      <4> QED
        BY <4>1, <4>2, <4>3
    <3>2. book = [n \in Replica |-> book[n]]
      BY DEF RecordsInit
    <3> QED
      BY <3>1, <3>2
  <2> QED
    BY <1>2, <1>5, <2>1 DEF ChainInv
<1>7. RevocationsFollow /\ ShareNonceGone
  BY <1>2 DEF RecordsInit, RevocationsFollow, ShareNonceGone
<1> QED
  BY <1>5, <1>6, <1>7 DEF RecordsInv, SyncInv

LEMMA RecordsStep == RecordsInv /\ [RecordsNext]_recordsVars => RecordsInv'
<1> SUFFICES ASSUME RecordsInv, [RecordsNext]_recordsVars PROVE RecordsInv'
  OBVIOUS
<1>1. CASE RecordsNext
  <2>1. PICK n \in Replica :
          \/ \E u \in Writer :
               \/ \E f \in File : CreateKeyEnvelope(n, u, f) \/ CreateShare(n, u, f)
               \/ \E share \in book[n].shares : RevokeShare(n, u, share)
               \/ CreateCollection(n, u)
               \/ \E c \in book[n].collections, f \in File :
                    \E p \in {NoRecord} \cup {r.id : r \in book[n].records} :
                      AppendRecord(n, u, c, f, p)
          \/ \E r \in Receipt : SubmitRetrievalReceipt(n, r)
          \/ \E m \in Replica \ {n} : Gossip(n, m)
          \/ ProduceRecords(n)
          \/ AcceptRecords(n)
    BY <1>1 DEF RecordsNext
  <2>2. ASSUME NEW u \in Writer, NEW f \in File, CreateKeyEnvelope(n, u, f) PROVE RecordsInv'
    BY <2>2, CreateKeyEnvelopeStep
  <2>3. ASSUME NEW u \in Writer, NEW f \in File, CreateShare(n, u, f) PROVE RecordsInv'
    BY <2>3, CreateShareStep
  <2>4. ASSUME NEW u \in Writer, NEW share \in book[n].shares, RevokeShare(n, u, share)
        PROVE  RecordsInv'
    BY <2>4, RevokeShareStep
  <2>5. ASSUME NEW u \in Writer, CreateCollection(n, u) PROVE RecordsInv'
    BY <2>5, CreateCollectionStep
  <2>6. ASSUME NEW u \in Writer, NEW c, NEW f, NEW p, AppendRecord(n, u, c, f, p)
        PROVE  RecordsInv'
    BY <2>6, AppendRecordStep
  <2>7. ASSUME NEW r \in Receipt, SubmitRetrievalReceipt(n, r) PROVE RecordsInv'
    BY <2>7, SubmitRetrievalReceiptStep
  <2>8. ASSUME NEW m \in Replica \ {n}, Gossip(n, m) PROVE RecordsInv'
    BY <2>8, GossipStep
  <2>9. CASE ProduceRecords(n)
    BY <2>9, ProduceStep
  <2>10. CASE AcceptRecords(n)
    BY <2>10, AcceptStep
  <2> QED
    BY <2>1, <2>2, <2>3, <2>4, <2>5, <2>6, <2>7, <2>8, <2>9, <2>10
<1>2. CASE UNCHANGED recordsVars
  <2>1. writes' = writes /\ log' = log /\ book' = book /\ skipped' = skipped
    BY <1>2 DEF recordsVars
  <2>2. Made' = Made /\ \A k : Blocks(k)' = Blocks(k)
    BY <2>1 DEF Made, Blocks
  <2>3. \A n \in Replica : /\ Blocks(book[n].height)' = Blocks(book[n].height)
                           /\ NodeInv(n) => NodeInv(n)' /\ (NodeSync(n) => NodeSync(n)')
    <3>1. \A n \in Replica : Blocks(book[n].height)' = Blocks(book[n].height)
      BY <2>1 DEF Blocks
    <3> QED
      BY <2>1, <2>2, <3>1 DEF NodeInv, NodeSync
  <2>4. ChainInv'
    BY <2>1, <2>2, <2>3 DEF RecordsInv, ChainInv
  <2>5. ~skipped => SyncInv'
    BY <2>1, <2>2, <2>3 DEF RecordsInv, ChainInv, SyncInv, RevocationsFollow, ShareNonceGone
  <2> QED
    BY <2>1, <2>4, <2>5 DEF RecordsInv
<1> QED
  BY <1>1, <1>2

\* What the runs check follows.
LEMMA RecordsFollow == RecordsInv => RecordsReplicate
<1> SUFFICES ASSUME RecordsInv PROVE RecordsReplicate
  OBVIOUS
<1>1. ChainInv /\ \A n \in Replica : NodeInv(n) /\ IsBook(book[n])
  BY DEF RecordsInv, ChainInv, NodeInv
<1>2. RecordsTypeOK
  <2>1. ASSUME NEW n \in Replica
        PROVE  /\ book[n].height \in 0..Len(log)
               /\ book[n].pendingTxs \cap Confirmed(n) = {}
    BY <1>1, ConfirmedBlocks DEF NodeInv
  <2> QED
    BY <1>1, <2>1 DEF RecordsTypeOK, ChainInv
<1>3. RevokedKeysHidden
  <2>1. SUFFICES ASSUME ~skipped, NEW n \in Replica, NEW t \in book[n].appliedTxs,
                        t.kind = "revoke_share"
                 PROVE  /\ \A x \in shareOf(book[n], t.ref) : x.revoked
                        /\ \A e \in book[n].envelopes : e.share = t.ref => e.revoked
    BY DEF RevokedKeysHidden
  <2>2. Holds(book[n], book[n].appliedTxs)
    BY <2>1 DEF RecordsInv, SyncInv, NodeSync
  <2>3. Revoked(book[n].appliedTxs, t.ref) = TRUE
    BY <2>1 DEF Revoked, IsRevocation
  <2>4. ASSUME NEW x \in book[n].shares, x.id = t.ref PROVE x.revoked
    BY <2>2, <2>3, <2>4 DEF Holds, Shares
  <2>5. ASSUME NEW e \in book[n].envelopes, e.share = t.ref PROVE e.revoked
    BY <2>2, <2>3, <2>5 DEF Holds, Envelopes
  <2> QED
    BY <2>4, <2>5 DEF shareOf
<1>4. RecordsAgree
  <2>1. SUFFICES ASSUME ~skipped, NEW n \in Replica, NEW m \in Replica,
                        book[n].height = book[m].height,
                        \A k \in {n, m} : book[k].appliedTxs \subseteq Confirmed(k)
                 PROVE  Written(n) = Written(m)
    BY DEF RecordsAgree
  <2>2. book[n].appliedTxs = book[m].appliedTxs
    <3>1. ASSUME NEW k \in {n, m} PROVE book[k].appliedTxs = Blocks(book[k].height)
      <4>1. Blocks(book[k].height) \subseteq book[k].appliedTxs
        BY <1>1 DEF NodeInv
      <4>2. Confirmed(k) = Blocks(book[k].height)
        BY <1>1, ConfirmedBlocks
      <4> QED
        BY <2>1, <4>1, <4>2
    <3>2. Blocks(book[n].height) = Blocks(book[m].height)
      BY <2>1
    <3> QED
      BY <3>1, <3>2
  <2>3. Holds(book[n], book[n].appliedTxs) /\ Holds(book[m], book[m].appliedTxs)
    BY <2>1 DEF RecordsInv, SyncInv, NodeSync
  <2>4. book[n].success = Counts(book[n].receipts) /\ book[m].success = Counts(book[m].receipts)
    BY <1>1 DEF IsBook
  <2> QED
    BY <2>2, <2>3, <2>4 DEF Holds, Written
<1>5. RetrievalCountedOnce
  BY <1>1 DEF RetrievalCountedOnce, IsBook, Counts
<1> QED
  BY <1>2, <1>3, <1>4, <1>5 DEF RecordsReplicate

\* On any number of nodes, with any number of clients and files: what is written down on
\* one node arrives on the others as it was meant, once, the same, and hidden again when
\* it was revoked - while no node has used up a nonce for something it cannot send.
\* (recordTxLocked, sortPendingTxs, applyRevokeShareLocked, submitRetrievalReceiptLocked.)
THEOREM WritingsReplicate == RecordsSpec => []RecordsReplicate
  BY RecordsStart, RecordsStep, RecordsFollow, PTL DEF RecordsSpec
=============================================================================
