------------------------------- MODULE Bridge -------------------------------
(***************************************************************************)
(* The bridge to another chain: users lock tokens in a pool, a relayer     *)
(* pays them out for burns on the other side, both under a daily limit,    *)
(* and governance operators pause and configure it.                        *)
(*                                                                         *)
(* Source: internal/chain/bridge.go, internal/wire/types.go.               *)
(*                                                                         *)
(* Data abstraction.  A message's hash is the message.  Signatures hold;   *)
(* the signer is who sends.  A day has Day units of time.                  *)
(***************************************************************************)
EXTENDS Accounts

CONSTANTS
  Pool,             \* BridgePoolAddress
  Relayer,          \* who may be made relayer
  SourceTx,         \* burns on the other chain
  BridgeAmount,     \* amounts requests name
  BridgeFee,
  DailyMaximum,     \* limits governance may set
  Day,              \* 86400 seconds
  ConfigSkew,       \* bridgeConfigTimestampSkew
  MaxConfigs        \* bound: messages of governance

ASSUME BridgeAssumption ==
  /\ Pool \in Account \ Client
  /\ BridgeAmount \subseteq Nat \ {0} /\ BridgeFee \in Nat
  /\ DailyMaximum \subseteq Nat \ {0} /\ DailyMaximum # {} /\ IsFiniteSet(DailyMaximum)
  /\ IsFiniteSet(SourceTx)
  /\ Day \in Nat \ {0} /\ ConfigSkew \in Nat
  /\ MaxConfigs \in Nat

VARIABLES
  bridgeConfig,     \* nil until governance sets it
  outbounds,        \* BridgeOutbounds in the order of their nonces
  inbounds,         \* BridgeInbounds by SourceTxHash
  consumed,         \* BridgeConsumedMessages
  moved             \* history: the amount that crossed at each time

bridgeVars == <<bridgeConfig, outbounds, inbounds, consumed, moved>>

-----------------------------------------------------------------------------
BridgeConfig ==
  [Paused : BOOLEAN, RelayerAddress : Relayer \cup {None}, MinBridgeAmount : Nat,
   MaxAmountPerDay : Nat, DelaySeconds : Nat, DayStartUnix : Nat, CurrentDayAmount : Nat]

BridgeOutbound ==
  [Sender : Account, Amount : Nat, Fee : Nat, LockedAtUnix : Nat, ClaimableAfter : Nat]

\* An inbound is stored when it is paid, so its status is always "claimed".
BridgeInbound == [Recipient : Account, Amount : Nat]

ASSUME BridgeNone == None \notin BridgeConfig /\ None \notin BridgeInbound

BridgeInClaimRequest ==
  [SourceTxHash : SourceTx, Recipient : Client, Amount : BridgeAmount, Nonce : {0, 1}]

BridgeSetConfigRequest ==
  [Action : {"pause", "unpause"}, Timestamp : 0..MaxTime] \cup
  [Action : {"update_config"}, MaxAmountPerDay : DailyMaximum, Timestamp : 0..MaxTime]

BridgeTypeOK ==
  /\ bridgeConfig \in BridgeConfig \cup {None}
  /\ outbounds \in Seq(BridgeOutbound)
  /\ inbounds \in [SourceTx -> BridgeInbound \cup {None}]
  /\ consumed \subseteq BridgeInClaimRequest \cup BridgeSetConfigRequest
  /\ moved \in [0..MaxTime -> Nat]

BridgeInit ==
  /\ bridgeConfig = None
  /\ outbounds = <<>>
  /\ inbounds = [x \in SourceTx |-> None]
  /\ consumed = {}
  /\ moved = [t \in 0..MaxTime |-> 0]

-----------------------------------------------------------------------------
BridgeOpen == bridgeConfig # None /\ ~bridgeConfig.Paused

\* A new window starts once a day has passed.
rolledWindow(c) ==
  IF now - c.DayStartUnix >= Day
  THEN [c EXCEPT !.DayStartUnix = now, !.CurrentDayAmount = 0]
  ELSE c

withinDay(c, x) ==
  /\ x >= c.MinBridgeAmount
  /\ c.CurrentDayAmount < c.MaxAmountPerDay
  /\ x <= c.MaxAmountPerDay - c.CurrentDayAmount

\* BridgeOut: amount and fee go to the pool.
BridgeOut(a) ==
  /\ BridgeOpen
  /\ \E x \in BridgeAmount :
       LET c == rolledWindow(bridgeConfig)
       IN  /\ withinDay(c, x)
           /\ balance[a] >= x + BridgeFee
           /\ consumeAccountNonce(a)
           /\ balance' = [balance EXCEPT ![a] = @ - (x + BridgeFee),
                                         ![Pool] = @ + x + BridgeFee]
           /\ outbounds' = Append(outbounds,
                [Sender |-> a, Amount |-> x, Fee |-> BridgeFee, LockedAtUnix |-> now,
                 ClaimableAfter |-> now + c.DelaySeconds])
           /\ bridgeConfig' = [c EXCEPT !.CurrentDayAmount = @ + x]
           /\ moved' = [moved EXCEPT ![now] = @ + x]
  /\ UNCHANGED <<inbounds, consumed, now, lockedStorage>>

\* A request that is refused after the window was rolled leaves the new window.
BridgeRefused ==
  /\ BridgeOpen
  /\ rolledWindow(bridgeConfig) # bridgeConfig
  /\ bridgeConfig' = rolledWindow(bridgeConfig)
  /\ UNCHANGED <<balance, lockedStorage, nonce, now, outbounds, inbounds, consumed, moved>>

\* Mutated: the message is known, but not the burn it names.
BridgeClaim_noStatus(req) ==
  LET c == rolledWindow(bridgeConfig)
  IN  /\ BridgeOpen
      /\ c.RelayerAddress # None
      /\ req \notin consumed
      /\ withinDay(c, req.Amount)
      /\ balance[Pool] >= req.Amount
      /\ balance' = [balance EXCEPT ![Pool] = @ - req.Amount,
                                    ![req.Recipient] = @ + req.Amount]
      /\ inbounds' = [inbounds EXCEPT ![req.SourceTxHash] =
                        [Recipient |-> req.Recipient, Amount |-> req.Amount]]
      /\ consumed' = consumed \cup {req}
      /\ bridgeConfig' = [c EXCEPT !.CurrentDayAmount = @ + req.Amount]
      /\ moved' = [moved EXCEPT ![now] = @ + req.Amount]
      /\ UNCHANGED <<lockedStorage, nonce, now, outbounds>>

\* Mutated: what is paid out does not count towards the day.
BridgeClaim_uncounted(req) ==
  LET c == rolledWindow(bridgeConfig)
  IN  /\ BridgeOpen
      /\ c.RelayerAddress # None
      /\ req \notin consumed
      /\ withinDay(c, req.Amount)
      /\ inbounds[req.SourceTxHash] = None
      /\ balance[Pool] >= req.Amount
      /\ balance' = [balance EXCEPT ![Pool] = @ - req.Amount,
                                    ![req.Recipient] = @ + req.Amount]
      /\ inbounds' = [inbounds EXCEPT ![req.SourceTxHash] =
                        [Recipient |-> req.Recipient, Amount |-> req.Amount]]
      /\ consumed' = consumed \cup {req}
      /\ bridgeConfig' = c
      /\ moved' = [moved EXCEPT ![now] = @ + req.Amount]
      /\ UNCHANGED <<lockedStorage, nonce, now, outbounds>>

\* BridgeClaim by the configured relayer.  The burn is registered by its first claim
\* and is claimed from then on, whatever a later claim says of it.
BridgeClaim(req) ==
  LET c == rolledWindow(bridgeConfig)
  IN  /\ BridgeOpen
      /\ c.RelayerAddress # None
      /\ req \notin consumed
      /\ withinDay(c, req.Amount)
      /\ inbounds[req.SourceTxHash] = None
      /\ balance[Pool] >= req.Amount
      /\ balance' = [balance EXCEPT ![Pool] = @ - req.Amount,
                                    ![req.Recipient] = @ + req.Amount]
      /\ inbounds' = [inbounds EXCEPT ![req.SourceTxHash] =
                        [Recipient |-> req.Recipient, Amount |-> req.Amount]]
      /\ consumed' = consumed \cup {req}
      /\ bridgeConfig' = [c EXCEPT !.CurrentDayAmount = @ + req.Amount]
      /\ moved' = [moved EXCEPT ![now] = @ + req.Amount]
      /\ UNCHANGED <<lockedStorage, nonce, now, outbounds>>

\* The configuration an update starts from.
proposedConfig ==
  IF bridgeConfig # None THEN bridgeConfig
  ELSE [Paused |-> FALSE, RelayerAddress |-> None, MinBridgeAmount |-> 0,
        MaxAmountPerDay |-> Max(DailyMaximum), DelaySeconds |-> Day,
        DayStartUnix |-> now, CurrentDayAmount |-> 0]

\* BridgeAdminSetConfig: each message once, and only while its timestamp is fresh.
BridgeSetConfig(req, r) ==
  /\ req \notin consumed
  /\ Cardinality(consumed \cap BridgeSetConfigRequest) < MaxConfigs
  /\ now - req.Timestamp \in -ConfigSkew..ConfigSkew
  /\ \/ /\ req.Action \in {"pause", "unpause"}
        /\ bridgeConfig # None
        /\ bridgeConfig' = [bridgeConfig EXCEPT !.Paused = (req.Action = "pause")]
     \/ /\ req.Action = "update_config"
        /\ req.MaxAmountPerDay >= proposedConfig.MinBridgeAmount
        /\ bridgeConfig' = [proposedConfig EXCEPT !.RelayerAddress = r,
                                                  !.MaxAmountPerDay = req.MaxAmountPerDay]
  /\ consumed' = consumed \cup {req}
  /\ UNCHANGED <<balance, lockedStorage, nonce, now, outbounds, inbounds, moved>>

BridgeNext ==
  \/ \E a \in Client : BridgeOut(a)
  \/ BridgeRefused
  \/ \E req \in BridgeInClaimRequest : BridgeClaim(req)
  \/ \E req \in BridgeSetConfigRequest, r \in Relayer : BridgeSetConfig(req, r)
  \/ NextBlock /\ UNCHANGED bridgeVars

-----------------------------------------------------------------------------
PaidOut == [x \in SourceTx |-> IF inbounds[x] = None THEN 0 ELSE inbounds[x].Amount]

TakenIn == [i \in DOMAIN outbounds |-> outbounds[i].Amount + outbounds[i].Fee]

\* The pool holds at least what was locked with its fees, less one payment per burn:
\* no burn is paid twice, whatever recipient, amount or nonce its claims name
\* (BridgeConsumedMessages and BridgeInbounds together).
BridgePoolBacked ==
  /\ BridgeTypeOK
  /\ balance[Pool] + SumFunctionOnSet(PaidOut, SourceTx)
       >= SumFunctionOnSet(TakenIn, DOMAIN outbounds)

\* Whatever day the windows start on, and however they are rolled by refused requests
\* or changed by governance, no interval of a day sees more than two limits cross.
BridgeDayLimit ==
  \A t \in 0..MaxTime :
    SumFunctionOnSet(moved, {u \in 0..MaxTime : u >= t /\ u < t + Day})
      <= 2 * Max(DailyMaximum)
=============================================================================
