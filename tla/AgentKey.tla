------------------------------ MODULE AgentKey ------------------------------
(***************************************************************************)
(* Agent keys: credentials with which an agent spends from its master's    *)
(* account, within a daily and a total limit, until they expire or are     *)
(* revoked.                                                                *)
(*                                                                         *)
(* Source: internal/chain/{agent_key,agent_request_auth,state}.go.         *)
(*                                                                         *)
(* Data abstraction.  A key's ID is random.  Of the operations an agent    *)
(* may be allowed, one spends (create_intent) and one does not (finalize). *)
(* A limit of 0 is none.  A day has Day units of time.                     *)
(***************************************************************************)
EXTENDS Accounts

CONSTANTS
  KeyID,            \* random names of keys
  AgentPub,         \* the agents' public keys
  Limit,            \* limits masters set
  Spend,            \* what an agent's requests lock
  AgentDay,         \* a UTC day
  MaxKeysPerAccount \* maxAgentKeysPerAccount

ASSUME AgentKeyAssumption ==
  /\ Limit \subseteq Nat /\ Spend \subseteq Nat
  /\ AgentDay \in Nat \ {0} /\ MaxKeysPerAccount \in Nat

VARIABLES
  agentKeys,        \* AgentKeys
  spent             \* history: what each key has spent at each time

agentVars == <<agentKeys, spent>>

-----------------------------------------------------------------------------
Operation == {"create_intent", "finalize"}

AgentKeyRecord ==
  [Master : Client, AgentPub : AgentPub, Nonce : Nat, Permissions : SUBSET Operation,
   DailyLimit : Nat, TotalLimit : Nat, UsedToday : Nat, UsedTotal : Nat,
   DayResetAt : Nat, ExpiresAt : Nat, Revoked : BOOLEAN]

ASSUME AgentNone == None \notin AgentKeyRecord

AgentTypeOK ==
  /\ agentKeys \in [KeyID -> AgentKeyRecord \cup {None}]
  /\ spent \in [KeyID -> [0..MaxTime -> Nat]]

AgentInit ==
  /\ agentKeys = [k \in KeyID |-> None]
  /\ spent = [k \in KeyID |-> [t \in 0..MaxTime |-> 0]]

startOfNextDayAt(t) == (t \div AgentDay + 1) * AgentDay

KeysOf(a) == {k \in KeyID : agentKeys[k] # None /\ agentKeys[k].Master = a}

\* No permissions stand for all of them.
normalizeAgentPermissions(P) == IF P = {} THEN Operation ELSE P

newAgentKey(a, pub, P, daily, total, expires) ==
  [Master |-> a, AgentPub |-> pub, Nonce |-> 0,
   Permissions |-> normalizeAgentPermissions(P), DailyLimit |-> daily,
   TotalLimit |-> total, UsedToday |-> 0, UsedTotal |-> 0,
   DayResetAt |-> startOfNextDayAt(now), ExpiresAt |-> expires, Revoked |-> FALSE]

-----------------------------------------------------------------------------
(***************************************************************************)
(* The master's requests                                                   *)
(***************************************************************************)
RegisterAgentKey(a) ==
  \E k \in KeyID, pub \in AgentPub, P \in SUBSET Operation, daily, total \in Limit,
     expires \in 0..MaxTime :
    /\ agentKeys[k] = None
    /\ expires > 0 => expires > now
    /\ \A j \in KeysOf(a) : agentKeys[j].AgentPub # pub
    /\ Cardinality(KeysOf(a)) < MaxKeysPerAccount
    /\ consumeAccountNonce(a)
    /\ agentKeys' = [agentKeys EXCEPT ![k] = newAgentKey(a, pub, P, daily, total, expires)]
    /\ UNCHANGED <<balance, lockedStorage, now, spent>>

\* applyRegisterAgentKeyLocked draws the ID again and refuses the block unless chance
\* gives the ID of the payload; neither the limit on keys nor the agent's public key
\* is checked.
applyRegisterAgentKey(a) ==
  \E k, drawn \in KeyID, pub \in AgentPub, P \in SUBSET Operation, daily, total \in Limit,
     expires \in 0..MaxTime :
    /\ drawn = k
    /\ agentKeys[k] = None
    /\ consumeAccountNonce(a)
    /\ agentKeys' = [agentKeys EXCEPT ![k] = newAgentKey(a, pub, P, daily, total, expires)]
    /\ UNCHANGED <<balance, lockedStorage, now, spent>>

\* RevokeAgentKey; its replay differs only for a key that is revoked, which it skips.
RevokeAgentKey(k) ==
  /\ agentKeys[k] # None /\ ~agentKeys[k].Revoked
  /\ consumeAccountNonce(agentKeys[k].Master)
  /\ agentKeys' = [agentKeys EXCEPT ![k].Revoked = TRUE]
  /\ UNCHANGED <<balance, lockedStorage, now, spent>>

ExtendAgentKey(k) ==
  \E expires \in now + 1 .. MaxTime :
    /\ agentKeys[k] # None /\ ~agentKeys[k].Revoked
    /\ consumeAccountNonce(agentKeys[k].Master)
    /\ agentKeys' = [agentKeys EXCEPT ![k].ExpiresAt = expires]
    /\ UNCHANGED <<balance, lockedStorage, now, spent>>

\* In a block: a request that does not extend is skipped, with its nonce.
applyExtendAgentKey(k) ==
  \E expires \in 0..MaxTime :
    /\ agentKeys[k] # None /\ ~agentKeys[k].Revoked
    /\ agentKeys[k].ExpiresAt < expires
    /\ consumeAccountNonce(agentKeys[k].Master)
    /\ agentKeys' = [agentKeys EXCEPT ![k].ExpiresAt = expires]
    /\ UNCHANGED <<balance, lockedStorage, now, spent>>

TopupAgentKey(k) ==
  \E total \in Limit :
    /\ agentKeys[k] # None /\ ~agentKeys[k].Revoked
    /\ total >= agentKeys[k].UsedTotal
    /\ consumeAccountNonce(agentKeys[k].Master)
    /\ agentKeys' = [agentKeys EXCEPT ![k].TotalLimit = total]
    /\ UNCHANGED <<balance, lockedStorage, now, spent>>

\* In a block: a request that does not raise the limit is skipped, with its nonce.
applyTopupAgentKey(k) ==
  \E total \in Limit :
    /\ agentKeys[k] # None /\ ~agentKeys[k].Revoked
    /\ total >= agentKeys[k].UsedTotal
    /\ agentKeys[k].TotalLimit < total
    /\ consumeAccountNonce(agentKeys[k].Master)
    /\ agentKeys' = [agentKeys EXCEPT ![k].TotalLimit = total]
    /\ UNCHANGED <<balance, lockedStorage, now, spent>>

-----------------------------------------------------------------------------
(***************************************************************************)
(* The agent's requests                                                    *)
(***************************************************************************)
agentLimitExceeded(used, x, limit) == limit # 0 /\ (used > limit \/ x > limit - used)

rolloverAgentKeyDay(key) ==
  IF now > key.DayResetAt
  THEN [key EXCEPT !.UsedToday = 0, !.DayResetAt = startOfNextDayAt(now)]
  ELSE key

verifyAgentRequest(key, op, x) ==
  /\ ~key.Revoked
  /\ key.ExpiresAt > 0 => now <= key.ExpiresAt
  /\ op \in key.Permissions
  /\ ~agentLimitExceeded(rolloverAgentKeyDay(key).UsedToday, x, key.DailyLimit)
  /\ ~agentLimitExceeded(key.UsedTotal, x, key.TotalLimit)

\* Mutated: every request starts the day anew.
applyAgentKeyUsage_lastOnly(key, x) ==
  [rolloverAgentKeyDay(key) EXCEPT !.Nonce = @ + 1, !.UsedToday = x, !.UsedTotal = @ + x]

applyAgentKeyUsage(key, x) ==
  [rolloverAgentKeyDay(key) EXCEPT !.Nonce = @ + 1, !.UsedToday = @ + x,
                                   !.UsedTotal = @ + x]

\* A request signed by the agent with the key's nonce, at a client's request or in a
\* block: what it locks leaves the master's balance.
AgentRequest(k, op) ==
  \E x \in IF op = "create_intent" THEN Spend ELSE {0} :
    /\ agentKeys[k] # None
    /\ agentKeys[k].Nonce < MaxNonce
    /\ verifyAgentRequest(agentKeys[k], op, x)
    /\ balance[agentKeys[k].Master] >= x
    /\ balance' = [balance EXCEPT ![agentKeys[k].Master] = @ - x]
    /\ lockedStorage' = [lockedStorage EXCEPT ![agentKeys[k].Master] = @ + x]
    /\ agentKeys' = [agentKeys EXCEPT ![k] = applyAgentKeyUsage(@, x)]
    /\ spent' = [spent EXCEPT ![k][now] = @ + x]
    /\ UNCHANGED <<nonce, now>>

\* Before a block takes a transaction of an agent, the key's day is rolled over in
\* place, whether or not the transaction is then refused.
validateAgentKeyTx(k) ==
  /\ agentKeys[k] # None /\ ~agentKeys[k].Revoked
  /\ agentKeys[k].ExpiresAt > 0 => now <= agentKeys[k].ExpiresAt
  /\ rolloverAgentKeyDay(agentKeys[k]) # agentKeys[k]
  /\ agentKeys' = [agentKeys EXCEPT ![k] = rolloverAgentKeyDay(@)]
  /\ UNCHANGED <<balance, lockedStorage, nonce, now, spent>>

AgentNext ==
  \/ \E a \in Client : RegisterAgentKey(a) \/ applyRegisterAgentKey(a)
  \/ \E k \in KeyID :
       \/ RevokeAgentKey(k)
       \/ ExtendAgentKey(k) \/ applyExtendAgentKey(k)
       \/ TopupAgentKey(k) \/ applyTopupAgentKey(k)
       \/ \E op \in Operation : AgentRequest(k, op)
       \/ validateAgentKeyTx(k)
  \/ NextBlock /\ UNCHANGED agentVars

-----------------------------------------------------------------------------
\* A key never spends more than its total limit, through any raising and lowering of
\* it, on requests and in blocks: the record's count is what was really spent.
AgentTotalLimit ==
  \A k \in KeyID : agentKeys[k] # None =>
    LET used == SumFunctionOnSet(spent[k], 0..MaxTime)
    IN  /\ agentKeys[k].UsedTotal = used
        /\ agentKeys[k].TotalLimit > 0 => used <= agentKeys[k].TotalLimit

\* Between two midnights (the second included: the day is reset after it) a key never
\* spends more than its daily limit.
AgentDayLimit ==
  \A k \in KeyID : agentKeys[k] # None /\ agentKeys[k].DailyLimit > 0 =>
    \A midnight \in {t \in 0..MaxTime + AgentDay : t % AgentDay = 0} :
      SumFunctionOnSet(spent[k], {t \in 0..MaxTime : t > midnight - AgentDay /\ t <= midnight})
        <= agentKeys[k].DailyLimit

\* What a master allows a key is what the key can spend, in all and in a day, however
\* often it is raised, lowered, extended or revoked between.
AgentLimits == AgentTypeOK /\ AgentTotalLimit /\ AgentDayLimit
=============================================================================
