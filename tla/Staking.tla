------------------------------- MODULE Staking -------------------------------
(***************************************************************************)
(* The stake ledger of one node: validators, delegations, unbonding and    *)
(* the slashing of double votes, driven by requests to this node and by    *)
(* the blocks of the chain.                                                *)
(*                                                                         *)
(* Source: internal/chain/{validator_delegation,validator_evidence,state,  *)
(* tx_replay,block}.go.                                                    *)
(*                                                                         *)
(* Data abstraction.  An address is both an account and a possible         *)
(* operator key.  Signatures are right, chain ids match, and a request     *)
(* carries its account's nonce, so it is refused only by what is modelled. *)
(* The clock counts in units of which UnbondingPeriodSeconds takes a few.  *)
(***************************************************************************)
EXTENDS Integers, FiniteSets, FiniteSetsExt

CONSTANTS
  Address,                 \* the accounts, owners and operators among them
  None,                    \* no address
  Owner,                   \* the accounts that ever ask to be validators
  Delegator,               \* the accounts that ever delegate
  GenesisBalance,          \* GenesisBalance[a]
  MinValidatorStake,
  MinDelegationAmount,
  UnbondingPeriodSeconds,
  StakeAmount,             \* the amounts requests are made for
  Evidence,                \* names of double votes
  Local,                   \* the owner whose node this is, or None
  MaxNonce,                \* bound: requests of one account
  MaxTime                  \* bound: the clock

ASSUME StakingAssumption ==
  /\ IsFiniteSet(Address) /\ None \notin Address
  /\ Owner \subseteq Address /\ Delegator \subseteq Address
  /\ Local \in Owner \cup {None}
  /\ GenesisBalance \in [Address -> Nat]
  /\ StakeAmount \subseteq Nat \ {0}
  /\ MinValidatorStake \in Nat \ {0}
  /\ MinDelegationAmount \in Nat \ {0}
  /\ UnbondingPeriodSeconds \in Nat \ {0}
  /\ MaxNonce \in Nat /\ MaxTime \in Nat

VARIABLES
  st,           \* the State of the node
  doubleVotes,  \* pairs of conflicting block votes somebody has signed
  now           \* the clock

vars == <<st, doubleVotes, now>>

-----------------------------------------------------------------------------
Status == {"none", "active", "exiting", "exited", "slashed"}

ValidatorInfo ==
  [Status : Status, OperatorAddress : Address \cup {None},
   Stake : Nat, SelfStake : Nat, DelegatedStake : Nat, DelegatorCount : Nat]

\* The ID of an entry is every field but the amount; only delegations number
\* theirs.  The last two kinds are those of miners, see module Mining.
EntryKind == {"delegation", "self", "miner", "capacity_adjust"}

UnbondingEntry ==
  [delegator : Address, validator : Address, kind : EntryKind,
   at : Nat, seq : Nat, amount : Nat]

DoubleVote == [id : Evidence, operator : Address, power : Nat]

State ==
  [Balance : [Address -> Nat], LockedStake : [Address -> Nat],
   UnbondingBalance : [Address -> Nat], Nonce : [Address -> Nat],
   Validators : [Address -> ValidatorInfo],
   ConsensusValidators : SUBSET Address,
   OperatorMap : [Address -> Address \cup {None}],
   StakeDelegations : [Address \X Address -> Nat],   \* 0: no delegation
   UnbondingEntries : SUBSET UnbondingEntry,
   ValidatorEvidence : SUBSET Evidence,
   PermanentFund : Nat]

NoValidator ==
  [Status |-> "none", OperatorAddress |-> None,
   Stake |-> 0, SelfStake |-> 0, DelegatedStake |-> 0, DelegatorCount |-> 0]

Zero == [a \in Address |-> 0]

Init ==
  /\ st = [Balance |-> GenesisBalance, LockedStake |-> Zero,
           UnbondingBalance |-> Zero, Nonce |-> Zero,
           Validators |-> [a \in Address |-> NoValidator],
           ConsensusValidators |-> {},
           OperatorMap |-> [a \in Address |-> None],
           StakeDelegations |-> [p \in Address \X Address |-> 0],
           UnbondingEntries |-> {}, ValidatorEvidence |-> {}, PermanentFund |-> 0]
  /\ doubleVotes = {}
  /\ now = 0

-----------------------------------------------------------------------------
(***************************************************************************)
(* Helpers                                                                 *)
(***************************************************************************)
\* validatorPower: a slash lowers Stake, not SelfStake.
validatorPower(v) ==
  LET self  == IF v.SelfStake = 0 THEN v.Stake ELSE v.SelfStake
      total == self + v.DelegatedStake
  IN  IF total > 0 THEN total ELSE 1

resolveOperatorToOwner(s, operator) ==
  IF s.OperatorMap[operator] # None THEN s.OperatorMap[operator] ELSE operator

consensusValidators(s) ==
  {v \in s.ConsensusValidators : s.Validators[v].Status = "active"}

\* Writing an entry under an ID replaces the entry that has it.
PutEntry(entries, e) ==
  {f \in entries : [f EXCEPT !.amount = e.amount] # e} \cup {e}

AmountOf(entries) == SumFunctionOnSet([e \in entries |-> e.amount], entries)

Minus(x, y) == IF x >= y THEN x - y ELSE 0

-----------------------------------------------------------------------------
(***************************************************************************)
(* Requests: when each is accepted, and what it does.                      *)
(***************************************************************************)
\* Registration writes the account copy it read before the nonce was used up, so
\* the nonce stays.
registered(s, owner, operator, stake) ==
  LET more == Minus(stake, s.Validators[owner].Stake)
  IN  [s EXCEPT
        !.Balance[owner] = @ - more,
        !.LockedStake[owner] = @ + more,
        !.Validators[owner] = [@ EXCEPT !.Status = "active",
                                        !.OperatorAddress = operator,
                                        !.Stake = stake, !.SelfStake = stake],
        !.ConsensusValidators = @ \cup {owner},
        !.OperatorMap[operator] = owner]

\* RegisterValidator asks for a free operator key and a new owner.
canRegister(s, owner, operator, stake) ==
  /\ s.OperatorMap[operator] = None
  /\ s.Validators[owner].Status = "none"
  /\ stake >= MinValidatorStake
  /\ s.Balance[owner] >= stake

\* applyValidatorRegistrationLocked asks for neither.
canReplayRegister(s, owner, operator, stake) ==
  /\ s.Validators[owner].Status \in {"none", "active"}
  /\ stake >= MinValidatorStake
  /\ s.Balance[owner] >= Minus(stake, s.Validators[owner].Stake)

canDelegate(s, d, v, amount) ==
  /\ amount >= MinDelegationAmount
  /\ s.Validators[v].Status = "active"
  /\ s.Balance[d] >= amount

delegated(s, d, v, amount) ==
  [s EXCEPT
     !.Nonce[d] = @ + 1,
     !.Balance[d] = @ - amount,
     !.StakeDelegations[<<d, v>>] = @ + amount,
     !.Validators[v] =
        [s.Validators[v] EXCEPT
           !.DelegatedStake = @ + amount,
           !.DelegatorCount =
              IF s.StakeDelegations[<<d, v>>] = 0 THEN @ + 1 ELSE @]]

canUndelegate(s, d, v, amount) == s.StakeDelegations[<<d, v>>] >= amount

\* Mutated: the delegation is paid out and not taken from the validator.
undelegated_keepsPower(s, d, v, amount) ==
  [s EXCEPT
     !.Nonce[d] = @ + 1,
     !.StakeDelegations[<<d, v>>] = @ - amount,
     !.UnbondingBalance[d] = @ + amount,
     !.UnbondingEntries =
        PutEntry(@, [delegator |-> d, validator |-> v, kind |-> "delegation",
                     at |-> now, seq |-> Cardinality(@), amount |-> amount])]

\* Whatever the validator's status; the entry is numbered with their count.
undelegated(s, d, v, amount) ==
  [s EXCEPT
     !.Nonce[d] = @ + 1,
     !.StakeDelegations[<<d, v>>] = @ - amount,
     !.UnbondingBalance[d] = @ + amount,
     !.UnbondingEntries =
        PutEntry(@, [delegator |-> d, validator |-> v, kind |-> "delegation",
                     at |-> now, seq |-> Cardinality(@), amount |-> amount]),
     !.Validators[v] =
        [s.Validators[v] EXCEPT
           !.DelegatedStake = Minus(@, amount),
           !.DelegatorCount =
              IF s.StakeDelegations[<<d, v>>] = amount THEN Minus(@, 1) ELSE @]]

validatorDoubleVoteSlash(locked) == IF locked <= 1 THEN locked ELSE locked \div 2

\* The votes name the validator by its present operator key and power.
canSlash(s, e) ==
  LET v == resolveOperatorToOwner(s, e.operator)
  IN  /\ e.id \notin s.ValidatorEvidence
      /\ s.Validators[v].Status = "active"
      /\ s.Validators[v].OperatorAddress = e.operator
      /\ validatorPower(s.Validators[v]) = e.power

\* applyValidatorEvidenceLocked: the owner's locked stake and, in proportion, the
\* delegations, which also lowers the UnbondingBalance of a delegator who has one,
\* but none of the entries.
slashed(s, e) ==
  LET v       == resolveOperatorToOwner(s, e.operator)
      locked  == s.LockedStake[v]
      slash   == validatorDoubleVoteSlash(locked)
      share(d) == IF s.Validators[v].DelegatedStake = 0 \/ locked = 0 THEN 0
                  ELSE (s.StakeDelegations[<<d, v>>] * slash) \div locked
      shares  == SumFunctionOnSet([d \in Address |-> share(d)], Address)
      left    == locked - slash
  IN  [s EXCEPT
         !.LockedStake[v] = left,
         !.PermanentFund = @ + slash + shares,
         !.StakeDelegations =
            [p \in Address \X Address |-> IF p[2] = v THEN @[p] - share(p[1]) ELSE @[p]],
         !.UnbondingBalance =
            [d \in Address |-> IF @[d] >= share(d) THEN @[d] - share(d) ELSE @[d]],
         !.Validators[v] = [s.Validators[v] EXCEPT
                              !.DelegatedStake = Minus(@, shares),
                              !.Stake = left,
                              !.Status = IF left = 0 THEN "slashed" ELSE @],
         !.ConsensusValidators = IF left = 0 THEN @ \ {v} ELSE @,
         !.ValidatorEvidence = @ \cup {e.id}]

-----------------------------------------------------------------------------
(***************************************************************************)
(* Block housekeeping                                                      *)
(***************************************************************************)

\* finalizeExitingValidatorsLocked: what an owner gets back, on its way out.
selfRelease(s, v) ==
  IF s.Validators[v].Status # "exiting" THEN 0
  ELSE Min({s.Validators[v].SelfStake, s.LockedStake[v]})

finalizeExitingValidators(s) ==
  LET release(v) == selfRelease(s, v)
      entries == {[delegator |-> v, validator |-> v, kind |-> "self", at |-> now,
                   seq |-> 0, amount |-> release(v)] :
                  v \in {u \in Address : release(u) > 0}}
  IN  [s EXCEPT
         !.Validators = [v \in Address |->
            CASE @[v].Status = "slashed" -> [@[v] EXCEPT !.Status = "exiting"]
              [] @[v].Status = "exiting" -> [@[v] EXCEPT !.Status = "exited", !.SelfStake = 0]
              [] OTHER -> @[v]],
         !.LockedStake = [v \in Address |-> @[v] - release(v)],
         !.UnbondingBalance = [v \in Address |-> @[v] + release(v)],
         !.UnbondingEntries = @ \cup entries]

Matured(s) == {e \in s.UnbondingEntries : now >= e.at + UnbondingPeriodSeconds}

\* Mutated: what has matured is paid again with every block.
processMaturedUnbondingEntries_keepsEntry(s) ==
  LET paid(a) == AmountOf({e \in Matured(s) : e.delegator = a})
  IN  [s EXCEPT
         !.Balance = [a \in Address |-> @[a] + paid(a)],
         !.UnbondingBalance = [a \in Address |-> Minus(@[a], paid(a))]]

\* processMaturedUnbondingEntriesLocked: paid in full, even when UnbondingBalance
\* is less by then.
processMaturedUnbondingEntries(s) ==
  LET paid(a) == AmountOf({e \in Matured(s) : e.delegator = a})
  IN  [s EXCEPT
         !.Balance = [a \in Address |-> @[a] + paid(a)],
         !.UnbondingBalance = [a \in Address |-> Minus(@[a], paid(a))],
         !.UnbondingEntries = @ \ Matured(s)]

runBlockHousekeeping(s) == processMaturedUnbondingEntries(finalizeExitingValidators(s))

\* The states one block can leave behind: no transaction, or one of them.
Replayed(s) ==
  {s}
  \cup {registered(s, r[1], r[2], r[3]) : r \in
          {t \in Owner \X Address \X StakeAmount : canReplayRegister(s, t[1], t[2], t[3])}}
  \cup {delegated(s, r[1], r[2], r[3]) : r \in
          {t \in Delegator \X Owner \X StakeAmount :
             s.Nonce[t[1]] < MaxNonce /\ canDelegate(s, t[1], t[2], t[3])}}
  \cup {undelegated(s, r[1], r[2], r[3]) : r \in
          {t \in Delegator \X Owner \X StakeAmount :
             s.Nonce[t[1]] < MaxNonce /\ canUndelegate(s, t[1], t[2], t[3])}}
  \cup {slashed(s, e) : e \in {f \in doubleVotes : canSlash(s, f)}}

-----------------------------------------------------------------------------
(***************************************************************************)
(* Steps: requests this node executes at once, and blocks.                 *)
(***************************************************************************)
RegisterValidator(a) ==
  \E k \in Address, x \in StakeAmount :
    /\ canRegister(st, a, k, x)
    /\ st' = registered(st, a, k, x)
    /\ UNCHANGED <<doubleVotes, now>>

DelegateStake(a) ==
  \E v \in Owner, x \in StakeAmount :
    /\ st.Nonce[a] < MaxNonce
    /\ canDelegate(st, a, v, x)
    /\ st' = delegated(st, a, v, x)
    /\ UNCHANGED <<doubleVotes, now>>

UndelegateStake(a) ==
  \E v \in Owner, x \in StakeAmount :
    /\ st.Nonce[a] < MaxNonce
    /\ canUndelegate(st, a, v, x)
    /\ st' = undelegated(st, a, v, x)
    /\ UNCHANGED <<doubleVotes, now>>

\* DeregisterValidator, also of a validator that is exiting or slashed already.
DeregisterValidator(a) ==
  /\ st.Nonce[a] < MaxNonce
  /\ st.Validators[a].Status \in {"active", "exiting", "slashed"}
  /\ st' = [st EXCEPT
       !.Nonce[a] = @ + 1,
       !.Validators[a].Status = "exiting",
       !.ConsensusValidators = @ \ {a},
       !.OperatorMap[st.Validators[a].OperatorAddress] = None]
  /\ UNCHANGED <<doubleVotes, now>>

\* RotateOperator, whatever the validator's status.
RotateOperator(a) ==
  \E k \in Address :
    /\ st.Nonce[a] < MaxNonce
    /\ st.Validators[a].Status # "none"
    /\ st.OperatorMap[k] \in {None, a}
    /\ st' = [st EXCEPT
         !.Nonce[a] = @ + 1,
         !.OperatorMap = [[@ EXCEPT ![st.Validators[a].OperatorAddress] = None]
                            EXCEPT ![k] = a],
         !.Validators[a].OperatorAddress = k]
    /\ UNCHANGED <<doubleVotes, now>>

\* A validator's key signs two blocks of one height, with its power of the moment.
SignTwice(a) ==
  \E e \in Evidence :
    /\ \A f \in doubleVotes : f.id # e
    /\ st.Validators[a].Status = "active"
    /\ doubleVotes' = doubleVotes \cup
         {[id |-> e, operator |-> st.Validators[a].OperatorAddress,
           power |-> validatorPower(st.Validators[a])]}
    /\ UNCHANGED <<st, now>>

SubmitValidatorEvidence ==
  \E e \in doubleVotes :
    /\ canSlash(st, e)
    /\ st' = slashed(st, e)
    /\ UNCHANGED <<doubleVotes, now>>

\* AcceptBlock: housekeeping, the block's transactions, and the producer is active.
AcceptBlock(p) ==
  /\ p \in consensusValidators(st)
  /\ resolveOperatorToOwner(st, st.Validators[p].OperatorAddress) = p
  /\ p # Local
  /\ \E s \in Replayed(runBlockHousekeeping(st)) :
       st' = [s EXCEPT !.Validators[p].Status = "active"]
  /\ UNCHANGED <<doubleVotes, now>>

\* AcceptBlock of a newcomer's block, which carries its own registration: its
\* operator key is its owner's, as no other is mapped yet.
AcceptFirstBlock(p) ==
  LET s == runBlockHousekeeping(st)
  IN  /\ p # Local
      /\ p \notin st.ConsensusValidators
      /\ resolveOperatorToOwner(st, p) = p
      /\ \E x \in StakeAmount :
           /\ canReplayRegister(s, p, p, x)
           /\ st' = registered(s, p, p, x)
      /\ UNCHANGED <<doubleVotes, now>>

\* produceBlockLocked: the same, but the producer's own record is in the end the
\* one read at the beginning, with one more produced block.
ProduceBlock ==
  /\ Local \in consensusValidators(st)
  /\ \E s \in Replayed(runBlockHousekeeping(st)) :
       st' = [s EXCEPT !.Validators[Local] = st.Validators[Local]]
  /\ UNCHANGED <<doubleVotes, now>>

Tick ==
  /\ now < MaxTime
  /\ now' = now + 1
  /\ UNCHANGED <<st, doubleVotes>>

OwnerStep(a) ==
  \/ RegisterValidator(a)
  \/ DeregisterValidator(a)
  \/ RotateOperator(a)
  \/ SignTwice(a)
  \/ AcceptBlock(a)
  \/ AcceptFirstBlock(a)

Next ==
  \/ \E a \in Owner : OwnerStep(a)
  \/ \E a \in Delegator : DelegateStake(a) \/ UndelegateStake(a)
  \/ SubmitValidatorEvidence
  \/ ProduceBlock
  \/ Tick

Spec == Init /\ [][Next]_vars

-----------------------------------------------------------------------------
(***************************************************************************)
(* Properties                                                              *)
(***************************************************************************)
\* Every variable has its type: in particular no unsigned amount goes below zero.
TypeOK ==
  /\ st \in State
  /\ doubleVotes \in SUBSET DoubleVote
  /\ now \in Nat

Total(f) == SumFunctionOnSet(f, DOMAIN f)

\* What the account is owed by its entries.
Owed(a) == AmountOf({e \in st.UnbondingEntries : e.delegator = a})

\* Staking, unbonding and slashing never make tokens: no amount is below zero, and
\* accounts, delegations, entries and the fund together hold no more than genesis gave
\* out.
NoMinting ==
  /\ TypeOK
  /\ Total(st.Balance) + Total(st.LockedStake) + Total(st.StakeDelegations)
       + Total([a \in Address |-> Owed(a)]) + st.PermanentFund
       <= Total(GenesisBalance)

\* The delegated stake that counts as voting power is what delegators have put in
\* and not taken out, through slashes, exits and re-registrations.  (Of itself a
\* producer keeps a stale record, see ProduceBlock: nothing is said of Local.)
DelegatedStakeMatches ==
  \A v \in Address \ {Local} :
    st.Validators[v].DelegatedStake
      = Total([d \in Address |-> st.StakeDelegations[<<d, v>>]])

\* Whoever may be elected is active and has stake of its own at risk, again but for
\* the producer's record of itself.
ElectableHasStake ==
  \A v \in st.ConsensusValidators \ {Local} :
    st.Validators[v].Status = "active" /\ st.LockedStake[v] > 0

\* The power that elects and votes is backed by stake: that of delegators by their
\* delegations, that of the owner by stake it has at risk.
VotingPowerBacked == DelegatedStakeMatches /\ ElectableHasStake
=============================================================================
