---------------------------- MODULE StakingProofs ----------------------------
(***************************************************************************)
(* The stake ledger for any accounts, stakes and double votes: it makes no *)
(* token, and voting power is backed by delegations and by stake at risk.  *)
(* Storage miners lock stake and bonuses beside it: that makes no token    *)
(* either, and the bonuses stay within their cap.                          *)
(*                                                                         *)
(* Requests and blocks are built from functions on the State of a node, so *)
(* each function is shown to keep a State well formed and backed and its   *)
(* worth no larger; a step is one of them or a few in turn.                *)
(***************************************************************************)
EXTENDS Mining, Lemmas

-----------------------------------------------------------------------------
(***************************************************************************)
(* Totals over the accounts                                                *)
(***************************************************************************)
Amounts == [Address -> Nat]

Pair == Address \X Address

\* There are finitely many accounts, and pairs of them.
LEMMA FiniteAddress == IsFiniteSet(Address) /\ IsFiniteSet(Pair)
<1>1. IsFiniteSet(Address)
  BY StakingAssumption
<1> QED
  BY <1>1, FS_Product DEF Pair

\* A total of amounts is one, and no less than any of them.
LEMMA TotalNat ==
  ASSUME NEW f \in Amounts
  PROVE  Total(f) \in Nat /\ \A a \in Address : f[a] <= Total(f)
<1>1. DOMAIN f = Address /\ \A a \in Address : f[a] \in Nat
  BY DEF Amounts
<1> QED
  BY <1>1, FiniteAddress, SumNat DEF Total

\* One amount changes.
LEMMA TotalUpdate ==
  ASSUME NEW f \in Amounts, NEW g \in Amounts, NEW x \in Address,
         \A a \in Address \ {x} : g[a] = f[a]
  PROVE  Total(g) = Total(f) + (g[x] - f[x])
<1>1. DOMAIN f = Address /\ DOMAIN g = Address
  BY DEF Amounts
<1>2. \A a \in Address : f[a] \in Int /\ g[a] \in Int
  BY DEF Amounts
<1>3. SumFunctionOnSet(g, Address) = SumFunctionOnSet(f, Address) + (g[x] - f[x])
  BY <1>2, FiniteAddress, SumUpdate
<1> QED
  BY <1>1, <1>3 DEF Total

\* No amount grows.
LEMMA TotalLess ==
  ASSUME NEW f \in Amounts, NEW g \in Amounts, \A a \in Address : g[a] <= f[a]
  PROVE  Total(g) <= Total(f)
<1>1. DOMAIN f = Address /\ DOMAIN g = Address
  BY DEF Amounts
<1>2. \A a \in Address : f[a] \in Int /\ g[a] \in Int
  BY DEF Amounts
<1>3. SumFunctionOnSet(g, Address) <= SumFunctionOnSet(f, Address)
  BY <1>2, FiniteAddress, SumMonotone
<1> QED
  BY <1>1, <1>3 DEF Total

\* What is taken from every account is taken from the total.
LEMMA TotalAdd ==
  ASSUME NEW f \in Amounts, NEW g \in Amounts, NEW h \in Amounts,
         \A a \in Address : h[a] = f[a] + g[a]
  PROVE  Total(h) = Total(f) + Total(g)
<1>1. DOMAIN f = Address /\ DOMAIN g = Address /\ DOMAIN h = Address
  BY DEF Amounts
<1>2. \A a \in Address : f[a] \in Int /\ g[a] \in Int /\ h[a] = f[a] + g[a]
  BY DEF Amounts
<1>3. SumFunctionOnSet(h, Address) = SumFunctionOnSet(f, Address) + SumFunctionOnSet(g, Address)
  BY <1>2, FiniteAddress, SumAdd
<1> QED
  BY <1>1, <1>3 DEF Total

\* The same of delegations, which are kept for pairs.
LEMMA DelegationsNat == ASSUME NEW f \in [Pair -> Nat] PROVE Total(f) \in Nat
<1>1. DOMAIN f = Pair /\ \A p \in Pair : f[p] \in Nat
  OBVIOUS
<1> QED
  BY <1>1, FiniteAddress, SumNat DEF Total

\* One delegation changes.
LEMMA DelegationsUpdate ==
  ASSUME NEW f \in [Pair -> Nat], NEW g \in [Pair -> Nat], NEW x \in Pair,
         \A p \in Pair \ {x} : g[p] = f[p]
  PROVE  Total(g) = Total(f) + (g[x] - f[x])
<1>1. DOMAIN f = Pair /\ DOMAIN g = Pair /\ \A p \in Pair : f[p] \in Int /\ g[p] \in Int
  OBVIOUS
<1>2. SumFunctionOnSet(g, Pair) = SumFunctionOnSet(f, Pair) + (g[x] - f[x])
  BY <1>1, FiniteAddress, SumUpdate
<1> QED
  BY <1>1, <1>2 DEF Total

\* What is taken from every delegation is taken from their total.
LEMMA DelegationsAdd ==
  ASSUME NEW f \in [Pair -> Nat], NEW g \in [Pair -> Nat], NEW h \in [Pair -> Nat],
         \A p \in Pair : h[p] = f[p] + g[p]
  PROVE  Total(h) = Total(f) + Total(g)
<1>1. DOMAIN f = Pair /\ DOMAIN g = Pair /\ DOMAIN h = Pair
  OBVIOUS
<1>2. \A p \in Pair : f[p] \in Int /\ g[p] \in Int /\ h[p] = f[p] + g[p]
  OBVIOUS
<1>3. SumFunctionOnSet(h, Pair) = SumFunctionOnSet(f, Pair) + SumFunctionOnSet(g, Pair)
  BY <1>2, FiniteAddress, SumAdd
<1> QED
  BY <1>1, <1>3 DEF Total

\* What the delegators of v have, as a function on pairs.
Column(f, v) == [p \in Pair |-> IF p[2] = v THEN f[p[1]] ELSE 0]

\* It adds up to the same.
LEMMA ColumnTotal ==
  ASSUME NEW f \in Amounts, NEW v \in Address
  PROVE  Column(f, v) \in [Pair -> Nat] /\ Total(Column(f, v)) = Total(f)
<1> DEFINE h == Column(f, v)
           T == {S \in SUBSET Address :
                   SumFunctionOnSet(h, S \X {v}) = SumFunctionOnSet(f, S)}
<1>1. h \in [Pair -> Nat] /\ \A d \in Address : h[<<d, v>>] = f[d]
  BY DEF Amounts, Column, Pair
<1>2. {} \in T
  <2>1. {} \X {v} = {}
    OBVIOUS
  <2>2. SumFunctionOnSet(h, {} \X {v}) = 0 /\ SumFunctionOnSet(f, {}) = 0
    BY <2>1, SumEmpty
  <2> QED
    BY <2>2
<1>3. ASSUME NEW S \in T, NEW x \in Address \ S PROVE S \cup {x} \in T
  <2> DEFINE R == S \cup {x}
  <2>1. IsFiniteSet(R) /\ IsFiniteSet(R \X {v}) /\ R \X {v} \subseteq Pair
    <3>1. R \subseteq Address
      OBVIOUS
    <3>2. IsFiniteSet(R) /\ R \X {v} \subseteq Pair
      BY <3>1, FiniteAddress, FS_Subset DEF Pair
    <3> QED
      BY <3>2, FiniteAddress, FS_Subset
  <2>2. R \ {x} = S /\ (R \X {v}) \ {<<x, v>>} = S \X {v} /\ <<x, v>> \in R \X {v} /\ x \in R
    OBVIOUS
  <2>3. (\A a \in R : f[a] \in Int) /\ (\A p \in R \X {v} : h[p] \in Int)
    BY <1>1, <2>1 DEF Amounts
  <2> HIDE DEF h, R
  <2>4. /\ SumFunctionOnSet(f, S) \in Int
        /\ SumFunctionOnSet(f, R) = f[x] + SumFunctionOnSet(f, S)
    BY <2>1, <2>2, <2>3, SumSplit
  <2>5. SumFunctionOnSet(h, R \X {v}) = h[<<x, v>>] + SumFunctionOnSet(h, S \X {v})
    BY <2>1, <2>2, <2>3, SumSplit
  <2>6. SumFunctionOnSet(h, R \X {v}) = SumFunctionOnSet(f, R)
    BY <1>1, <2>4, <2>5
  <2> QED
    BY <2>6 DEF R
<1>4. T = SUBSET Address
  <2> HIDE DEF T
  <2>1. T \in SUBSET SUBSET Address
    BY DEF T
  <2> QED
    BY <1>2, <1>3, <2>1, FiniteAddress, FiniteInduction
<1>5. SumFunctionOnSet(h, Address \X {v}) = SumFunctionOnSet(f, Address)
  BY <1>4
<1> DEFINE own == Address \X {v}
           rest == Address \X (Address \ {v})
<1>6. own \cup rest = Pair /\ own \cap rest = {}
  BY DEF Pair
<1>7. IsFiniteSet(own) /\ IsFiniteSet(rest)
  BY <1>6, FiniteAddress, FS_Subset
<1>8. (\A p \in own \cup rest : h[p] \in Int) /\ \A p \in rest : h[p] = 0
  <2>1. \A p \in Pair : h[p] \in Int
    BY <1>1
  <2>2. \A p \in rest : p[2] # v /\ p \in Pair
    BY DEF Pair
  <2> QED
    BY <1>6, <2>1, <2>2 DEF Column
<1>9. DOMAIN h = Pair /\ DOMAIN f = Address
  BY DEF Column, Amounts
<1>10. SumFunctionOnSet(f, Address) \in Nat
  BY TotalNat, <1>9 DEF Total
<1> HIDE DEF h, own, rest
<1>11. SumFunctionOnSet(h, own \cup rest) = SumFunctionOnSet(h, own) + SumFunctionOnSet(h, rest)
  BY <1>6, <1>7, <1>8, SumUnion
<1>12. SumFunctionOnSet(h, rest) = 0
  <2>1. IsFiniteSet(rest) /\ \A p \in rest : h[p] = 0
    BY <1>7, <1>8
  <2> QED
    BY <2>1, SumZero
<1>13. SumFunctionOnSet(h, Pair) = SumFunctionOnSet(f, Address)
  <2>1. SumFunctionOnSet(h, own) = SumFunctionOnSet(f, Address)
    BY <1>5 DEF own
  <2>2. SumFunctionOnSet(h, Pair) = SumFunctionOnSet(h, own \cup rest)
    BY <1>6
  <2> QED
    BY <1>10, <1>11, <1>12, <2>1, <2>2
<1>14. Total(h) = Total(f)
  BY <1>9, <1>13 DEF Total
<1> QED
  BY <1>1, <1>14 DEF h

-----------------------------------------------------------------------------
(***************************************************************************)
(* What entries are worth                                                  *)
(***************************************************************************)
Of(entries, a) == {e \in entries : e.delegator = a}

Entries(E) == IsFiniteSet(E) /\ E \subseteq UnbondingEntry

\* The amount of an entry is a number,
LEMMA EntryAmounts ==
  ASSUME NEW E, Entries(E), NEW f, f = [e \in E |-> e.amount]
  PROVE  \A e \in E : f[e] \in Nat /\ f[e] = e.amount
  BY DEF Entries, UnbondingEntry

\* and so is that of a set of them.
LEMMA AmountNat == ASSUME NEW E, Entries(E) PROVE AmountOf(E) \in Nat
<1> DEFINE f == [e \in E |-> e.amount]
<1>1. IsFiniteSet(E) /\ \A e \in E : f[e] \in Nat
  BY EntryAmounts DEF Entries
<1> HIDE DEF f
<1>2. SumFunctionOnSet(f, E) \in Nat
  BY <1>1, SumNat
<1> QED
  BY <1>2 DEF AmountOf, f

\* Two sets of entries.
LEMMA AmountUnion ==
  ASSUME NEW D, NEW E, Entries(D), Entries(E), D \cap E = {}
  PROVE  Entries(D \cup E) /\ AmountOf(D \cup E) = AmountOf(D) + AmountOf(E)
<1> DEFINE f == [e \in D \cup E |-> e.amount]
           fD == [e \in D |-> e.amount]
           fE == [e \in E |-> e.amount]
<1>1. Entries(D \cup E)
  BY FS_Union DEF Entries
<1>2. \A e \in D \cup E : f[e] \in Int
  BY <1>1 DEF Entries, UnbondingEntry
<1>3. /\ \A e \in D : f[e] \in Int /\ f[e] = fD[e]
      /\ \A e \in E : f[e] \in Int /\ f[e] = fE[e]
  BY <1>2
<1> HIDE DEF f, fD, fE
<1>4. IsFiniteSet(D) /\ IsFiniteSet(E)
  BY DEF Entries
<1>5. SumFunctionOnSet(f, D \cup E) = SumFunctionOnSet(f, D) + SumFunctionOnSet(f, E)
  BY <1>2, <1>4, SumUnion
<1>6. SumFunctionOnSet(f, D) = SumFunctionOnSet(fD, D)
  BY <1>3, <1>4, SumEqual
<1>7. SumFunctionOnSet(f, E) = SumFunctionOnSet(fE, E)
  BY <1>3, <1>4, SumEqual
<1> QED
  BY <1>1, <1>5, <1>6, <1>7 DEF AmountOf, f, fD, fE

\* Fewer entries are worth no more.
LEMMA AmountSubset ==
  ASSUME NEW E, Entries(E), NEW D \in SUBSET E
  PROVE  Entries(D) /\ AmountOf(D) <= AmountOf(E)
<1>1. Entries(D) /\ Entries(E \ D)
  BY FS_Subset DEF Entries
<1>2. D \cup (E \ D) = E /\ D \cap (E \ D) = {}
  OBVIOUS
<1> DEFINE R == E \ D
<1> HIDE DEF R
<1>3. AmountOf(D \cup R) = AmountOf(D) + AmountOf(R)
  BY <1>1, <1>2, AmountUnion DEF R
<1>4. AmountOf(D) \in Nat /\ AmountOf(R) \in Nat
  BY <1>1, AmountNat DEF R
<1>5. AmountOf(E) = AmountOf(D) + AmountOf(R)
  BY <1>2, <1>3 DEF R
<1> QED
  BY <1>1, <1>4, <1>5

\* A single entry is worth its amount.
LEMMA AmountOne ==
  ASSUME NEW e \in UnbondingEntry
  PROVE  Entries({e}) /\ AmountOf({e}) = e.amount
<1> DEFINE f == [x \in {e} |-> x.amount]
<1>1. Entries({e})
  BY FS_Singleton DEF Entries
<1>2. f[e] = e.amount /\ (\A x \in {e} : f[x] \in Int) /\ {e} \ {e} = {} /\ e \in {e}
      /\ e.amount \in Nat
  BY DEF UnbondingEntry
<1> HIDE DEF f
<1>3. SumFunctionOnSet(f, {e}) = f[e] + SumFunctionOnSet(f, {e} \ {e})
  BY <1>1, <1>2, SumSplit DEF Entries
<1>4. SumFunctionOnSet(f, {}) = 0
  BY SumEmpty
<1> QED
  BY <1>1, <1>2, <1>3, <1>4 DEF AmountOf, f

\* One more entry is worth its amount at most: the set may have it already.
LEMMA AmountMore ==
  ASSUME NEW E, Entries(E), NEW e \in UnbondingEntry
  PROVE  Entries(E \cup {e}) /\ AmountOf(E \cup {e}) <= AmountOf(E) + e.amount
<1>1. Entries({e}) /\ AmountOf({e}) = e.amount /\ e.amount \in Nat
  BY AmountOne DEF UnbondingEntry
<1>2. CASE e \in E
  <2>1. E \cup {e} = E
    BY <1>2
  <2>2. AmountOf(E) \in Nat /\ AmountOf(E) <= AmountOf(E) + e.amount
    BY <1>1, AmountNat
  <2> QED
    BY <2>1, <2>2
<1>3. CASE e \notin E
  <2>1. E \cap {e} = {}
    BY <1>3
  <2>2. Entries(E \cup {e}) /\ AmountOf(E \cup {e}) = AmountOf(E) + AmountOf({e})
    BY <1>1, <2>1, AmountUnion
  <2> QED
    BY <1>1, <2>2, AmountNat
<1> QED
  BY <1>2, <1>3

\* The entries of an account.
LEMMA EntriesOf ==
  ASSUME NEW E, Entries(E), NEW a
  PROVE  Entries(Of(E, a)) /\ AmountOf(Of(E, a)) \in Nat
<1>1. Of(E, a) \in SUBSET E
  BY DEF Of
<1> QED
  BY <1>1, AmountSubset, AmountNat

\* Writing an entry gives its account its amount at most, and the others nothing.
LEMMA PutEntryOwed ==
  ASSUME NEW E, Entries(E), NEW e \in UnbondingEntry
  PROVE  /\ Entries(PutEntry(E, e))
         /\ \A a \in Address :
              AmountOf(Of(PutEntry(E, e), a))
                <= AmountOf(Of(E, a)) + (IF a = e.delegator THEN e.amount ELSE 0)
<1> DEFINE F == PutEntry(E, e)
<1>1. F \in SUBSET (E \cup {e})
  BY DEF PutEntry
<1>2. Entries(E \cup {e})
  BY AmountMore
<1>3. Entries(F)
  BY <1>1, <1>2, AmountSubset
<1>4. ASSUME NEW a \in Address
      PROVE  AmountOf(Of(F, a))
               <= AmountOf(Of(E, a)) + (IF a = e.delegator THEN e.amount ELSE 0)
  <2> HIDE DEF F
  <2>1. Entries(Of(E, a)) /\ AmountOf(Of(E, a)) \in Nat /\ AmountOf(Of(F, a)) \in Nat
    BY <1>3, EntriesOf
  <2>2. CASE a = e.delegator
    <3>1. Of(F, a) \in SUBSET (Of(E, a) \cup {e})
      BY <1>1 DEF Of
    <3>2. Entries(Of(E, a) \cup {e}) /\ AmountOf(Of(E, a) \cup {e}) <= AmountOf(Of(E, a)) + e.amount
      BY <2>1, AmountMore
    <3>3. AmountOf(Of(F, a)) <= AmountOf(Of(E, a) \cup {e})
      BY <3>1, <3>2, AmountSubset
    <3>4. AmountOf(Of(E, a) \cup {e}) \in Nat /\ e.amount \in Nat
      BY <3>2, AmountNat DEF UnbondingEntry
    <3> QED
      BY <2>1, <2>2, <3>2, <3>3, <3>4
  <2>3. CASE a # e.delegator
    <3>1. Of(F, a) \in SUBSET Of(E, a)
      BY <1>1, <2>3 DEF Of
    <3>2. AmountOf(Of(F, a)) <= AmountOf(Of(E, a))
      BY <2>1, <3>1, AmountSubset
    <3> QED
      BY <2>1, <2>3, <3>2
  <2> QED
    BY <2>2, <2>3
<1> QED
  BY <1>3, <1>4

-----------------------------------------------------------------------------
(***************************************************************************)
(* Well-formed states, their worth and what backs their power              *)
(***************************************************************************)
WellFormed(s) ==
  /\ s \in State /\ Entries(s.UnbondingEntries)
  /\ \A v \in Address :
       s.Validators[v].Status # "none" => s.Validators[v].OperatorAddress \in Address

OwedIn(s) == [a \in Address |-> AmountOf(Of(s.UnbondingEntries, a))]

Worth(s) ==
  Total(s.Balance) + Total(s.LockedStake) + Total(s.StakeDelegations)
    + Total(OwedIn(s)) + s.PermanentFund

DelegatedTo(s, v) == [d \in Address |-> s.StakeDelegations[<<d, v>>]]

\* A validator that may be slashed, or was and may be set active again by the block
\* that did it, has the stake of its record locked.
BackedAt(s, v) ==
  /\ s.Validators[v].DelegatedStake = Total(DelegatedTo(s, v))
  /\ v \in s.ConsensusValidators => s.Validators[v].Status = "active" /\ s.LockedStake[v] > 0
  /\ s.Validators[v].Status \in {"active", "slashed"} => s.Validators[v].Stake <= s.LockedStake[v]
  /\ s.Validators[v].Status = "none" => s.Validators[v].Stake = 0

Backed(s) == \A v \in Address \ {Local} : BackedAt(s, v)

\* The parts of a well-formed state.
LEMMA Fields ==
  ASSUME NEW s, WellFormed(s)
  PROVE  /\ s.Balance \in Amounts /\ s.LockedStake \in Amounts /\ s.UnbondingBalance \in Amounts
         /\ s.Nonce \in Amounts
         /\ s.Validators \in [Address -> ValidatorInfo]
         /\ s.ConsensusValidators \in SUBSET Address
         /\ s.OperatorMap \in [Address -> Address \cup {None}]
         /\ s.StakeDelegations \in [Pair -> Nat]
         /\ s.ValidatorEvidence \in SUBSET Evidence
         /\ s.PermanentFund \in Nat
         /\ Entries(s.UnbondingEntries)
         /\ OwedIn(s) \in Amounts
<1>1. OwedIn(s) \in Amounts
  <2>1. \A a \in Address : AmountOf(Of(s.UnbondingEntries, a)) \in Nat
    BY EntriesOf DEF WellFormed
  <2> QED
    BY <2>1 DEF OwedIn, Amounts
<1> QED
  BY <1>1 DEF WellFormed, State, Amounts, Pair

\* The totals of a well-formed state are numbers.
LEMMA Totals ==
  ASSUME NEW s, WellFormed(s)
  PROVE  /\ Total(s.Balance) \in Nat /\ Total(s.LockedStake) \in Nat
         /\ Total(s.StakeDelegations) \in Nat /\ Total(OwedIn(s)) \in Nat
         /\ s.PermanentFund \in Nat
  BY Fields, TotalNat, DelegationsNat

\* A validator stays backed when its record, its lock and its delegations stay.
LEMMA BackedSame ==
  ASSUME NEW s, NEW t, NEW v, BackedAt(s, v),
         t.Validators[v].DelegatedStake = s.Validators[v].DelegatedStake,
         t.Validators[v].Status = s.Validators[v].Status,
         t.Validators[v].Stake = s.Validators[v].Stake,
         t.LockedStake[v] = s.LockedStake[v],
         DelegatedTo(t, v) = DelegatedTo(s, v),
         v \in t.ConsensusValidators => v \in s.ConsensusValidators
  PROVE  BackedAt(t, v)
  BY DEF BackedAt

\* The owner of an operator key.
LEMMA OwnerOf ==
  ASSUME NEW s, WellFormed(s), NEW k \in Address
  PROVE  resolveOperatorToOwner(s, k) \in Address
  BY Fields DEF resolveOperatorToOwner

\* Subtraction that stops at zero.
LEMMA MinusNat ==
  ASSUME NEW x \in Nat, NEW y \in Nat
  PROVE  Minus(x, y) \in Nat /\ Minus(x, y) <= x /\ (y <= x => Minus(x, y) = x - y)
         /\ x <= y + Minus(x, y)
  BY DEF Minus

-----------------------------------------------------------------------------
(***************************************************************************)
(* Registration                                                            *)
(***************************************************************************)
MoreStake(s, owner, stake) == Minus(stake, s.Validators[owner].Stake)

RegisteredInfo(s, owner, operator, stake) ==
  [s.Validators[owner] EXCEPT !.Status = "active", !.OperatorAddress = operator,
                              !.Stake = stake, !.SelfStake = stake]

RegisteredAs(s, owner, operator, stake, r) ==
  /\ WellFormed(r)
  /\ r.Balance = [s.Balance EXCEPT ![owner] = @ - MoreStake(s, owner, stake)]
  /\ r.LockedStake = [s.LockedStake EXCEPT ![owner] = @ + MoreStake(s, owner, stake)]
  /\ r.Validators = [s.Validators EXCEPT ![owner] = RegisteredInfo(s, owner, operator, stake)]
  /\ r.ConsensusValidators = s.ConsensusValidators \cup {owner}
  /\ r.StakeDelegations = s.StakeDelegations
  /\ r.UnbondingEntries = s.UnbondingEntries
  /\ r.PermanentFund = s.PermanentFund

\* What a registration changes.
LEMMA RegisteredParts ==
  ASSUME NEW s, WellFormed(s), NEW owner \in Address, NEW operator \in Address, NEW stake \in Nat,
         s.Balance[owner] >= Minus(stake, s.Validators[owner].Stake)
  PROVE  RegisteredAs(s, owner, operator, stake, registered(s, owner, operator, stake))
<1> DEFINE r == registered(s, owner, operator, stake)
<1> DEFINE more == MoreStake(s, owner, stake)
           info == RegisteredInfo(s, owner, operator, stake)
<1>1. /\ r.Balance = [s.Balance EXCEPT ![owner] = @ - more]
      /\ r.LockedStake = [s.LockedStake EXCEPT ![owner] = @ + more]
      /\ r.UnbondingBalance = s.UnbondingBalance /\ r.Nonce = s.Nonce
      /\ r.Validators = [s.Validators EXCEPT ![owner] = info]
      /\ r.ConsensusValidators = s.ConsensusValidators \cup {owner}
      /\ r.OperatorMap = [s.OperatorMap EXCEPT ![operator] = owner]
      /\ r.StakeDelegations = s.StakeDelegations
      /\ r.UnbondingEntries = s.UnbondingEntries
      /\ r.ValidatorEvidence = s.ValidatorEvidence
      /\ r.PermanentFund = s.PermanentFund
  BY DEF registered, WellFormed, State, MoreStake, RegisteredInfo
<1>2. s.Validators[owner] \in ValidatorInfo /\ more \in Nat
  BY Fields, MinusNat DEF ValidatorInfo, MoreStake
<1>3. info \in ValidatorInfo /\ info.OperatorAddress = operator
  BY <1>2 DEF ValidatorInfo, Status, RegisteredInfo
<1> HIDE DEF more, info
<1>4. /\ r.Balance \in [Address -> Nat] /\ r.LockedStake \in [Address -> Nat]
      /\ r.Validators \in [Address -> ValidatorInfo]
      /\ r.ConsensusValidators \in SUBSET Address
      /\ r.OperatorMap \in [Address -> Address \cup {None}]
  <2>1. s.Balance[owner] - more \in Nat /\ s.LockedStake[owner] + more \in Nat
    BY <1>2, Fields DEF Amounts, more, MoreStake
  <2> QED
    BY <1>1, <1>2, <1>3, <2>1, Fields DEF Amounts
<1>5. r \in State
  BY <1>1, <1>4 DEF registered, WellFormed, State
<1>6. \A v \in Address : r.Validators[v].Status # "none" => r.Validators[v].OperatorAddress \in Address
  BY <1>1, <1>3, Fields DEF WellFormed
<1>7. WellFormed(r)
  BY <1>1, <1>5, <1>6 DEF WellFormed
<1> QED
  BY <1>1, <1>7 DEF more, info, RegisteredAs

\* It locks what it takes from the balance,
LEMMA RegisteredWorth ==
  ASSUME NEW s, WellFormed(s), NEW owner \in Address, NEW operator \in Address, NEW stake \in Nat,
         s.Balance[owner] >= Minus(stake, s.Validators[owner].Stake),
         NEW r, r = registered(s, owner, operator, stake)
  PROVE  Worth(r) <= Worth(s)
<1>0. RegisteredAs(s, owner, operator, stake, registered(s, owner, operator, stake))
  BY RegisteredParts
<1> DEFINE more == MoreStake(s, owner, stake)
<1>1. /\ WellFormed(r)
      /\ r.Balance = [s.Balance EXCEPT ![owner] = @ - more]
      /\ r.LockedStake = [s.LockedStake EXCEPT ![owner] = @ + more]
      /\ r.StakeDelegations = s.StakeDelegations
      /\ r.UnbondingEntries = s.UnbondingEntries
      /\ r.PermanentFund = s.PermanentFund
  BY <1>0 DEF RegisteredAs
<1>2. more \in Nat /\ s.Balance[owner] >= more
  BY Fields, MinusNat DEF ValidatorInfo, MoreStake
<1> HIDE DEF more
<1>3. Total(r.Balance) = Total(s.Balance) - more
  <2>1. r.Balance \in Amounts /\ s.Balance \in Amounts
        /\ \A a \in Address \ {owner} : r.Balance[a] = s.Balance[a]
    BY <1>1, Fields DEF Amounts
  <2>2. Total(r.Balance) = Total(s.Balance) + (r.Balance[owner] - s.Balance[owner])
    BY <2>1, TotalUpdate
  <2>3. r.Balance[owner] = s.Balance[owner] - more /\ s.Balance[owner] \in Nat
    BY <1>1, <2>1 DEF Amounts
  <2>4. Total(s.Balance) \in Nat
    BY Totals
  <2> QED
    BY <1>2, <2>2, <2>3, <2>4
<1>4. Total(r.LockedStake) = Total(s.LockedStake) + more
  <2>1. r.LockedStake \in Amounts /\ s.LockedStake \in Amounts
        /\ \A a \in Address \ {owner} : r.LockedStake[a] = s.LockedStake[a]
    BY <1>1, Fields DEF Amounts
  <2>2. Total(r.LockedStake) = Total(s.LockedStake) + (r.LockedStake[owner] - s.LockedStake[owner])
    BY <2>1, TotalUpdate
  <2>3. r.LockedStake[owner] = s.LockedStake[owner] + more /\ s.LockedStake[owner] \in Nat
    BY <1>1, <2>1 DEF Amounts
  <2>4. Total(s.LockedStake) \in Nat
    BY Totals
  <2> QED
    BY <1>2, <2>2, <2>3, <2>4
<1>5. OwedIn(r) = OwedIn(s)
  BY <1>1 DEF OwedIn
<1> QED
  BY <1>1, <1>2, <1>3, <1>4, <1>5, Totals DEF Worth

\* and the stake of the record is locked.
LEMMA RegisteredBacked ==
  ASSUME NEW s, WellFormed(s), Backed(s), NEW owner \in Address, NEW operator \in Address,
         NEW stake \in Nat, canReplayRegister(s, owner, operator, stake),
         NEW r, r = registered(s, owner, operator, stake)
  PROVE  Backed(r)
<1> SUFFICES ASSUME NEW v \in Address \ {Local} PROVE BackedAt(r, v)
  BY DEF Backed
<1> DEFINE more == MoreStake(s, owner, stake)
           info == RegisteredInfo(s, owner, operator, stake)
<1>0. RegisteredAs(s, owner, operator, stake, registered(s, owner, operator, stake))
  BY RegisteredParts DEF canReplayRegister
<1>1. /\ WellFormed(r)
      /\ r.LockedStake = [s.LockedStake EXCEPT ![owner] = @ + more]
      /\ r.Validators = [s.Validators EXCEPT ![owner] = info]
      /\ r.ConsensusValidators = s.ConsensusValidators \cup {owner}
      /\ r.StakeDelegations = s.StakeDelegations
  BY <1>0 DEF RegisteredAs
<1>2. DelegatedTo(r, v) = DelegatedTo(s, v)
  BY <1>1 DEF DelegatedTo
<1>3. BackedAt(s, v)
  BY DEF Backed
<1>4. more \in Nat /\ stake <= s.Validators[owner].Stake + more /\ s.Validators[owner].Stake \in Nat
  BY Fields, MinusNat DEF ValidatorInfo, MoreStake
<1>i. /\ info.Status = "active" /\ info.Stake = stake
      /\ info.DelegatedStake = s.Validators[owner].DelegatedStake
  BY Fields DEF ValidatorInfo, RegisteredInfo
<1> HIDE DEF more, info
<1>5. CASE v = owner
  <2>1. /\ r.Validators[v].Status = "active" /\ r.Validators[v].Stake = stake
        /\ r.Validators[v].DelegatedStake = s.Validators[v].DelegatedStake
    BY <1>1, <1>5, <1>i, Fields
  <2>2. r.LockedStake[v] = s.LockedStake[v] + more /\ s.LockedStake[v] \in Nat
    BY <1>1, <1>5, Fields DEF Amounts
  <2>3. s.Validators[v].Stake <= s.LockedStake[v]
    <3>1. s.Validators[v].Status \in {"none", "active"}
      BY <1>5 DEF canReplayRegister
    <3> QED
      BY <1>3, <2>2, <3>1 DEF BackedAt
  <2>4. stake <= r.LockedStake[v]
    BY <1>4, <1>5, <2>2, <2>3
  <2>5. stake > 0 /\ r.LockedStake[v] \in Nat
    BY <1>4, <2>2, StakingAssumption DEF canReplayRegister
  <2> QED
    BY <1>2, <1>3, <2>1, <2>4, <2>5 DEF BackedAt
<1>6. CASE v # owner
  <2>1. /\ r.Validators[v] = s.Validators[v] /\ r.LockedStake[v] = s.LockedStake[v]
        /\ v \in r.ConsensusValidators => v \in s.ConsensusValidators
    BY <1>1, <1>6, Fields DEF Amounts
  <2> QED
    BY <1>2, <1>3, <2>1, BackedSame
<1> QED
  BY <1>5, <1>6

-----------------------------------------------------------------------------
(***************************************************************************)
(* Delegations                                                             *)
(***************************************************************************)
DelegationSet(s, r, d, v, x) ==
  /\ Total(DelegatedTo(r, v)) = Total(DelegatedTo(s, v)) + (x - s.StakeDelegations[<<d, v>>])
  /\ Total(DelegatedTo(s, v)) \in Nat
  /\ s.StakeDelegations[<<d, v>>] <= Total(DelegatedTo(s, v))
  /\ s.StakeDelegations[<<d, v>>] \in Nat
  /\ \A u \in Address \ {v} : DelegatedTo(r, u) = DelegatedTo(s, u)
  /\ Total(r.StakeDelegations) = Total(s.StakeDelegations) + (x - s.StakeDelegations[<<d, v>>])

\* One delegation changes: its validator's sum by as much, no other's.
LEMMA ColumnUpdate ==
  ASSUME NEW s, NEW r, s.StakeDelegations \in [Pair -> Nat], r.StakeDelegations \in [Pair -> Nat],
         NEW d \in Address, NEW v \in Address, NEW x \in Nat,
         r.StakeDelegations = [s.StakeDelegations EXCEPT ![<<d, v>>] = x]
  PROVE  DelegationSet(s, r, d, v, x)
<1>1. \A a \in Address, b \in Address : <<a, b>> \in Pair
  BY DEF Pair
<1>2. DelegatedTo(r, v) \in Amounts /\ DelegatedTo(s, v) \in Amounts
  BY <1>1 DEF DelegatedTo, Amounts
<1>3. /\ \A a \in Address \ {d} : DelegatedTo(r, v)[a] = DelegatedTo(s, v)[a]
      /\ DelegatedTo(r, v)[d] = x
      /\ DelegatedTo(s, v)[d] = s.StakeDelegations[<<d, v>>]
  BY <1>1 DEF DelegatedTo
<1>4. Total(DelegatedTo(r, v))
        = Total(DelegatedTo(s, v)) + (DelegatedTo(r, v)[d] - DelegatedTo(s, v)[d])
  BY <1>2, <1>3, TotalUpdate
<1>5. Total(DelegatedTo(s, v)) \in Nat /\ DelegatedTo(s, v)[d] <= Total(DelegatedTo(s, v))
  BY <1>2, TotalNat
<1>6. \A u \in Address \ {v} : DelegatedTo(r, u) = DelegatedTo(s, u)
  BY <1>1 DEF DelegatedTo
<1>7. Total(r.StakeDelegations)
        = Total(s.StakeDelegations) + (r.StakeDelegations[<<d, v>>] - s.StakeDelegations[<<d, v>>])
  BY <1>1, DelegationsUpdate
<1>8. r.StakeDelegations[<<d, v>>] = x /\ s.StakeDelegations[<<d, v>>] \in Nat
  BY <1>1
<1> QED
  BY <1>3, <1>4, <1>5, <1>6, <1>7, <1>8 DEF DelegationSet

\* A delegation is paid from the balance.
LEMMA DelegatedKept ==
  ASSUME NEW s, WellFormed(s), NEW d \in Address, NEW v \in Address, NEW amount \in Nat,
         canDelegate(s, d, v, amount),
         NEW r, r = delegated(s, d, v, amount)
  PROVE  /\ WellFormed(r) /\ Worth(r) <= Worth(s)
         /\ Backed(s) => Backed(r)
         /\ \A u \in Address : r.Validators[u].Status = s.Validators[u].Status
<1> DEFINE old == s.StakeDelegations[<<d, v>>]
           info == [s.Validators[v] EXCEPT
                      !.DelegatedStake = @ + amount,
                      !.DelegatorCount = IF s.StakeDelegations[<<d, v>>] = 0 THEN @ + 1 ELSE @]
<1>1. /\ r.Balance = [s.Balance EXCEPT ![d] = @ - amount]
      /\ r.LockedStake = s.LockedStake
      /\ r.UnbondingBalance = s.UnbondingBalance
      /\ r.Nonce = [s.Nonce EXCEPT ![d] = @ + 1]
      /\ r.Validators = [s.Validators EXCEPT ![v] = info]
      /\ r.ConsensusValidators = s.ConsensusValidators
      /\ r.OperatorMap = s.OperatorMap
      /\ r.StakeDelegations = [s.StakeDelegations EXCEPT ![<<d, v>>] = @ + amount]
      /\ r.UnbondingEntries = s.UnbondingEntries
      /\ r.ValidatorEvidence = s.ValidatorEvidence
      /\ r.PermanentFund = s.PermanentFund
  BY DEF delegated, WellFormed, State
<1>2. s.Validators[v] \in ValidatorInfo /\ <<d, v>> \in Pair /\ s.Balance[d] >= amount
      /\ s.Balance[d] \in Nat /\ s.Nonce[d] \in Nat /\ old \in Nat
  BY Fields DEF Pair, canDelegate, Amounts
<1>3. /\ info \in ValidatorInfo
      /\ info.Status = s.Validators[v].Status /\ info.Stake = s.Validators[v].Stake
      /\ info.OperatorAddress = s.Validators[v].OperatorAddress
      /\ info.DelegatedStake = s.Validators[v].DelegatedStake + amount
  <2>1. /\ s.Validators[v].DelegatedStake + amount \in Nat
        /\ s.Validators[v].DelegatorCount \in Nat
    BY <1>2 DEF ValidatorInfo
  <2>2. (IF s.StakeDelegations[<<d, v>>] = 0 THEN s.Validators[v].DelegatorCount + 1
         ELSE s.Validators[v].DelegatorCount) \in Nat
    BY <2>1
  <2> QED
    BY <1>2, <2>1, <2>2 DEF ValidatorInfo
<1> HIDE DEF info, old
<1>4. r.StakeDelegations = [s.StakeDelegations EXCEPT ![<<d, v>>] = old + amount]
  BY <1>1 DEF old
<1>5. /\ r.Balance \in [Address -> Nat] /\ r.Nonce \in [Address -> Nat]
      /\ r.Validators \in [Address -> ValidatorInfo]
      /\ r.StakeDelegations \in [Pair -> Nat]
  BY <1>1, <1>2, <1>3, <1>4, Fields DEF Amounts
<1>6. r \in State
  BY <1>1, <1>5, Fields DEF delegated, WellFormed, State, Pair
<1>7. \A u \in Address :
        r.Validators[u].Status = s.Validators[u].Status
        /\ r.Validators[u].OperatorAddress = s.Validators[u].OperatorAddress
        /\ r.Validators[u].Stake = s.Validators[u].Stake
  BY <1>1, <1>3, Fields
<1>8. WellFormed(r)
  BY <1>1, <1>6, <1>7, Fields DEF WellFormed
<1>9. /\ Total(DelegatedTo(r, v)) = Total(DelegatedTo(s, v)) + amount
      /\ \A u \in Address \ {v} : DelegatedTo(r, u) = DelegatedTo(s, u)
      /\ Total(r.StakeDelegations) = Total(s.StakeDelegations) + amount
  <2>1. old + amount \in Nat
    BY <1>2
  <2> DEFINE x == old + amount
  <2>a. r.StakeDelegations = [s.StakeDelegations EXCEPT ![<<d, v>>] = x]
        /\ s.StakeDelegations \in [Pair -> Nat] /\ s.StakeDelegations[<<d, v>>] = old
    BY <1>4, Fields DEF old
  <2> HIDE DEF x
  <2>b. DelegationSet(s, r, d, v, x)
    BY <1>5, <2>1, <2>a, ColumnUpdate DEF x
  <2>2. /\ Total(DelegatedTo(r, v)) = Total(DelegatedTo(s, v)) + (x - old)
        /\ Total(DelegatedTo(s, v)) \in Nat
        /\ \A u \in Address \ {v} : DelegatedTo(r, u) = DelegatedTo(s, u)
        /\ Total(r.StakeDelegations) = Total(s.StakeDelegations) + (x - old)
    BY <2>a, <2>b DEF DelegationSet
  <2>3. Total(s.StakeDelegations) \in Nat
    BY Totals
  <2> QED
    BY <1>2, <2>2, <2>3 DEF x
<1>10. Worth(r) <= Worth(s)
  <2>1. r.Balance \in Amounts /\ s.Balance \in Amounts
        /\ \A a \in Address \ {d} : r.Balance[a] = s.Balance[a]
    BY <1>1, <1>8, Fields DEF Amounts
  <2>2. Total(r.Balance) = Total(s.Balance) + (r.Balance[d] - s.Balance[d])
    BY <2>1, TotalUpdate
  <2>3. r.Balance[d] = s.Balance[d] - amount
    BY <1>1, <2>1 DEF Amounts
  <2>4. OwedIn(r) = OwedIn(s)
    BY <1>1 DEF OwedIn
  <2> QED
    BY <1>1, <1>2, <1>9, <2>2, <2>3, <2>4, Totals DEF Worth
<1>11. ASSUME Backed(s), NEW u \in Address \ {Local} PROVE BackedAt(r, u)
  <2>1. BackedAt(s, u)
    BY <1>11 DEF Backed
  <2>2. CASE u = v
    <3>1. r.Validators[u].DelegatedStake = Total(DelegatedTo(r, u))
      BY <1>1, <1>3, <1>9, <2>1, <2>2, Fields DEF BackedAt
    <3> QED
      BY <1>1, <1>7, <2>1, <3>1 DEF BackedAt
  <2>3. CASE u # v
    <3>1. r.Validators[u] = s.Validators[u] /\ r.LockedStake[u] = s.LockedStake[u]
          /\ DelegatedTo(r, u) = DelegatedTo(s, u)
          /\ (u \in r.ConsensusValidators => u \in s.ConsensusValidators)
      BY <1>1, <1>9, <2>3, Fields
    <3> QED
      BY <2>1, <3>1, BackedSame
  <2> QED
    BY <2>2, <2>3
<1> QED
  BY <1>7, <1>8, <1>10, <1>11 DEF Backed

\* A withdrawal becomes an entry, and leaves the validator's power.
LEMMA UndelegatedKept ==
  ASSUME NEW s, WellFormed(s), NEW d \in Address, NEW v \in Address, NEW amount \in Nat,
         canUndelegate(s, d, v, amount), now \in Nat,
         NEW r, r = undelegated(s, d, v, amount)
  PROVE  /\ WellFormed(r) /\ Worth(r) <= Worth(s)
         /\ Backed(s) => Backed(r)
         /\ \A u \in Address : r.Validators[u].Status = s.Validators[u].Status
<1> DEFINE old == s.StakeDelegations[<<d, v>>]
           e == [delegator |-> d, validator |-> v, kind |-> "delegation",
                 at |-> now, seq |-> Cardinality(s.UnbondingEntries), amount |-> amount]
           info == [s.Validators[v] EXCEPT
                      !.DelegatedStake = Minus(@, amount),
                      !.DelegatorCount =
                         IF s.StakeDelegations[<<d, v>>] = amount THEN Minus(@, 1) ELSE @]
<1>1. /\ r.Balance = s.Balance
      /\ r.LockedStake = s.LockedStake
      /\ r.UnbondingBalance = [s.UnbondingBalance EXCEPT ![d] = @ + amount]
      /\ r.Nonce = [s.Nonce EXCEPT ![d] = @ + 1]
      /\ r.Validators = [s.Validators EXCEPT ![v] = info]
      /\ r.ConsensusValidators = s.ConsensusValidators
      /\ r.OperatorMap = s.OperatorMap
      /\ r.StakeDelegations = [s.StakeDelegations EXCEPT ![<<d, v>>] = @ - amount]
      /\ r.UnbondingEntries = PutEntry(s.UnbondingEntries, e)
      /\ r.ValidatorEvidence = s.ValidatorEvidence
      /\ r.PermanentFund = s.PermanentFund
  BY DEF undelegated, WellFormed, State
<1>2. s.Validators[v] \in ValidatorInfo /\ <<d, v>> \in Pair
      /\ s.UnbondingBalance[d] \in Nat /\ s.Nonce[d] \in Nat /\ old \in Nat /\ old >= amount
  BY Fields DEF Pair, canUndelegate, Amounts
<1>3. /\ info \in ValidatorInfo
      /\ info.Status = s.Validators[v].Status /\ info.Stake = s.Validators[v].Stake
      /\ info.OperatorAddress = s.Validators[v].OperatorAddress
      /\ info.DelegatedStake = Minus(s.Validators[v].DelegatedStake, amount)
  <2>1. s.Validators[v].DelegatedStake \in Nat /\ s.Validators[v].DelegatorCount \in Nat
    BY <1>2 DEF ValidatorInfo
  <2>2. Minus(s.Validators[v].DelegatedStake, amount) \in Nat
        /\ Minus(s.Validators[v].DelegatorCount, 1) \in Nat
    BY <2>1, MinusNat
  <2> QED
    BY <1>2, <2>2 DEF ValidatorInfo
<1>4. e \in UnbondingEntry /\ e.delegator = d /\ e.amount = amount
  <2>1. Cardinality(s.UnbondingEntries) \in Nat
    BY FS_CardinalityType DEF WellFormed, Entries
  <2> QED
    BY <2>1 DEF UnbondingEntry, EntryKind
<1> HIDE DEF info, old, e
<1>5. r.StakeDelegations = [s.StakeDelegations EXCEPT ![<<d, v>>] = old - amount]
  BY <1>1 DEF old
<1>6. /\ Entries(r.UnbondingEntries)
      /\ \A a \in Address :
           OwedIn(r)[a] <= OwedIn(s)[a] + (IF a = d THEN amount ELSE 0)
  BY <1>1, <1>4, PutEntryOwed DEF WellFormed, OwedIn
<1>7. /\ r.UnbondingBalance \in [Address -> Nat] /\ r.Nonce \in [Address -> Nat]
      /\ r.Validators \in [Address -> ValidatorInfo]
      /\ r.StakeDelegations \in [Pair -> Nat]
  BY <1>1, <1>2, <1>3, <1>5, Fields, SMTT(30) DEF Amounts
<1>8. r \in State
  BY <1>1, <1>6, <1>7, Fields DEF undelegated, WellFormed, State, Pair, Entries
<1>9. \A u \in Address :
        r.Validators[u].Status = s.Validators[u].Status
        /\ r.Validators[u].OperatorAddress = s.Validators[u].OperatorAddress
        /\ r.Validators[u].Stake = s.Validators[u].Stake
  BY <1>1, <1>3, Fields
<1>10. WellFormed(r)
  BY <1>6, <1>8, <1>9 DEF WellFormed
<1>11. /\ Total(DelegatedTo(r, v)) = Total(DelegatedTo(s, v)) - amount
       /\ Total(DelegatedTo(s, v)) \in Nat /\ amount <= Total(DelegatedTo(s, v))
       /\ \A u \in Address \ {v} : DelegatedTo(r, u) = DelegatedTo(s, u)
       /\ Total(r.StakeDelegations) = Total(s.StakeDelegations) - amount
  <2>1. old - amount \in Nat
    BY <1>2
  <2> DEFINE x == old - amount
  <2>a. r.StakeDelegations = [s.StakeDelegations EXCEPT ![<<d, v>>] = x]
        /\ s.StakeDelegations \in [Pair -> Nat] /\ s.StakeDelegations[<<d, v>>] = old
    BY <1>5, Fields DEF old
  <2> HIDE DEF x
  <2>b. DelegationSet(s, r, d, v, x)
    BY <1>7, <2>1, <2>a, ColumnUpdate DEF x
  <2>2. /\ Total(DelegatedTo(r, v)) = Total(DelegatedTo(s, v)) + (x - old)
        /\ Total(DelegatedTo(s, v)) \in Nat /\ old <= Total(DelegatedTo(s, v))
        /\ \A u \in Address \ {v} : DelegatedTo(r, u) = DelegatedTo(s, u)
        /\ Total(r.StakeDelegations) = Total(s.StakeDelegations) + (x - old)
    BY <2>a, <2>b DEF DelegationSet
  <2>3. Total(s.StakeDelegations) \in Nat
    BY Totals
  <2> QED
    BY <1>2, <2>2, <2>3 DEF x
<1>12. Worth(r) <= Worth(s)
  <2> DEFINE more == [OwedIn(s) EXCEPT ![d] = @ + amount]
  <2>1. OwedIn(r) \in Amounts /\ OwedIn(s) \in Amounts
    BY <1>10, Fields
  <2>2. more \in Amounts /\ \A a \in Address : more[a] = OwedIn(s)[a] + (IF a = d THEN amount ELSE 0)
    BY <2>1 DEF Amounts
  <2> HIDE DEF more
  <2>3. Total(OwedIn(r)) <= Total(more)
    BY <1>6, <2>1, <2>2, TotalLess
  <2>4. Total(more) = Total(OwedIn(s)) + (more[d] - OwedIn(s)[d])
    <3>1. \A a \in Address \ {d} : more[a] = OwedIn(s)[a]
      BY <2>1, <2>2 DEF Amounts
    <3> QED
      BY <2>1, <2>2, <3>1, TotalUpdate
  <2>5. more[d] = OwedIn(s)[d] + amount /\ OwedIn(s)[d] \in Nat
    BY <2>1, <2>2 DEF Amounts
  <2>6. Total(OwedIn(r)) \in Nat /\ Total(OwedIn(s)) \in Nat
    BY <2>1, TotalNat
  <2>7. Total(OwedIn(r)) <= Total(OwedIn(s)) + amount
    BY <2>2, <2>3, <2>4, <2>5, <2>6, TotalNat
  <2> QED
    BY <1>1, <1>10, <1>11, <2>6, <2>7, Totals DEF Worth
<1>13. ASSUME Backed(s), NEW u \in Address \ {Local} PROVE BackedAt(r, u)
  <2>1. BackedAt(s, u)
    BY <1>13 DEF Backed
  <2>2. CASE u = v
    <3>1. s.Validators[v].DelegatedStake = Total(DelegatedTo(s, v))
      BY <2>1, <2>2 DEF BackedAt
    <3>2. r.Validators[v].DelegatedStake = Minus(Total(DelegatedTo(s, v)), amount)
      BY <1>1, <1>3, <3>1, Fields
    <3>3. r.Validators[u].DelegatedStake = Total(DelegatedTo(r, u))
      BY <1>11, <2>2, <3>2, MinusNat
    <3> QED
      BY <1>1, <1>9, <2>1, <3>3 DEF BackedAt
  <2>3. CASE u # v
    <3>1. r.Validators[u] = s.Validators[u] /\ r.LockedStake[u] = s.LockedStake[u]
          /\ DelegatedTo(r, u) = DelegatedTo(s, u)
          /\ (u \in r.ConsensusValidators => u \in s.ConsensusValidators)
      BY <1>1, <1>11, <2>3, Fields
    <3> QED
      BY <2>1, <3>1, BackedSame
  <2> QED
    BY <2>2, <2>3
<1> QED
  BY <1>9, <1>10, <1>12, <1>13 DEF Backed

-----------------------------------------------------------------------------
(***************************************************************************)
(* Slashes                                                                 *)
(***************************************************************************)
SlashOf(s, v) == validatorDoubleVoteSlash(s.LockedStake[v])

ShareOf(s, v, d) ==
  IF s.Validators[v].DelegatedStake = 0 \/ s.LockedStake[v] = 0 THEN 0
  ELSE (s.StakeDelegations[<<d, v>>] * SlashOf(s, v)) \div s.LockedStake[v]

SharesOf(s, v) == [d \in Address |-> ShareOf(s, v, d)]

\* A slash takes no more than there is, of the owner and of each delegator.
LEMMA Shares ==
  ASSUME NEW s, WellFormed(s), NEW v \in Address
  PROVE  /\ SlashOf(s, v) \in Nat /\ SlashOf(s, v) <= s.LockedStake[v]
         /\ \A d \in Address :
              ShareOf(s, v, d) \in Nat /\ ShareOf(s, v, d) <= s.StakeDelegations[<<d, v>>]
         /\ SharesOf(s, v) \in Amounts
         /\ Total(SharesOf(s, v)) \in Nat
<1>1. s.LockedStake[v] \in Nat
  BY Fields DEF Amounts
<1>2. SlashOf(s, v) \in Nat /\ SlashOf(s, v) <= s.LockedStake[v]
  BY <1>1 DEF SlashOf, validatorDoubleVoteSlash
<1>3. ASSUME NEW d \in Address
      PROVE  ShareOf(s, v, d) \in Nat /\ ShareOf(s, v, d) <= s.StakeDelegations[<<d, v>>]
  <2>1. s.StakeDelegations[<<d, v>>] \in Nat
    BY Fields DEF Pair
  <2>2. CASE s.Validators[v].DelegatedStake = 0 \/ s.LockedStake[v] = 0
    BY <2>1, <2>2 DEF ShareOf
  <2>3. CASE ~(s.Validators[v].DelegatedStake = 0 \/ s.LockedStake[v] = 0)
    <3>1. s.LockedStake[v] \in Nat \ {0}
      BY <1>1, <2>3
    <3>2. ShareOf(s, v, d) = (s.StakeDelegations[<<d, v>>] * SlashOf(s, v)) \div s.LockedStake[v]
      BY <2>3 DEF ShareOf
    <3> QED
      BY <1>2, <2>1, <3>1, <3>2, PartOf
  <2> QED
    BY <2>2, <2>3
<1>4. SharesOf(s, v) \in Amounts
  BY <1>3 DEF SharesOf, Amounts
<1> QED
  BY <1>2, <1>3, <1>4, TotalNat

StakeLeft(s, v) == s.LockedStake[v] - SlashOf(s, v)

SlashedInfo(s, v) ==
  [s.Validators[v] EXCEPT
     !.DelegatedStake = Minus(@, Total(SharesOf(s, v))), !.Stake = StakeLeft(s, v),
     !.Status = IF StakeLeft(s, v) = 0 THEN "slashed" ELSE @]

\* What a slash changes.
LEMMA SlashedParts ==
  ASSUME NEW s, WellFormed(s), NEW e \in DoubleVote, NEW r, r = slashed(s, e),
         NEW v, v = resolveOperatorToOwner(s, e.operator), canSlash(s, e)
  PROVE  /\ v \in Address /\ WellFormed(r)
         /\ r.Balance = s.Balance
         /\ r.LockedStake = [s.LockedStake EXCEPT ![v] = StakeLeft(s, v)]
         /\ r.UnbondingEntries = s.UnbondingEntries
         /\ r.PermanentFund = s.PermanentFund + SlashOf(s, v) + Total(SharesOf(s, v))
         /\ r.StakeDelegations =
              [p \in Pair |-> IF p[2] = v THEN s.StakeDelegations[p] - ShareOf(s, v, p[1])
                              ELSE s.StakeDelegations[p]]
         /\ r.Validators = [s.Validators EXCEPT ![v] = SlashedInfo(s, v)]
         /\ r.ConsensusValidators =
              IF StakeLeft(s, v) = 0 THEN s.ConsensusValidators \ {v} ELSE s.ConsensusValidators
<1> DEFINE left   == StakeLeft(s, v)
           shares == Total(SharesOf(s, v))
           info   == SlashedInfo(s, v)
<1>1. v \in Address /\ e.id \in Evidence
  BY OwnerOf DEF DoubleVote
<1>2. /\ shares = SumFunctionOnSet([d \in Address |-> ShareOf(s, v, d)], Address)
      /\ left = s.LockedStake[v] - SlashOf(s, v)
      /\ info = [s.Validators[v] EXCEPT
                   !.DelegatedStake = Minus(@, shares), !.Stake = left,
                   !.Status = IF left = 0 THEN "slashed" ELSE @]
  BY DEF Total, SharesOf, StakeLeft, SlashedInfo
<1> HIDE DEF shares, left, info
<1>3. /\ r.Balance = s.Balance
      /\ r.LockedStake = [s.LockedStake EXCEPT ![v] = left]
      /\ r.PermanentFund = s.PermanentFund + SlashOf(s, v) + shares
      /\ r.StakeDelegations =
           [p \in Pair |-> IF p[2] = v THEN s.StakeDelegations[p] - ShareOf(s, v, p[1])
                           ELSE s.StakeDelegations[p]]
      /\ r.UnbondingBalance =
           [d \in Address |-> IF s.UnbondingBalance[d] >= ShareOf(s, v, d)
                              THEN s.UnbondingBalance[d] - ShareOf(s, v, d)
                              ELSE s.UnbondingBalance[d]]
      /\ r.Nonce = s.Nonce
      /\ r.Validators = [s.Validators EXCEPT ![v] = info]
      /\ r.ConsensusValidators =
           IF left = 0 THEN s.ConsensusValidators \ {v} ELSE s.ConsensusValidators
      /\ r.OperatorMap = s.OperatorMap
      /\ r.UnbondingEntries = s.UnbondingEntries
      /\ r.ValidatorEvidence = s.ValidatorEvidence \cup {e.id}
  BY <1>2, ZenonT(40) DEF slashed, WellFormed, State, ShareOf, SlashOf, Pair
<1>4. /\ SlashOf(s, v) \in Nat /\ SlashOf(s, v) <= s.LockedStake[v] /\ s.LockedStake[v] \in Nat
      /\ shares \in Nat
      /\ \A d \in Address :
           ShareOf(s, v, d) \in Nat /\ ShareOf(s, v, d) <= s.StakeDelegations[<<d, v>>]
  BY <1>1, Shares, Fields DEF shares, Amounts
<1>5. left \in Nat
  BY <1>2, <1>4
<1>6. s.Validators[v] \in ValidatorInfo
  BY <1>1, Fields
<1>7. /\ info \in ValidatorInfo
      /\ info.OperatorAddress = s.Validators[v].OperatorAddress
      /\ s.Validators[v].Status = "active"
  <2>1. Minus(s.Validators[v].DelegatedStake, shares) \in Nat
    BY <1>4, <1>6, MinusNat DEF ValidatorInfo
  <2>2. s.Validators[v].Status = "active"
    BY DEF canSlash
  <2> QED
    BY <1>2, <1>5, <1>6, <2>1, <2>2 DEF ValidatorInfo, Status
<1>8. r.StakeDelegations \in [Pair -> Nat]
  <2>1. ASSUME NEW p \in Pair
        PROVE  (IF p[2] = v THEN s.StakeDelegations[p] - ShareOf(s, v, p[1])
                ELSE s.StakeDelegations[p]) \in Nat
    <3>1. s.StakeDelegations[p] \in Nat /\ p = <<p[1], p[2]>> /\ p[1] \in Address
      BY Fields DEF Pair
    <3>2. CASE p[2] = v
      <4>1. ShareOf(s, v, p[1]) \in Nat /\ ShareOf(s, v, p[1]) <= s.StakeDelegations[p]
        BY <1>4, <3>1, <3>2
      <4> QED
        BY <3>1, <3>2, <4>1
    <3> QED
      BY <3>1, <3>2
  <2> QED
    BY <1>3, <2>1
<1>9. /\ r.LockedStake \in [Address -> Nat]
      /\ r.UnbondingBalance \in [Address -> Nat]
      /\ r.Validators \in [Address -> ValidatorInfo]
      /\ r.ConsensusValidators \in SUBSET Address
      /\ r.PermanentFund \in Nat
      /\ r.ValidatorEvidence \in SUBSET Evidence
  <2>1. \A d \in Address : s.UnbondingBalance[d] \in Nat
    BY Fields DEF Amounts
  <2> DEFINE after(d) == IF s.UnbondingBalance[d] >= ShareOf(s, v, d)
                         THEN s.UnbondingBalance[d] - ShareOf(s, v, d)
                         ELSE s.UnbondingBalance[d]
  <2>u. ASSUME NEW d \in Address PROVE after(d) \in Nat
    <3>1. s.UnbondingBalance[d] \in Nat /\ ShareOf(s, v, d) \in Nat
      BY <1>4, <2>1
    <3> QED
      BY <3>1
  <2>2. r.UnbondingBalance \in [Address -> Nat]
    BY <1>3, <2>u
  <2> QED
    BY <1>1, <1>3, <1>4, <1>5, <1>7, <2>2, Fields DEF Amounts
<1>10. r \in State
  BY <1>3, <1>8, <1>9, Fields DEF slashed, WellFormed, State, Pair
<1>11. \A u \in Address : r.Validators[u].Status # "none" => r.Validators[u].OperatorAddress \in Address
  <2>1. s.Validators[v].OperatorAddress \in Address
    BY <1>1, <1>7 DEF WellFormed
  <2> QED
    BY <1>1, <1>3, <1>7, <2>1, Fields DEF WellFormed
<1>12. WellFormed(r)
  BY <1>3, <1>10, <1>11 DEF WellFormed
<1> QED
  BY <1>1, <1>3, <1>12 DEF left, shares, info

\* What the owner and the delegators lose is what the fund gets.
LEMMA SlashedKept ==
  ASSUME NEW s, WellFormed(s), NEW e \in DoubleVote, NEW r, r = slashed(s, e), canSlash(s, e)
  PROVE  /\ WellFormed(r) /\ Worth(r) <= Worth(s)
         /\ Backed(s) => Backed(r)
         /\ \A u \in Address : s.Validators[u].Status \in {"active", "slashed"} =>
                               r.Validators[u].Status \in {"active", "slashed"}
<1> DEFINE v == resolveOperatorToOwner(s, e.operator)
           slash == SlashOf(s, v)
           left == StakeLeft(s, v)
           share == SharesOf(s, v)
           shares == Total(share)
           info == SlashedInfo(s, v)
<1>1. /\ v \in Address /\ WellFormed(r)
      /\ r.Balance = s.Balance
      /\ r.LockedStake = [s.LockedStake EXCEPT ![v] = left]
      /\ r.UnbondingEntries = s.UnbondingEntries
      /\ r.PermanentFund = s.PermanentFund + slash + shares
      /\ r.StakeDelegations =
           [p \in Pair |-> IF p[2] = v THEN s.StakeDelegations[p] - ShareOf(s, v, p[1])
                           ELSE s.StakeDelegations[p]]
      /\ r.Validators = [s.Validators EXCEPT ![v] = info]
      /\ r.ConsensusValidators =
           IF left = 0 THEN s.ConsensusValidators \ {v} ELSE s.ConsensusValidators
  BY SlashedParts
<1>2. s.Validators[v].Status = "active"
  BY DEF canSlash
<1> HIDE DEF v
<1>3. /\ slash \in Nat /\ slash <= s.LockedStake[v] /\ s.LockedStake[v] \in Nat
      /\ share \in Amounts /\ shares \in Nat /\ left \in Nat
      /\ \A d \in Address : share[d] = ShareOf(s, v, d)
                            /\ share[d] <= s.StakeDelegations[<<d, v>>]
  <2>1. /\ slash \in Nat /\ slash <= s.LockedStake[v] /\ s.LockedStake[v] \in Nat
        /\ share \in Amounts /\ shares \in Nat
        /\ \A d \in Address : ShareOf(s, v, d) <= s.StakeDelegations[<<d, v>>]
    BY <1>1, Shares, Fields DEF Amounts
  <2> QED
    BY <2>1 DEF SharesOf, StakeLeft
<1>s. /\ info = [s.Validators[v] EXCEPT
                   !.DelegatedStake = Minus(@, shares), !.Stake = left,
                   !.Status = IF left = 0 THEN "slashed" ELSE @]
      /\ left = s.LockedStake[v] - slash
  BY DEF SlashedInfo, StakeLeft
<1> HIDE DEF slash, share, shares, left, info
<1>4. Total(s.StakeDelegations) = Total(r.StakeDelegations) + shares
  <2> DEFINE h == Column(share, v)
  <2>1. h \in [Pair -> Nat] /\ Total(h) = shares
    BY <1>1, <1>3, ColumnTotal DEF shares
  <2>2. s.StakeDelegations \in [Pair -> Nat] /\ r.StakeDelegations \in [Pair -> Nat]
    BY <1>1, Fields
  <2>3. ASSUME NEW p \in Pair
        PROVE  s.StakeDelegations[p] = r.StakeDelegations[p] + h[p]
    <3>1. s.StakeDelegations[p] \in Nat /\ p = <<p[1], p[2]>> /\ p[1] \in Address
          /\ share[p[1]] \in Nat
      BY <1>3, <2>2 DEF Pair, Amounts
    <3>2. r.StakeDelegations[p] = IF p[2] = v THEN s.StakeDelegations[p] - ShareOf(s, v, p[1])
                                  ELSE s.StakeDelegations[p]
      BY <1>1
    <3>3. h[p] = IF p[2] = v THEN share[p[1]] ELSE 0
      BY DEF Column
    <3> QED
      BY <1>3, <3>1, <3>2, <3>3
  <2> HIDE DEF h
  <2>4. Total(s.StakeDelegations) = Total(r.StakeDelegations) + Total(h)
    BY <2>1, <2>2, <2>3, DelegationsAdd
  <2> QED
    BY <2>1, <2>4
<1>5. Total(r.LockedStake) = Total(s.LockedStake) - slash
  <2>1. r.LockedStake \in Amounts /\ s.LockedStake \in Amounts
        /\ (\A a \in Address \ {v} : r.LockedStake[a] = s.LockedStake[a]) /\ v \in Address
    BY <1>1, Fields DEF Amounts
  <2>2. Total(r.LockedStake) = Total(s.LockedStake) + (r.LockedStake[v] - s.LockedStake[v])
    BY <2>1, TotalUpdate
  <2>3. r.LockedStake[v] = s.LockedStake[v] - slash
    BY <1>1, <1>s, <2>1 DEF Amounts
  <2> QED
    BY <1>3, <2>2, <2>3, Totals
<1>6. Worth(r) <= Worth(s)
  <2>1. OwedIn(r) = OwedIn(s)
    BY <1>1 DEF OwedIn
  <2> QED
    BY <1>1, <1>3, <1>4, <1>5, <2>1, Totals DEF Worth
<1>7. s.Validators[v] \in ValidatorInfo /\ s.Validators \in [Address -> ValidatorInfo]
  BY <1>1, Fields
<1>8. /\ r.Validators[v].DelegatedStake = Minus(s.Validators[v].DelegatedStake, shares)
      /\ r.Validators[v].Stake = left
      /\ r.Validators[v].Status = IF left = 0 THEN "slashed" ELSE "active"
      /\ \A u \in Address \ {v} : r.Validators[u] = s.Validators[u]
  <2>1. r.Validators[v] = info /\ \A u \in Address \ {v} : r.Validators[u] = s.Validators[u]
    BY <1>1, <1>7
  <2> QED
    BY <1>2, <1>7, <1>s, <2>1 DEF ValidatorInfo
<1>9. ASSUME Backed(s), NEW u \in Address \ {Local} PROVE BackedAt(r, u)
  <2>1. BackedAt(s, u)
    BY <1>9 DEF Backed
  <2>2. CASE u = v
    <3>1. DelegatedTo(s, v) \in Amounts /\ DelegatedTo(r, v) \in Amounts
          /\ \A d \in Address : DelegatedTo(s, v)[d] = DelegatedTo(r, v)[d] + share[d]
      <4>1. s.StakeDelegations \in [Pair -> Nat] /\ r.StakeDelegations \in [Pair -> Nat]
        BY <1>1, Fields
      <4>2. \A d \in Address : <<d, v>> \in Pair /\ <<d, v>>[1] = d /\ <<d, v>>[2] = v
        BY <1>1 DEF Pair
      <4>3. \A d \in Address :
              r.StakeDelegations[<<d, v>>] = s.StakeDelegations[<<d, v>>] - share[d]
        BY <1>1, <1>3, <4>2
      <4> QED
        BY <1>3, <4>1, <4>2, <4>3 DEF DelegatedTo, Amounts
    <3>2. Total(DelegatedTo(s, v)) = Total(DelegatedTo(r, v)) + shares
      BY <1>3, <3>1, TotalAdd DEF shares
    <3>3. Total(DelegatedTo(s, v)) \in Nat /\ Total(DelegatedTo(r, v)) \in Nat
      BY <3>1, TotalNat
    <3>4. r.Validators[v].DelegatedStake = Total(DelegatedTo(r, v))
      <4>1. s.Validators[v].DelegatedStake = Total(DelegatedTo(s, v))
        BY <2>1, <2>2 DEF BackedAt
      <4> QED
        BY <1>3, <1>8, <3>2, <3>3, <4>1, MinusNat
    <3>5. r.LockedStake[v] = left
      BY <1>1, Fields DEF Amounts
    <3>6. v \in r.ConsensusValidators => left # 0
      BY <1>1
    <3> QED
      BY <1>3, <1>8, <2>2, <3>4, <3>5, <3>6 DEF BackedAt
  <2>3. CASE u # v
    <3>1. r.LockedStake[u] = s.LockedStake[u]
          /\ (u \in r.ConsensusValidators => u \in s.ConsensusValidators)
      BY <1>1, <2>3, Fields DEF Amounts
    <3>2. DelegatedTo(r, u) = DelegatedTo(s, u)
      <4>1. \A d \in Address : <<d, u>> \in Pair /\ <<d, u>>[2] = u
        BY DEF Pair
      <4>2. \A d \in Address : r.StakeDelegations[<<d, u>>] = s.StakeDelegations[<<d, u>>]
        BY <1>1, <2>3, <4>1
      <4> QED
        BY <4>2 DEF DelegatedTo
    <3>3. r.Validators[u] = s.Validators[u]
      BY <1>8, <2>3
    <3> QED
      BY <2>1, <3>1, <3>2, <3>3, BackedSame
  <2> QED
    BY <2>2, <2>3
<1>10. \A u \in Address : s.Validators[u].Status \in {"active", "slashed"} =>
                          r.Validators[u].Status \in {"active", "slashed"}
  BY <1>8
<1> QED
  BY <1>1, <1>6, <1>9, <1>10 DEF Backed

-----------------------------------------------------------------------------
(***************************************************************************)
(* Housekeeping                                                            *)
(***************************************************************************)
\* The smaller of two numbers.
LEMMA SmallerOf ==
  ASSUME NEW x \in Nat, NEW y \in Nat
  PROVE  Min({x, y}) \in Nat /\ Min({x, y}) <= x /\ Min({x, y}) <= y
<1>1. \E m \in {x, y} : \A n \in {x, y} : m <= n
  <2>1. CASE x <= y
    BY <2>1
  <2>2. CASE y <= x
    BY <2>2
  <2> QED
    BY <2>1, <2>2
<1>2. Min({x, y}) \in {x, y} /\ \A n \in {x, y} : Min({x, y}) <= n
  BY <1>1 DEF Min
<1> QED
  BY <1>2

Released(s, v) ==
  [delegator |-> v, validator |-> v, kind |-> "self", at |-> now, seq |-> 0,
   amount |-> selfRelease(s, v)]

ReleasedEntries(s) == {Released(s, v) : v \in {u \in Address : selfRelease(s, u) > 0}}

\* An owner on its way out is released no more than it has locked.
LEMMA Releases ==
  ASSUME NEW s, WellFormed(s), now \in Nat
  PROVE  /\ \A v \in Address :
              /\ selfRelease(s, v) \in Nat /\ selfRelease(s, v) <= s.LockedStake[v]
              /\ s.Validators[v].Status # "exiting" => selfRelease(s, v) = 0
              /\ Released(s, v) \in UnbondingEntry
         /\ Entries(ReleasedEntries(s))
<1>1. ASSUME NEW v \in Address
      PROVE  /\ selfRelease(s, v) \in Nat /\ selfRelease(s, v) <= s.LockedStake[v]
             /\ s.Validators[v].Status # "exiting" => selfRelease(s, v) = 0
             /\ Released(s, v) \in UnbondingEntry
  <2>1. s.Validators[v].SelfStake \in Nat /\ s.LockedStake[v] \in Nat
    BY Fields DEF ValidatorInfo, Amounts
  <2>2. /\ selfRelease(s, v) \in Nat /\ selfRelease(s, v) <= s.LockedStake[v]
        /\ s.Validators[v].Status # "exiting" => selfRelease(s, v) = 0
    BY <2>1, SmallerOf DEF selfRelease
  <2> QED
    BY <2>2 DEF Released, UnbondingEntry, EntryKind
<1>2. IsFiniteSet(ReleasedEntries(s))
  <2> DEFINE S == {u \in Address : selfRelease(s, u) > 0}
             f == [u \in S |-> Released(s, u)]
  <2>1. IsFiniteSet(S)
    BY FiniteAddress, FS_Subset
  <2>2. f \in Surjection(S, ReleasedEntries(s))
    BY DEF Surjection, ReleasedEntries
  <2> HIDE DEF S, f
  <2> QED
    BY <2>1, <2>2, FS_Surjection
<1>3. ReleasedEntries(s) \subseteq UnbondingEntry
  BY <1>1 DEF ReleasedEntries
<1> QED
  BY <1>1, <1>2, <1>3 DEF Entries

\* What the exits of a block change.
LEMMA ExitedParts ==
  ASSUME NEW s, WellFormed(s), now \in Nat, NEW r, r = finalizeExitingValidators(s)
  PROVE  /\ WellFormed(r)
         /\ r.Balance = s.Balance
         /\ r.LockedStake = [v \in Address |-> s.LockedStake[v] - selfRelease(s, v)]
         /\ r.UnbondingEntries = s.UnbondingEntries \cup ReleasedEntries(s)
         /\ r.PermanentFund = s.PermanentFund
         /\ r.StakeDelegations = s.StakeDelegations
         /\ r.ConsensusValidators = s.ConsensusValidators
         /\ \A v \in Address :
              /\ r.Validators[v].Status =
                   CASE s.Validators[v].Status = "slashed" -> "exiting"
                     [] s.Validators[v].Status = "exiting" -> "exited"
                     [] OTHER -> s.Validators[v].Status
              /\ r.Validators[v].DelegatedStake = s.Validators[v].DelegatedStake
              /\ r.Validators[v].Stake = s.Validators[v].Stake
              /\ r.Validators[v].OperatorAddress = s.Validators[v].OperatorAddress
<1> DEFINE info(v) ==
      CASE s.Validators[v].Status = "slashed" -> [s.Validators[v] EXCEPT !.Status = "exiting"]
        [] s.Validators[v].Status = "exiting" ->
             [s.Validators[v] EXCEPT !.Status = "exited", !.SelfStake = 0]
        [] OTHER -> s.Validators[v]
<1>1. /\ r.Balance = s.Balance
      /\ r.LockedStake = [v \in Address |-> s.LockedStake[v] - selfRelease(s, v)]
      /\ r.UnbondingBalance = [v \in Address |-> s.UnbondingBalance[v] + selfRelease(s, v)]
      /\ r.Nonce = s.Nonce
      /\ r.Validators = [v \in Address |-> info(v)]
      /\ r.ConsensusValidators = s.ConsensusValidators
      /\ r.OperatorMap = s.OperatorMap
      /\ r.StakeDelegations = s.StakeDelegations
      /\ r.UnbondingEntries = s.UnbondingEntries \cup ReleasedEntries(s)
      /\ r.ValidatorEvidence = s.ValidatorEvidence
      /\ r.PermanentFund = s.PermanentFund
  BY DEF finalizeExitingValidators, WellFormed, State, Released, ReleasedEntries
<1>2. ASSUME NEW v \in Address
      PROVE  /\ info(v) \in ValidatorInfo
             /\ info(v).Status =
                   CASE s.Validators[v].Status = "slashed" -> "exiting"
                     [] s.Validators[v].Status = "exiting" -> "exited"
                     [] OTHER -> s.Validators[v].Status
             /\ info(v).DelegatedStake = s.Validators[v].DelegatedStake
             /\ info(v).Stake = s.Validators[v].Stake
             /\ info(v).OperatorAddress = s.Validators[v].OperatorAddress
  <2>1. s.Validators[v] \in ValidatorInfo
    BY Fields
  <2>2. CASE s.Validators[v].Status = "slashed"
    BY <2>1, <2>2 DEF ValidatorInfo, Status
  <2>3. CASE s.Validators[v].Status = "exiting"
    BY <2>1, <2>3 DEF ValidatorInfo, Status
  <2>4. CASE s.Validators[v].Status \notin {"slashed", "exiting"}
    BY <2>1, <2>4
  <2> QED
    BY <2>2, <2>3, <2>4
<1> HIDE DEF info
<1>3. /\ r.LockedStake \in [Address -> Nat] /\ r.UnbondingBalance \in [Address -> Nat]
      /\ r.Validators \in [Address -> ValidatorInfo]
  <2>1. \A v \in Address : s.LockedStake[v] \in Nat /\ s.UnbondingBalance[v] \in Nat
    BY Fields DEF Amounts
  <2>2. \A v \in Address : selfRelease(s, v) \in Nat /\ selfRelease(s, v) <= s.LockedStake[v]
    BY Releases
  <2> QED
    BY <1>1, <1>2, <2>1, <2>2
<1>4. Entries(r.UnbondingEntries)
  <2>1. Entries(s.UnbondingEntries) /\ Entries(ReleasedEntries(s))
    BY Releases DEF WellFormed
  <2> DEFINE E == s.UnbondingEntries
             F == ReleasedEntries(s)
  <2>2. IsFiniteSet(E) /\ IsFiniteSet(F) /\ E \subseteq UnbondingEntry /\ F \subseteq UnbondingEntry
    BY <2>1 DEF Entries
  <2>3. IsFiniteSet(E \cup F)
    BY <2>2, FS_Union
  <2> QED
    BY <1>1, <2>2, <2>3 DEF Entries
<1>5. r \in State
  BY <1>1, <1>3, <1>4, Fields DEF finalizeExitingValidators, WellFormed, State, Entries
<1>6. \A v \in Address : r.Validators[v].Status # "none" => r.Validators[v].OperatorAddress \in Address
  <2>1. \A v \in Address : r.Validators[v] = info(v)
    BY <1>1
  <2>2. \A v \in Address : info(v).Status # "none" => s.Validators[v].Status # "none"
    BY <1>2
  <2> QED
    BY <1>2, <2>1, <2>2 DEF WellFormed
<1>7. WellFormed(r)
  BY <1>4, <1>5, <1>6 DEF WellFormed
<1>8. \A v \in Address : r.Validators[v] = info(v)
  BY <1>1
<1> QED
  BY <1>1, <1>2, <1>7, <1>8

\* What is released of the locked stake becomes an entry.
LEMMA ExitedKept ==
  ASSUME NEW s, WellFormed(s), now \in Nat, NEW r, r = finalizeExitingValidators(s)
  PROVE  /\ WellFormed(r) /\ Worth(r) <= Worth(s)
         /\ Backed(s) => Backed(r)
         /\ \A u \in Address : s.Validators[u].Status = "active" => r.Validators[u].Status = "active"
<1> DEFINE release == [v \in Address |-> selfRelease(s, v)]
<1>1. /\ WellFormed(r)
      /\ r.Balance = s.Balance
      /\ r.LockedStake = [v \in Address |-> s.LockedStake[v] - selfRelease(s, v)]
      /\ r.UnbondingEntries = s.UnbondingEntries \cup ReleasedEntries(s)
      /\ r.PermanentFund = s.PermanentFund
      /\ r.StakeDelegations = s.StakeDelegations
      /\ r.ConsensusValidators = s.ConsensusValidators
      /\ \A v \in Address :
           /\ r.Validators[v].Status =
                CASE s.Validators[v].Status = "slashed" -> "exiting"
                  [] s.Validators[v].Status = "exiting" -> "exited"
                  [] OTHER -> s.Validators[v].Status
           /\ r.Validators[v].DelegatedStake = s.Validators[v].DelegatedStake
           /\ r.Validators[v].Stake = s.Validators[v].Stake
  BY ExitedParts
<1>2. \A v \in Address :
        /\ selfRelease(s, v) \in Nat /\ selfRelease(s, v) <= s.LockedStake[v]
        /\ s.Validators[v].Status # "exiting" => selfRelease(s, v) = 0
        /\ Released(s, v) \in UnbondingEntry
  BY Releases
<1>3. release \in Amounts /\ \A v \in Address : release[v] = selfRelease(s, v)
  BY <1>2 DEF Amounts
<1> HIDE DEF release
<1>4. s.LockedStake \in Amounts /\ r.LockedStake \in Amounts /\ Entries(s.UnbondingEntries)
      /\ OwedIn(s) \in Amounts /\ OwedIn(r) \in Amounts /\ Entries(r.UnbondingEntries)
  BY <1>1, Fields
<1>5. Total(s.LockedStake) = Total(r.LockedStake) + Total(release)
  <2>1. \A a \in Address : s.LockedStake[a] = r.LockedStake[a] + release[a]
    BY <1>1, <1>2, <1>3, <1>4 DEF Amounts
  <2> QED
    BY <1>3, <1>4, <2>1, TotalAdd
<1>6. Total(OwedIn(r)) <= Total(OwedIn(s)) + Total(release)
  <2> DEFINE more == [a \in Address |-> OwedIn(s)[a] + release[a]]
  <2>1. more \in Amounts /\ \A a \in Address : more[a] = OwedIn(s)[a] + release[a]
    BY <1>3, <1>4 DEF Amounts
  <2> HIDE DEF more
  <2>2. ASSUME NEW a \in Address PROVE OwedIn(r)[a] <= more[a]
    <3>1. Of(r.UnbondingEntries, a) \in SUBSET (Of(s.UnbondingEntries, a) \cup {Released(s, a)})
      BY <1>1 DEF Of, ReleasedEntries, Released
    <3>2. Entries(Of(s.UnbondingEntries, a)) /\ AmountOf(Of(s.UnbondingEntries, a)) \in Nat
      BY <1>4, EntriesOf
    <3>3. Released(s, a).amount = release[a] /\ Released(s, a) \in UnbondingEntry
      BY <1>2, <1>3 DEF Released
    <3>4. /\ Entries(Of(s.UnbondingEntries, a) \cup {Released(s, a)})
          /\ AmountOf(Of(s.UnbondingEntries, a) \cup {Released(s, a)})
               <= AmountOf(Of(s.UnbondingEntries, a)) + release[a]
      BY <3>2, <3>3, AmountMore
    <3>5. AmountOf(Of(r.UnbondingEntries, a))
            <= AmountOf(Of(s.UnbondingEntries, a) \cup {Released(s, a)})
      BY <3>1, <3>4, AmountSubset
    <3>6. AmountOf(Of(s.UnbondingEntries, a) \cup {Released(s, a)}) \in Nat
          /\ AmountOf(Of(r.UnbondingEntries, a)) \in Nat
      BY <1>4, <3>4, AmountNat, EntriesOf
    <3>7. OwedIn(r)[a] = AmountOf(Of(r.UnbondingEntries, a))
          /\ OwedIn(s)[a] = AmountOf(Of(s.UnbondingEntries, a))
      BY DEF OwedIn
    <3>8. release[a] \in Nat
      BY <1>3 DEF Amounts
    <3> QED
      BY <2>1, <3>2, <3>4, <3>5, <3>6, <3>7, <3>8
  <2>3. Total(OwedIn(r)) <= Total(more)
    BY <1>4, <2>1, <2>2, TotalLess
  <2>4. Total(more) = Total(OwedIn(s)) + Total(release)
    BY <1>3, <1>4, <2>1, TotalAdd
  <2> QED
    BY <2>3, <2>4
<1>7. Worth(r) <= Worth(s)
  BY <1>1, <1>3, <1>5, <1>6, Totals, TotalNat DEF Worth
<1>8. ASSUME Backed(s), NEW v \in Address \ {Local} PROVE BackedAt(r, v)
  <2>1. BackedAt(s, v)
    BY <1>8 DEF Backed
  <2>2. DelegatedTo(r, v) = DelegatedTo(s, v)
    BY <1>1 DEF DelegatedTo
  <2>3. s.LockedStake[v] \in Nat
    BY <1>4 DEF Amounts
  <2>4. s.Validators[v].Status # "exiting" => r.LockedStake[v] = s.LockedStake[v]
    BY <1>1, <1>2, <2>3
  <2>5. /\ r.Validators[v].Status \in {"active", "slashed"} =>
             r.Validators[v].Status = s.Validators[v].Status /\ s.Validators[v].Status = "active"
        /\ s.Validators[v].Status = "active" => r.Validators[v].Status = "active"
        /\ r.Validators[v].Status = "none" => s.Validators[v].Status = "none"
    BY <1>1
  <2> QED
    BY <1>1, <2>1, <2>2, <2>4, <2>5 DEF BackedAt
<1> QED
  BY <1>1, <1>7, <1>8 DEF Backed

\* What is paid is the amounts of the entries removed.
LEMMA MaturedKept ==
  ASSUME NEW s, WellFormed(s), NEW r, r = processMaturedUnbondingEntries(s)
  PROVE  /\ WellFormed(r) /\ Worth(r) <= Worth(s)
         /\ Backed(s) => Backed(r)
         /\ r.Validators = s.Validators
<1> DEFINE paid == [a \in Address |-> AmountOf(Of(Matured(s), a))]
<1>1. /\ r.Balance = [a \in Address |-> s.Balance[a] + AmountOf(Of(Matured(s), a))]
      /\ r.LockedStake = s.LockedStake
      /\ r.UnbondingBalance =
           [a \in Address |-> Minus(s.UnbondingBalance[a], AmountOf(Of(Matured(s), a)))]
      /\ r.Nonce = s.Nonce
      /\ r.Validators = s.Validators
      /\ r.ConsensusValidators = s.ConsensusValidators
      /\ r.OperatorMap = s.OperatorMap
      /\ r.StakeDelegations = s.StakeDelegations
      /\ r.UnbondingEntries = s.UnbondingEntries \ Matured(s)
      /\ r.ValidatorEvidence = s.ValidatorEvidence
      /\ r.PermanentFund = s.PermanentFund
  BY DEF processMaturedUnbondingEntries, WellFormed, State, Of
<1>2. Entries(s.UnbondingEntries) /\ Entries(Matured(s)) /\ Entries(r.UnbondingEntries)
  <2>1. Matured(s) \in SUBSET s.UnbondingEntries
        /\ s.UnbondingEntries \ Matured(s) \in SUBSET s.UnbondingEntries
    BY DEF Matured
  <2>2. Entries(s.UnbondingEntries)
    BY DEF WellFormed
  <2> QED
    BY <1>1, <2>1, <2>2, AmountSubset
<1>3. \A a \in Address : AmountOf(Of(Matured(s), a)) \in Nat
  BY <1>2, EntriesOf
<1>4. paid \in Amounts /\ \A a \in Address : paid[a] = AmountOf(Of(Matured(s), a))
  BY <1>3 DEF Amounts
<1> HIDE DEF paid
<1>5. /\ r.Balance \in [Address -> Nat] /\ r.UnbondingBalance \in [Address -> Nat]
  <2>1. \A a \in Address : s.Balance[a] \in Nat /\ s.UnbondingBalance[a] \in Nat
    BY Fields DEF Amounts
  <2>2. \A a \in Address : Minus(s.UnbondingBalance[a], AmountOf(Of(Matured(s), a))) \in Nat
    BY <1>3, <2>1, MinusNat
  <2> QED
    BY <1>1, <1>3, <2>1, <2>2
<1>6. r \in State
  BY <1>1, <1>2, <1>5, Fields DEF processMaturedUnbondingEntries, WellFormed, State, Entries
<1>7. WellFormed(r)
  BY <1>1, <1>2, <1>6 DEF WellFormed
<1>8. Total(r.Balance) = Total(s.Balance) + Total(paid)
  <2>1. r.Balance \in Amounts /\ s.Balance \in Amounts
    BY <1>7, Fields
  <2>2. \A a \in Address : r.Balance[a] = s.Balance[a] + paid[a]
    BY <1>1, <1>4
  <2> QED
    BY <1>4, <2>1, <2>2, TotalAdd
<1>9. Total(OwedIn(s)) = Total(OwedIn(r)) + Total(paid)
  <2>1. OwedIn(r) \in Amounts /\ OwedIn(s) \in Amounts
    BY <1>7, Fields
  <2>2. ASSUME NEW a \in Address PROVE OwedIn(s)[a] = OwedIn(r)[a] + paid[a]
    <3>1. /\ Of(s.UnbondingEntries, a) = Of(r.UnbondingEntries, a) \cup Of(Matured(s), a)
          /\ Of(r.UnbondingEntries, a) \cap Of(Matured(s), a) = {}
      BY <1>1 DEF Of, Matured
    <3>2. Entries(Of(r.UnbondingEntries, a)) /\ Entries(Of(Matured(s), a))
      BY <1>2, EntriesOf
    <3>3. AmountOf(Of(r.UnbondingEntries, a) \cup Of(Matured(s), a))
            = AmountOf(Of(r.UnbondingEntries, a)) + AmountOf(Of(Matured(s), a))
      BY <3>1, <3>2, AmountUnion
    <3>4. OwedIn(s)[a] = AmountOf(Of(s.UnbondingEntries, a))
          /\ OwedIn(r)[a] = AmountOf(Of(r.UnbondingEntries, a))
      BY DEF OwedIn
    <3> QED
      BY <1>4, <3>1, <3>3, <3>4
  <2> QED
    BY <1>4, <2>1, <2>2, TotalAdd
<1>10. Worth(r) <= Worth(s)
  BY <1>1, <1>4, <1>7, <1>8, <1>9, Totals, TotalNat DEF Worth
<1>11. ASSUME Backed(s), NEW v \in Address \ {Local} PROVE BackedAt(r, v)
  <2>1. BackedAt(s, v) /\ DelegatedTo(r, v) = DelegatedTo(s, v)
    BY <1>1, <1>11 DEF Backed, DelegatedTo
  <2> QED
    BY <1>1, <2>1, BackedSame
<1> QED
  BY <1>1, <1>7, <1>10, <1>11 DEF Backed

\* The housekeeping of a block: exits, then payments.
LEMMA HousekeepingKept ==
  ASSUME NEW s, WellFormed(s), now \in Nat, NEW r, r = runBlockHousekeeping(s)
  PROVE  /\ WellFormed(r) /\ Worth(r) <= Worth(s)
         /\ Backed(s) => Backed(r)
         /\ \A u \in Address : s.Validators[u].Status = "active" => r.Validators[u].Status = "active"
<1> DEFINE m == finalizeExitingValidators(s)
<1>1. /\ WellFormed(m) /\ Worth(m) <= Worth(s)
      /\ Backed(s) => Backed(m)
      /\ \A u \in Address : s.Validators[u].Status = "active" => m.Validators[u].Status = "active"
  BY ExitedKept
<1>2. r = processMaturedUnbondingEntries(m)
  BY DEF runBlockHousekeeping
<1> HIDE DEF m
<1>3. /\ WellFormed(r) /\ Worth(r) <= Worth(m)
      /\ Backed(m) => Backed(r)
      /\ r.Validators = m.Validators
  BY <1>1, <1>2, MaturedKept
<1>4. Worth(r) \in Nat /\ Worth(m) \in Nat /\ Worth(s) \in Nat
  BY <1>1, <1>3, Totals DEF Worth
<1> QED
  BY <1>1, <1>3, <1>4

-----------------------------------------------------------------------------
(***************************************************************************)
(* Blocks                                                                  *)
(***************************************************************************)
DoubleVotes == doubleVotes \in SUBSET DoubleVote

\* Worth is a number, so that what no step of a block enlarges the block does not.
LEMMA WorthNat == ASSUME NEW s, WellFormed(s) PROVE Worth(s) \in Nat
  BY Totals DEF Worth

\* Who may register with RegisterValidator may do so with a block.
LEMMA MayRegister ==
  ASSUME NEW s, WellFormed(s), NEW a \in Address, NEW k \in Address, NEW x \in Nat,
         canRegister(s, a, k, x)
  PROVE  canReplayRegister(s, a, k, x)
<1>1. s.Balance[a] \in Nat /\ s.Validators[a].Stake \in Nat
  BY Fields DEF Amounts, ValidatorInfo
<1>2. Minus(x, s.Validators[a].Stake) \in Nat /\ Minus(x, s.Validators[a].Stake) <= x
  BY <1>1, MinusNat
<1> QED
  BY <1>1, <1>2 DEF canRegister, canReplayRegister

\* A registration keeps everything, and makes its owner active.
LEMMA RegisteredKept ==
  ASSUME NEW s, WellFormed(s), NEW a \in Address, NEW k \in Address, NEW x \in Nat,
         canReplayRegister(s, a, k, x), NEW r, r = registered(s, a, k, x)
  PROVE  /\ WellFormed(r) /\ Worth(r) <= Worth(s)
         /\ Backed(s) => Backed(r)
         /\ \A u \in Address : s.Validators[u].Status \in {"active", "slashed"} =>
                               r.Validators[u].Status \in {"active", "slashed"}
<1>1. s.Balance[a] >= Minus(x, s.Validators[a].Stake)
  BY DEF canReplayRegister
<1>r. RegisteredAs(s, a, k, x, registered(s, a, k, x))
  BY <1>1, RegisteredParts
<1>2. WellFormed(r) /\ Worth(r) <= Worth(s)
  BY <1>1, <1>r, RegisteredWorth DEF RegisteredAs
<1>3. Backed(s) => Backed(r)
  BY RegisteredBacked
<1>4. r.Validators = [s.Validators EXCEPT ![a] = RegisteredInfo(s, a, k, x)]
  BY <1>r DEF RegisteredAs
<1>5. ASSUME NEW u \in Address, s.Validators[u].Status \in {"active", "slashed"}
      PROVE  r.Validators[u].Status \in {"active", "slashed"}
  <2>1. s.Validators \in [Address -> ValidatorInfo]
    BY Fields
  <2>2. CASE u = a
    BY <1>4, <2>1, <2>2 DEF ValidatorInfo, RegisteredInfo
  <2>3. CASE u # a
    BY <1>4, <1>5, <2>1, <2>3
  <2> QED
    BY <2>2, <2>3
<1> QED
  BY <1>2, <1>3, <1>5

\* So does whatever one block's transaction does.
LEMMA ReplayedKept ==
  ASSUME NEW s, WellFormed(s), now \in Nat, DoubleVotes, NEW r \in Replayed(s)
  PROVE  /\ WellFormed(r) /\ Worth(r) <= Worth(s)
         /\ Backed(s) => Backed(r)
         /\ \A u \in Address : s.Validators[u].Status \in {"active", "slashed"} =>
                               r.Validators[u].Status \in {"active", "slashed"}
<1>1. CASE r = s
  <2>1. Worth(s) \in Nat
    BY WorthNat
  <2> QED
    BY <1>1, <2>1
<1>2. CASE \E v \in Owner, k \in Address, x \in StakeAmount :
             canReplayRegister(s, v, k, x) /\ r = registered(s, v, k, x)
  <2>1. PICK v \in Owner, k \in Address, x \in StakeAmount :
           canReplayRegister(s, v, k, x) /\ r = registered(s, v, k, x)
    BY <1>2
  <2>2. v \in Address /\ x \in Nat
    BY StakingAssumption
  <2> QED
    BY <2>1, <2>2, RegisteredKept
<1>3. CASE \E d \in Delegator, v \in Owner, x \in StakeAmount :
             canDelegate(s, d, v, x) /\ r = delegated(s, d, v, x)
  <2>1. PICK d \in Delegator, v \in Owner, x \in StakeAmount :
           canDelegate(s, d, v, x) /\ r = delegated(s, d, v, x)
    BY <1>3
  <2>2. d \in Address /\ v \in Address /\ x \in Nat
    BY StakingAssumption
  <2> QED
    BY <2>1, <2>2, DelegatedKept
<1>4. CASE \E d \in Delegator, v \in Owner, x \in StakeAmount :
             canUndelegate(s, d, v, x) /\ r = undelegated(s, d, v, x)
  <2>1. PICK d \in Delegator, v \in Owner, x \in StakeAmount :
           canUndelegate(s, d, v, x) /\ r = undelegated(s, d, v, x)
    BY <1>4
  <2>2. d \in Address /\ v \in Address /\ x \in Nat
    BY StakingAssumption
  <2> QED
    BY <2>1, <2>2, UndelegatedKept
<1>5. CASE \E e \in doubleVotes : canSlash(s, e) /\ r = slashed(s, e)
  <2>1. PICK e \in doubleVotes : canSlash(s, e) /\ r = slashed(s, e)
    BY <1>5
  <2>2. e \in DoubleVote
    BY DEF DoubleVotes
  <2> QED
    BY <2>1, <2>2, SlashedKept
<1>6. \/ r = s
      \/ \E v \in Owner, k \in Address, x \in StakeAmount :
           canReplayRegister(s, v, k, x) /\ r = registered(s, v, k, x)
      \/ \E d \in Delegator, v \in Owner, x \in StakeAmount :
           canDelegate(s, d, v, x) /\ r = delegated(s, d, v, x)
      \/ \E d \in Delegator, v \in Owner, x \in StakeAmount :
           canUndelegate(s, d, v, x) /\ r = undelegated(s, d, v, x)
      \/ \E e \in doubleVotes : canSlash(s, e) /\ r = slashed(s, e)
  BY DEF Replayed
<1> QED
  BY <1>1, <1>2, <1>3, <1>4, <1>5, <1>6

Rewritten(s, v, info) == [s EXCEPT !.Validators[v] = info]

OnlyRecord(s, v, info, r) ==
  /\ WellFormed(r) /\ Worth(r) = Worth(s)
  /\ r.Validators = [s.Validators EXCEPT ![v] = info]
  /\ r.LockedStake = s.LockedStake
  /\ r.ConsensusValidators = s.ConsensusValidators
  /\ \A u \in Address : DelegatedTo(r, u) = DelegatedTo(s, u)

\* A block may write one validator's record again: active, as its producer, or as it
\* was before.  Nothing else of the State changes.
LEMMA RewrittenParts ==
  ASSUME NEW s, WellFormed(s), NEW v \in Address, NEW info \in ValidatorInfo,
         info.Status # "none" => info.OperatorAddress \in Address,
         NEW r, r = Rewritten(s, v, info)
  PROVE  OnlyRecord(s, v, info, r)
<1>1. /\ r.Balance = s.Balance
      /\ r.LockedStake = s.LockedStake
      /\ r.UnbondingBalance = s.UnbondingBalance /\ r.Nonce = s.Nonce
      /\ r.Validators = [s.Validators EXCEPT ![v] = info]
      /\ r.ConsensusValidators = s.ConsensusValidators
      /\ r.OperatorMap = s.OperatorMap
      /\ r.StakeDelegations = s.StakeDelegations
      /\ r.UnbondingEntries = s.UnbondingEntries
      /\ r.ValidatorEvidence = s.ValidatorEvidence
      /\ r.PermanentFund = s.PermanentFund
  BY DEF Rewritten, WellFormed, State
<1>2. r.Validators \in [Address -> ValidatorInfo]
  BY <1>1, Fields
<1>3. r \in State
  BY <1>2 DEF Rewritten, WellFormed, State
<1>4. \A u \in Address : r.Validators[u].Status # "none" => r.Validators[u].OperatorAddress \in Address
  BY <1>1, Fields DEF WellFormed
<1>5. WellFormed(r)
  BY <1>1, <1>3, <1>4 DEF WellFormed
<1>6. Worth(r) = Worth(s)
  BY <1>1 DEF Worth, OwedIn
<1>7. \A u \in Address : DelegatedTo(r, u) = DelegatedTo(s, u)
  BY <1>1 DEF DelegatedTo
<1> QED
  BY <1>1, <1>5, <1>6, <1>7 DEF OnlyRecord

\* The producer of an accepted block is active after it.  Its record has its stake
\* locked even when the block slashed it to nothing.
LEMMA ProducerActive ==
  ASSUME NEW s, WellFormed(s), NEW p \in Address,
         s.Validators[p].Status \in {"active", "slashed"},
         NEW r, r = [s EXCEPT !.Validators[p].Status = "active"]
  PROVE  /\ WellFormed(r) /\ Worth(r) = Worth(s)
         /\ Backed(s) => Backed(r)
<1> DEFINE info == [s.Validators[p] EXCEPT !.Status = "active"]
<1>1. s.Validators[p] \in ValidatorInfo /\ s.Validators[p].OperatorAddress \in Address
  BY Fields DEF WellFormed
<1>2. /\ info \in ValidatorInfo /\ info.Status = "active"
      /\ info.OperatorAddress = s.Validators[p].OperatorAddress
      /\ info.Stake = s.Validators[p].Stake
      /\ info.DelegatedStake = s.Validators[p].DelegatedStake
  BY <1>1 DEF ValidatorInfo, Status
<1>3. r = Rewritten(s, p, info)
  BY DEF Rewritten, WellFormed, State
<1> HIDE DEF info
<1>o. OnlyRecord(s, p, info, r)
  BY <1>1, <1>2, <1>3, RewrittenParts
<1>4. /\ WellFormed(r) /\ Worth(r) = Worth(s)
      /\ r.Validators = [s.Validators EXCEPT ![p] = info]
      /\ r.LockedStake = s.LockedStake
      /\ r.ConsensusValidators = s.ConsensusValidators
      /\ \A u \in Address : DelegatedTo(r, u) = DelegatedTo(s, u)
  BY <1>o DEF OnlyRecord
<1>5. ASSUME Backed(s), NEW u \in Address \ {Local} PROVE BackedAt(r, u)
  <2>1. BackedAt(s, u) /\ DelegatedTo(r, u) = DelegatedTo(s, u)
    BY <1>4, <1>5 DEF Backed
  <2>2. s.Validators \in [Address -> ValidatorInfo]
    BY Fields
  <2>3. CASE u = p
    <3>1. r.Validators[u] = info
      BY <1>4, <2>2, <2>3
    <3> QED
      BY <1>2, <1>4, <2>1, <2>3, <3>1 DEF BackedAt
  <2>4. CASE u # p
    <3>1. r.Validators[u] = s.Validators[u]
      BY <1>4, <2>2, <2>4
    <3> QED
      BY <1>4, <2>1, <3>1, BackedSame
  <2> QED
    BY <2>3, <2>4
<1> QED
  BY <1>4, <1>5 DEF Backed

\* The node's own record, whatever is written there, is not what Backed speaks of.
LEMMA OwnRecordKept ==
  ASSUME NEW s, WellFormed(s), Local \in Address, NEW info \in ValidatorInfo,
         info.Status # "none" => info.OperatorAddress \in Address,
         NEW r, r = Rewritten(s, Local, info)
  PROVE  /\ WellFormed(r) /\ Worth(r) = Worth(s)
         /\ Backed(s) => Backed(r)
<1>o. OnlyRecord(s, Local, info, r)
  BY RewrittenParts
<1>1. /\ WellFormed(r) /\ Worth(r) = Worth(s)
      /\ r.Validators = [s.Validators EXCEPT ![Local] = info]
      /\ r.LockedStake = s.LockedStake
      /\ r.ConsensusValidators = s.ConsensusValidators
      /\ \A u \in Address : DelegatedTo(r, u) = DelegatedTo(s, u)
  BY <1>o DEF OnlyRecord
<1>2. ASSUME Backed(s), NEW u \in Address \ {Local} PROVE BackedAt(r, u)
  <2>1. BackedAt(s, u)
    BY <1>2 DEF Backed
  <2>2. r.Validators[u] = s.Validators[u]
    BY <1>1, Fields
  <2> QED
    BY <1>1, <2>1, <2>2, BackedSame
<1> QED
  BY <1>1, <1>2 DEF Backed

-----------------------------------------------------------------------------
(***************************************************************************)
(* Requests that move no stake                                             *)
(***************************************************************************)
\* Leaving takes the validator from those who may be elected.
LEMMA DeregisterKept ==
  ASSUME WellFormed(st), NEW a \in Address, DeregisterValidator(a)
  PROVE  /\ WellFormed(st') /\ Worth(st') = Worth(st)
         /\ Backed(st) => Backed(st')
<1> DEFINE s == st
           r == st'
           info == [s.Validators[a] EXCEPT !.Status = "exiting"]
<1>1. /\ r.Balance = s.Balance
      /\ r.LockedStake = s.LockedStake
      /\ r.UnbondingBalance = s.UnbondingBalance
      /\ r.Nonce = [s.Nonce EXCEPT ![a] = @ + 1]
      /\ r.Validators = [s.Validators EXCEPT ![a] = info]
      /\ r.ConsensusValidators = s.ConsensusValidators \ {a}
      /\ r.OperatorMap = [s.OperatorMap EXCEPT ![s.Validators[a].OperatorAddress] = None]
      /\ r.StakeDelegations = s.StakeDelegations
      /\ r.UnbondingEntries = s.UnbondingEntries
      /\ r.ValidatorEvidence = s.ValidatorEvidence
      /\ r.PermanentFund = s.PermanentFund
  BY DEF DeregisterValidator, WellFormed, State
<1>2. s.Validators[a] \in ValidatorInfo /\ s.Nonce[a] \in Nat
      /\ s.Validators[a].OperatorAddress \in Address
  BY Fields DEF DeregisterValidator, WellFormed, Amounts
<1>3. /\ info \in ValidatorInfo /\ info.Status = "exiting"
      /\ info.OperatorAddress = s.Validators[a].OperatorAddress
      /\ info.DelegatedStake = s.Validators[a].DelegatedStake
  BY <1>2 DEF ValidatorInfo, Status
<1> HIDE DEF info
<1>4. /\ r.Nonce \in [Address -> Nat] /\ r.Validators \in [Address -> ValidatorInfo]
      /\ r.OperatorMap \in [Address -> Address \cup {None}]
      /\ r.ConsensusValidators \in SUBSET Address
  BY <1>1, <1>2, <1>3, Fields DEF Amounts
<1>5. r \in State
  BY <1>1, <1>4 DEF DeregisterValidator, WellFormed, State
<1>6. \A u \in Address : r.Validators[u].Status # "none" => r.Validators[u].OperatorAddress \in Address
  BY <1>1, <1>2, <1>3, Fields DEF WellFormed
<1>7. WellFormed(r)
  BY <1>1, <1>5, <1>6 DEF WellFormed
<1>8. Worth(r) = Worth(s)
  BY <1>1 DEF Worth, OwedIn
<1>9. ASSUME Backed(s), NEW u \in Address \ {Local} PROVE BackedAt(r, u)
  <2>1. BackedAt(s, u) /\ DelegatedTo(r, u) = DelegatedTo(s, u)
    BY <1>1, <1>9 DEF Backed, DelegatedTo
  <2>2. s.Validators \in [Address -> ValidatorInfo]
    BY Fields
  <2>3. CASE u = a
    <3>1. r.Validators[u] = info /\ u \notin r.ConsensusValidators
      BY <1>1, <2>2, <2>3
    <3> QED
      BY <1>3, <2>1, <2>3, <3>1 DEF BackedAt
  <2>4. CASE u # a
    <3>1. r.Validators[u] = s.Validators[u]
          /\ (u \in r.ConsensusValidators => u \in s.ConsensusValidators)
      BY <1>1, <2>2, <2>4
    <3> QED
      BY <1>1, <2>1, <3>1, BackedSame
  <2> QED
    BY <2>3, <2>4
<1> QED
  BY <1>7, <1>8, <1>9 DEF Backed

\* A new operator key changes nothing else.
LEMMA RotateKept ==
  ASSUME WellFormed(st), NEW a \in Address, RotateOperator(a)
  PROVE  /\ WellFormed(st') /\ Worth(st') = Worth(st)
         /\ Backed(st) => Backed(st')
<1>0. PICK k \in Address :
        st' = [st EXCEPT
         !.Nonce[a] = @ + 1,
         !.OperatorMap = [[@ EXCEPT ![st.Validators[a].OperatorAddress] = None]
                            EXCEPT ![k] = a],
         !.Validators[a].OperatorAddress = k]
  BY DEF RotateOperator
<1> DEFINE s == st
           r == st'
           info == [s.Validators[a] EXCEPT !.OperatorAddress = k]
           map == [s.OperatorMap EXCEPT ![s.Validators[a].OperatorAddress] = None]
<1>1. /\ r.Balance = s.Balance
      /\ r.LockedStake = s.LockedStake
      /\ r.UnbondingBalance = s.UnbondingBalance
      /\ r.Nonce = [s.Nonce EXCEPT ![a] = @ + 1]
      /\ r.Validators = [s.Validators EXCEPT ![a] = info]
      /\ r.ConsensusValidators = s.ConsensusValidators
      /\ r.OperatorMap = [map EXCEPT ![k] = a]
      /\ r.StakeDelegations = s.StakeDelegations
      /\ r.UnbondingEntries = s.UnbondingEntries
      /\ r.ValidatorEvidence = s.ValidatorEvidence
      /\ r.PermanentFund = s.PermanentFund
  BY <1>0 DEF WellFormed, State
<1>2. s.Validators[a] \in ValidatorInfo /\ s.Nonce[a] \in Nat
  BY Fields DEF Amounts
<1>3. /\ info \in ValidatorInfo /\ info.OperatorAddress = k
      /\ info.Status = s.Validators[a].Status /\ info.Stake = s.Validators[a].Stake
      /\ info.DelegatedStake = s.Validators[a].DelegatedStake
  BY <1>2 DEF ValidatorInfo
<1>m. map \in [Address -> Address \cup {None}]
  BY Fields
<1> HIDE DEF info, map
<1>4. /\ r.Nonce \in [Address -> Nat] /\ r.Validators \in [Address -> ValidatorInfo]
      /\ r.OperatorMap \in [Address -> Address \cup {None}]
  BY <1>1, <1>2, <1>3, <1>m, Fields DEF Amounts
<1>5. r \in State
  BY <1>0, <1>1, <1>4 DEF WellFormed, State
<1>6. \A u \in Address : r.Validators[u].Status # "none" => r.Validators[u].OperatorAddress \in Address
  BY <1>1, <1>3, Fields DEF WellFormed
<1>7. WellFormed(r)
  BY <1>1, <1>5, <1>6 DEF WellFormed
<1>8. Worth(r) = Worth(s)
  BY <1>1 DEF Worth, OwedIn
<1>9. ASSUME Backed(s), NEW u \in Address \ {Local} PROVE BackedAt(r, u)
  <2>1. BackedAt(s, u) /\ DelegatedTo(r, u) = DelegatedTo(s, u)
    BY <1>1, <1>9 DEF Backed, DelegatedTo
  <2>2. /\ r.Validators[u].Status = s.Validators[u].Status
        /\ r.Validators[u].Stake = s.Validators[u].Stake
        /\ r.Validators[u].DelegatedStake = s.Validators[u].DelegatedStake
    BY <1>1, <1>3, Fields
  <2> QED
    BY <1>1, <2>1, <2>2, BackedSame
<1> QED
  BY <1>7, <1>8, <1>9 DEF Backed

-----------------------------------------------------------------------------
(***************************************************************************)
(* The invariants                                                          *)
(***************************************************************************)
Kept(r) == WellFormed(r) /\ Worth(r) <= Worth(st) /\ (Backed(st) => Backed(r))

StakeInv ==
  /\ TypeOK
  /\ WellFormed(st)
  /\ Worth(st) <= Total(GenesisBalance)
  /\ Backed(st)

\* Genesis: all tokens are balances, and nobody is a validator.
LEMMA StakeInit == Init => StakeInv
<1> SUFFICES ASSUME Init PROVE StakeInv
  OBVIOUS
<1>1. /\ st.Balance = GenesisBalance /\ st.LockedStake = Zero /\ st.UnbondingBalance = Zero
      /\ st.Nonce = Zero /\ st.Validators = [a \in Address |-> NoValidator]
      /\ st.ConsensusValidators = {} /\ st.OperatorMap = [a \in Address |-> None]
      /\ st.StakeDelegations = [p \in Address \X Address |-> 0]
      /\ st.UnbondingEntries = {} /\ st.ValidatorEvidence = {} /\ st.PermanentFund = 0
  BY DEF Init
<1>2. Zero \in [Address -> Nat] /\ NoValidator \in ValidatorInfo /\ NoValidator.Status = "none"
      /\ NoValidator.Stake = 0 /\ NoValidator.DelegatedStake = 0
  BY DEF Zero, NoValidator, ValidatorInfo, Status
<1>3. st \in State
  <2>1. GenesisBalance \in [Address -> Nat]
    BY StakingAssumption
  <2>2. [a \in Address |-> NoValidator] \in [Address -> ValidatorInfo]
    BY <1>2
  <2> QED
    BY <1>2, <2>1, <2>2 DEF Init, State
<1>4. WellFormed(st) /\ TypeOK
  <2>1. Entries(st.UnbondingEntries)
    BY <1>1, FS_EmptySet DEF Entries
  <2>2. \A v \in Address : st.Validators[v].Status = "none"
    BY <1>1, <1>2
  <2> QED
    BY <1>3, <2>1, <2>2 DEF WellFormed, TypeOK, Init
<1>5. \A u \in Address : DelegatedTo(st, u) = Zero
  BY <1>1 DEF DelegatedTo, Zero
<1>6. Total(Zero) = 0 /\ Total(st.StakeDelegations) = 0
  <2>1. DOMAIN Zero = Address /\ \A a \in Address : Zero[a] = 0
    BY DEF Zero
  <2>2. DOMAIN st.StakeDelegations = Pair /\ \A p \in Pair : st.StakeDelegations[p] = 0
    BY <1>1 DEF Pair
  <2> QED
    BY <2>1, <2>2, FiniteAddress, SumZero DEF Total
<1>7. OwedIn(st) = Zero
  <2>1. ASSUME NEW a PROVE AmountOf(Of(st.UnbondingEntries, a)) = 0
    <3>1. Of(st.UnbondingEntries, a) = {}
      BY <1>1 DEF Of
    <3> QED
      BY <3>1, SumEmpty DEF AmountOf
  <2> QED
    BY <2>1 DEF OwedIn, Zero
<1>8. Worth(st) <= Total(GenesisBalance)
  <2>1. Total(GenesisBalance) \in Nat
    BY StakingAssumption, TotalNat DEF Amounts
  <2> QED
    BY <1>1, <1>6, <1>7, <2>1 DEF Worth
<1>9. Backed(st)
  <2> SUFFICES ASSUME NEW v \in Address \ {Local} PROVE BackedAt(st, v)
    BY DEF Backed
  <2>1. st.Validators[v] = NoValidator
    BY <1>1
  <2> QED
    BY <1>1, <1>2, <1>5, <1>6, <2>1 DEF BackedAt
<1> QED
  BY <1>4, <1>8, <1>9 DEF StakeInv

\* Every request and every block keeps the State in order.
LEMMA StateStep ==
  ASSUME StakeInv, Next, st' # st
  PROVE  Kept(st')
<1>1. WellFormed(st) /\ now \in Nat /\ DoubleVotes /\ Worth(st) \in Nat
  BY WorthNat DEF StakeInv, TypeOK, DoubleVotes
<1>2. Owner \subseteq Address /\ Delegator \subseteq Address /\ StakeAmount \subseteq Nat
  BY StakingAssumption
<1>3. ASSUME NEW a \in Owner, RegisterValidator(a) PROVE Kept(st')
  <2>1. PICK k \in Address, x \in StakeAmount :
           canRegister(st, a, k, x) /\ st' = registered(st, a, k, x)
    BY <1>3 DEF RegisterValidator
  <2>2. canReplayRegister(st, a, k, x) /\ a \in Address /\ x \in Nat
    BY <1>1, <1>2, <2>1, MayRegister
  <2> QED
    BY <1>1, <2>1, <2>2, RegisteredKept DEF Kept
<1>4. ASSUME NEW a \in Owner, DeregisterValidator(a) PROVE Kept(st')
  BY <1>1, <1>2, <1>4, DeregisterKept DEF Kept
<1>5. ASSUME NEW a \in Owner, RotateOperator(a) PROVE Kept(st')
  BY <1>1, <1>2, <1>5, RotateKept DEF Kept
<1>6. ASSUME NEW a \in Owner, AcceptBlock(a) PROVE Kept(st')
  <2> DEFINE h == runBlockHousekeeping(st)
  <2>1. PICK s \in Replayed(h) : st' = [s EXCEPT !.Validators[a].Status = "active"]
    BY <1>6 DEF AcceptBlock
  <2>2. st.Validators[a].Status = "active" /\ a \in Address
    BY <1>2, <1>6 DEF AcceptBlock, consensusValidators
  <2>3. /\ WellFormed(h) /\ Worth(h) <= Worth(st) /\ (Backed(st) => Backed(h))
        /\ h.Validators[a].Status = "active"
    BY <1>1, <2>2, HousekeepingKept
  <2> HIDE DEF h
  <2>4. /\ WellFormed(s) /\ Worth(s) <= Worth(h) /\ (Backed(h) => Backed(s))
        /\ s.Validators[a].Status \in {"active", "slashed"}
    BY <1>1, <2>2, <2>3, ReplayedKept
  <2>5. /\ WellFormed(st') /\ Worth(st') = Worth(s) /\ (Backed(s) => Backed(st'))
    BY <2>1, <2>2, <2>4, ProducerActive
  <2>6. Worth(s) \in Nat /\ Worth(h) \in Nat
    BY <2>3, <2>4, WorthNat
  <2> QED
    BY <1>1, <2>3, <2>4, <2>5, <2>6 DEF Kept
<1>7. ASSUME NEW a \in Owner, AcceptFirstBlock(a) PROVE Kept(st')
  <2> DEFINE h == runBlockHousekeeping(st)
  <2>1. PICK x \in StakeAmount : canReplayRegister(h, a, a, x) /\ st' = registered(h, a, a, x)
    BY <1>7 DEF AcceptFirstBlock
  <2>2. a \in Address /\ x \in Nat
    BY <1>2
  <2>3. WellFormed(h) /\ Worth(h) <= Worth(st) /\ (Backed(st) => Backed(h))
    BY <1>1, HousekeepingKept
  <2> HIDE DEF h
  <2>4. WellFormed(st') /\ Worth(st') <= Worth(h) /\ (Backed(h) => Backed(st'))
    BY <2>1, <2>2, <2>3, RegisteredKept
  <2>5. Worth(st') \in Nat /\ Worth(h) \in Nat
    BY <2>3, <2>4, WorthNat
  <2> QED
    BY <1>1, <2>3, <2>4, <2>5 DEF Kept
<1>8. ASSUME NEW a \in Delegator, DelegateStake(a) PROVE Kept(st')
  <2>1. PICK v \in Owner, x \in StakeAmount :
           canDelegate(st, a, v, x) /\ st' = delegated(st, a, v, x)
    BY <1>8 DEF DelegateStake
  <2>2. a \in Address /\ v \in Address /\ x \in Nat
    BY <1>2
  <2> QED
    BY <1>1, <2>1, <2>2, DelegatedKept DEF Kept
<1>9. ASSUME NEW a \in Delegator, UndelegateStake(a) PROVE Kept(st')
  <2>1. PICK v \in Owner, x \in StakeAmount :
           canUndelegate(st, a, v, x) /\ st' = undelegated(st, a, v, x)
    BY <1>9 DEF UndelegateStake
  <2>2. a \in Address /\ v \in Address /\ x \in Nat
    BY <1>2
  <2> QED
    BY <1>1, <2>1, <2>2, UndelegatedKept DEF Kept
<1>10. ASSUME SubmitValidatorEvidence PROVE Kept(st')
  <2>1. PICK e \in doubleVotes : canSlash(st, e) /\ st' = slashed(st, e)
    BY <1>10 DEF SubmitValidatorEvidence
  <2>2. e \in DoubleVote
    BY <1>1 DEF DoubleVotes
  <2> QED
    BY <1>1, <2>1, <2>2, SlashedKept DEF Kept
<1>11. ASSUME ProduceBlock PROVE Kept(st')
  <2> DEFINE h == runBlockHousekeeping(st)
             info == st.Validators[Local]
  <2>1. PICK s \in Replayed(h) : st' = [s EXCEPT !.Validators[Local] = info]
    BY <1>11 DEF ProduceBlock
  <2>2. Local \in Address /\ info \in ValidatorInfo
        /\ (info.Status # "none" => info.OperatorAddress \in Address)
    <3>1. Local \in Address
      BY <1>1, <1>11, Fields DEF ProduceBlock, consensusValidators
    <3> QED
      BY <1>1, <3>1, Fields DEF WellFormed
  <2>3. WellFormed(h) /\ Worth(h) <= Worth(st) /\ (Backed(st) => Backed(h))
    BY <1>1, HousekeepingKept
  <2> HIDE DEF h, info
  <2>4. WellFormed(s) /\ Worth(s) <= Worth(h) /\ (Backed(h) => Backed(s))
    BY <1>1, <2>3, ReplayedKept
  <2>5. WellFormed(st') /\ Worth(st') = Worth(s) /\ (Backed(s) => Backed(st'))
    BY <2>1, <2>2, <2>4, OwnRecordKept DEF Rewritten
  <2>6. Worth(s) \in Nat /\ Worth(h) \in Nat
    BY <2>3, <2>4, WorthNat
  <2> QED
    BY <1>1, <2>3, <2>4, <2>5, <2>6 DEF Kept
<1>12. (\A a \in Owner : ~SignTwice(a)) /\ ~Tick
  BY Zenon DEF SignTwice, Tick
<1> QED
  BY <1>3, <1>4, <1>5, <1>6, <1>7, <1>8, <1>9, <1>10, <1>11, <1>12 DEF Next, OwnerStep

\* Double votes name an operator, the clock is a number.
LEMMA OthersTyped ==
  ASSUME StakeInv, Next
  PROVE  doubleVotes' \in SUBSET DoubleVote /\ now' \in Nat
<1>1. WellFormed(st) /\ now \in Nat /\ doubleVotes \in SUBSET DoubleVote /\ Owner \subseteq Address
  BY StakingAssumption DEF StakeInv, TypeOK
<1>2. ASSUME NEW a \in Owner, SignTwice(a)
      PROVE  doubleVotes' \in SUBSET DoubleVote /\ now' \in Nat
  <2> DEFINE v == st.Validators[a]
  <2>1. PICK e \in Evidence :
          /\ v.Status = "active"
          /\ doubleVotes' = doubleVotes \cup
               {[id |-> e, operator |-> v.OperatorAddress, power |-> validatorPower(v)]}
          /\ UNCHANGED <<st, now>>
    BY <1>2 DEF SignTwice
  <2>2. v \in ValidatorInfo /\ v.OperatorAddress \in Address
    BY <1>1, <2>1, Fields DEF WellFormed
  <2>3. validatorPower(v) \in Nat
    BY <2>2 DEF validatorPower, ValidatorInfo
  <2> HIDE DEF v
  <2> QED
    BY <1>1, <2>1, <2>2, <2>3 DEF DoubleVote
<1>3. ASSUME Tick PROVE doubleVotes' \in SUBSET DoubleVote /\ now' \in Nat
  BY <1>1, <1>3 DEF Tick
<1>4. ASSUME UNCHANGED <<doubleVotes, now>>
      PROVE  doubleVotes' \in SUBSET DoubleVote /\ now' \in Nat
  BY <1>1, <1>4
<1> QED
  BY <1>2, <1>3, <1>4
     DEF Next, OwnerStep, RegisterValidator, DeregisterValidator, RotateOperator, AcceptBlock,
         AcceptFirstBlock, DelegateStake, UndelegateStake, SubmitValidatorEvidence, ProduceBlock

\* Every step keeps the invariant.
LEMMA StakeStep ==
  ASSUME StakeInv, [Next]_vars
  PROVE  StakeInv'
<1>1. CASE UNCHANGED vars
  BY <1>1 DEF vars, StakeInv, TypeOK, WellFormed, Worth, OwedIn, Backed, BackedAt, DelegatedTo
<1>2. CASE Next /\ st' = st
  <2>1. doubleVotes' \in SUBSET DoubleVote /\ now' \in Nat
    BY <1>2, OthersTyped
  <2>2. WellFormed(st)' /\ Worth(st)' = Worth(st) /\ Backed(st)'
    BY <1>2 DEF StakeInv, WellFormed, Worth, OwedIn, Backed, BackedAt, DelegatedTo
  <2> QED
    BY <1>2, <2>1, <2>2 DEF StakeInv, TypeOK
<1>3. CASE Next /\ st' # st
  <2>1. doubleVotes' \in SUBSET DoubleVote /\ now' \in Nat
    BY <1>3, OthersTyped
  <2>2. Kept(st')
    BY <1>3, StateStep
  <2>3. Worth(st') \in Nat /\ Worth(st) \in Nat /\ Total(GenesisBalance) \in Nat
    <3>1. GenesisBalance \in Amounts
      BY StakingAssumption DEF Amounts
    <3> QED
      BY <2>2, <3>1, WorthNat, TotalNat DEF Kept, StakeInv
  <2>4. st' \in State /\ Worth(st') <= Total(GenesisBalance)
    BY <2>2, <2>3 DEF Kept, StakeInv, WellFormed
  <2> QED
    BY <2>1, <2>2, <2>4 DEF StakeInv, TypeOK, Kept
<1> QED
  BY <1>1, <1>2, <1>3

\* The invariant contains the two properties.
LEMMA StakeImplies == StakeInv => NoMinting /\ VotingPowerBacked
<1> SUFFICES ASSUME StakeInv PROVE NoMinting /\ VotingPowerBacked
  OBVIOUS
<1>1. [a \in Address |-> Owed(a)] = OwedIn(st)
  BY DEF Owed, OwedIn, Of
<1>2. NoMinting
  BY <1>1 DEF StakeInv, NoMinting, Worth
<1>3. \A v \in Address \ {Local} : BackedAt(st, v)
  BY DEF StakeInv, Backed
<1>4. DelegatedStakeMatches
  BY <1>3 DEF DelegatedStakeMatches, BackedAt, DelegatedTo
<1>5. ElectableHasStake
  <2>1. st.ConsensusValidators \subseteq Address
    BY Fields DEF StakeInv
  <2> QED
    BY <1>3, <2>1 DEF ElectableHasStake, BackedAt
<1> QED
  BY <1>2, <1>4, <1>5 DEF VotingPowerBacked

\* No sequence of registrations, delegations, slashes, exits and blocks makes a token:
\* what accounts, delegations, entries and the fund hold never exceeds genesis.
THEOREM StakingNoMinting == Spec => []NoMinting
<1>1. Init => StakeInv
  BY StakeInit
<1>2. StakeInv /\ [Next]_vars => StakeInv'
  BY StakeStep
<1>3. StakeInv => NoMinting
  BY StakeImplies
<1> QED
  BY <1>1, <1>2, <1>3, PTL DEF Spec

\* What counts as delegated voting power is what delegators have in, and who may be
\* elected is active with stake at risk: after any slash, exit or re-registration.
THEOREM StakingPowerBacked == Spec => []VotingPowerBacked
<1>1. Init => StakeInv
  BY StakeInit
<1>2. StakeInv /\ [Next]_vars => StakeInv'
  BY StakeStep
<1>3. StakeInv => VotingPowerBacked
  BY StakeImplies
<1> QED
  BY <1>1, <1>2, <1>3, PTL DEF Spec

-----------------------------------------------------------------------------
(***************************************************************************)
(* Miners: what a State is worth with stake that moves                     *)
(***************************************************************************)
\* r is s with x more locked by a.
Locks(r, s, a, x) == r = [s EXCEPT !.Balance[a] = @ - x, !.LockedStake[a] = @ + x]

\* Tokens an account locks stay in the State.
LEMMA StakeMoved ==
  ASSUME NEW s, WellFormed(s), NEW a \in Address, NEW x \in Nat, x <= s.Balance[a],
         NEW r, Locks(r, s, a, x)
  PROVE  /\ WellFormed(r) /\ Worth(r) = Worth(s)
         /\ r.Validators = s.Validators /\ r.LockedStake[a] = s.LockedStake[a] + x
<1> DEFINE b == [s.Balance EXCEPT ![a] = @ - x]
           l == [s.LockedStake EXCEPT ![a] = @ + x]
<1>1. r = [s EXCEPT !.Balance = b, !.LockedStake = l]
  BY DEF Locks, WellFormed, State
<1>2. s.Balance \in Amounts /\ s.LockedStake \in Amounts
  BY Fields
<1>3. /\ b \in Amounts /\ b[a] = s.Balance[a] - x /\ \A c \in Address \ {a} : b[c] = s.Balance[c]
      /\ l \in Amounts /\ l[a] = s.LockedStake[a] + x
      /\ \A c \in Address \ {a} : l[c] = s.LockedStake[c]
  BY <1>2 DEF Amounts
<1> HIDE DEF b, l
<1>4. /\ r.Balance = b /\ r.LockedStake = l /\ r.Validators = s.Validators
      /\ r.StakeDelegations = s.StakeDelegations /\ r.UnbondingEntries = s.UnbondingEntries
      /\ r.PermanentFund = s.PermanentFund
  BY <1>1 DEF WellFormed, State
<1>5. r \in State
  BY <1>1, <1>3 DEF WellFormed, State, Amounts
<1>6. WellFormed(r)
  BY <1>4, <1>5 DEF WellFormed
<1>7. Total(b) = Total(s.Balance) + (b[a] - s.Balance[a])
  BY <1>2, <1>3, TotalUpdate
<1>8. Total(l) = Total(s.LockedStake) + (l[a] - s.LockedStake[a])
  BY <1>2, <1>3, TotalUpdate
<1>9. OwedIn(r) = OwedIn(s)
  BY <1>4 DEF OwedIn
<1>10. s.Balance[a] \in Nat /\ s.LockedStake[a] \in Nat
  BY <1>2 DEF Amounts
<1>11. Worth(r) = Worth(s)
  BY <1>3, <1>4, <1>7, <1>8, <1>9, <1>10, Totals DEF Worth
<1> QED
  BY <1>3, <1>4, <1>6, <1>11

\* A bonus that is released becomes balance.
LEMMA BalanceCredited ==
  ASSUME NEW s, WellFormed(s), NEW a \in Address, NEW x \in Nat,
         NEW r, r = [s EXCEPT !.Balance[a] = @ + x]
  PROVE  WellFormed(r) /\ Worth(r) = Worth(s) + x
<1> DEFINE b == [s.Balance EXCEPT ![a] = @ + x]
<1>1. r = [s EXCEPT !.Balance = b]
  BY DEF WellFormed, State
<1>2. s.Balance \in Amounts
  BY Fields
<1>3. b \in Amounts /\ b[a] = s.Balance[a] + x /\ \A c \in Address \ {a} : b[c] = s.Balance[c]
  BY <1>2 DEF Amounts
<1> HIDE DEF b
<1>4. /\ r.Balance = b /\ r.LockedStake = s.LockedStake /\ r.Validators = s.Validators
      /\ r.StakeDelegations = s.StakeDelegations /\ r.UnbondingEntries = s.UnbondingEntries
      /\ r.PermanentFund = s.PermanentFund
  BY <1>1 DEF WellFormed, State
<1>5. r \in State
  BY <1>1, <1>3 DEF WellFormed, State, Amounts
<1>6. WellFormed(r)
  BY <1>4, <1>5 DEF WellFormed
<1>7. Total(b) = Total(s.Balance) + (b[a] - s.Balance[a])
  BY <1>2, <1>3, TotalUpdate
<1>8. OwedIn(r) = OwedIn(s)
  BY <1>4 DEF OwedIn
<1>9. s.Balance[a] \in Nat
  BY <1>2 DEF Amounts
<1>10. Worth(r) = Worth(s) + x
  BY <1>3, <1>4, <1>7, <1>8, <1>9, Totals DEF Worth
<1> QED
  BY <1>6, <1>10

\* r is s with x of what a has locked in the entry e.
Unbonds(r, s, a, x, e) ==
  r = [s EXCEPT !.LockedStake[a] = @ - x, !.UnbondingBalance[a] = @ + x,
                !.UnbondingEntries = PutEntry(@, e)]

\* Stake that a smaller capacity sets free becomes an entry.
LEMMA StakeUnbonded ==
  ASSUME NEW s, WellFormed(s), NEW a \in Address, NEW x \in Nat, x <= s.LockedStake[a],
         NEW e \in UnbondingEntry, e.delegator = a, e.amount = x,
         NEW r, Unbonds(r, s, a, x, e)
  PROVE  WellFormed(r) /\ Worth(r) <= Worth(s)
<1> DEFINE l == [s.LockedStake EXCEPT ![a] = @ - x]
           u == [s.UnbondingBalance EXCEPT ![a] = @ + x]
           E == PutEntry(s.UnbondingEntries, e)
<1>1. r = [s EXCEPT !.LockedStake = l, !.UnbondingBalance = u, !.UnbondingEntries = E]
  BY DEF Unbonds, WellFormed, State
<1>2. s.LockedStake \in Amounts /\ s.UnbondingBalance \in Amounts /\ Entries(s.UnbondingEntries)
      /\ OwedIn(s) \in Amounts
  BY Fields
<1>3. /\ l \in Amounts /\ l[a] = s.LockedStake[a] - x
      /\ \A c \in Address \ {a} : l[c] = s.LockedStake[c]
      /\ u \in Amounts
  BY <1>2 DEF Amounts
<1>4. /\ Entries(E)
      /\ \A c \in Address :
           AmountOf(Of(E, c)) <= AmountOf(Of(s.UnbondingEntries, c)) + (IF c = a THEN x ELSE 0)
  BY <1>2, PutEntryOwed
<1> HIDE DEF l, u, E
<1>5. /\ r.Balance = s.Balance /\ r.LockedStake = l /\ r.Validators = s.Validators
      /\ r.StakeDelegations = s.StakeDelegations /\ r.UnbondingEntries = E
      /\ r.PermanentFund = s.PermanentFund
  BY <1>1 DEF WellFormed, State
<1>6. r \in State
  <2>1. l \in [Address -> Nat] /\ u \in [Address -> Nat] /\ E \in SUBSET UnbondingEntry
    BY <1>3, <1>4 DEF Amounts, Entries
  <2> QED
    BY <1>1, <2>1 DEF WellFormed, State
<1>7. WellFormed(r)
  BY <1>4, <1>5, <1>6 DEF WellFormed
<1>8. Total(l) = Total(s.LockedStake) + (l[a] - s.LockedStake[a])
  BY <1>2, <1>3, TotalUpdate
<1>9. Total(OwedIn(r)) <= Total(OwedIn(s)) + x
  <2> DEFINE more == [OwedIn(s) EXCEPT ![a] = @ + x]
  <2>1. /\ more \in Amounts /\ more[a] = OwedIn(s)[a] + x
        /\ \A c \in Address \ {a} : more[c] = OwedIn(s)[c]
    BY <1>2 DEF Amounts
  <2> HIDE DEF more
  <2>2. OwedIn(r) \in Amounts
    BY <1>7, Fields
  <2>3. \A c \in Address : OwedIn(r)[c] = AmountOf(Of(E, c))
                           /\ OwedIn(s)[c] = AmountOf(Of(s.UnbondingEntries, c))
    BY <1>5 DEF OwedIn
  <2>4. \A c \in Address : OwedIn(r)[c] <= more[c]
    <3> SUFFICES ASSUME NEW c \in Address PROVE OwedIn(r)[c] <= more[c]
      OBVIOUS
    <3>1. OwedIn(r)[c] <= OwedIn(s)[c] + (IF c = a THEN x ELSE 0)
      BY <1>4, <2>3
    <3>2. OwedIn(s)[c] \in Nat
      BY <1>2 DEF Amounts
    <3> QED
      BY <2>1, <3>1, <3>2
  <2>5. Total(OwedIn(r)) <= Total(more)
    BY <2>1, <2>2, <2>4, TotalLess
  <2>6. Total(more) = Total(OwedIn(s)) + (more[a] - OwedIn(s)[a])
    BY <1>2, <2>1, TotalUpdate
  <2>7. OwedIn(s)[a] \in Nat /\ Total(OwedIn(s)) \in Nat
    BY <1>2, TotalNat DEF Amounts
  <2> QED
    BY <2>1, <2>5, <2>6, <2>7
<1>10. s.LockedStake[a] \in Nat
  BY <1>2 DEF Amounts
<1>11. Worth(r) <= Worth(s)
  BY <1>3, <1>5, <1>7, <1>8, <1>9, <1>10, Totals DEF Worth
<1> QED
  BY <1>7, <1>11

-----------------------------------------------------------------------------
(***************************************************************************)
(* Bonuses and their places                                                *)
(***************************************************************************)
Holders(m) == {a \in Miner : m.LockedBonus[a] > 0 \/ m.Miners[a].BonusReleased}

\* What the pool and the locked bonuses hold.
BonusWorth(m) == Total(m.LockedBonus) + m.StorageRemaining

\* Every holder of a bonus has a place of its own.  A miner whose bonus was paid
\* has none locked, so that its place is never given up with another.
BonusKept(m) ==
  /\ m \in MiningState
  /\ \A a \in Address : m.Miners[a].BonusReleased => m.LockedBonus[a] = 0
  /\ Cardinality(Holders(m)) <= m.BonusGrantedCount
  /\ m.BonusGrantedCount <= MaxBonusAddresses

\* There are finitely many miners.
LEMMA FiniteMiners ==
  /\ Miner \subseteq Address /\ IsFiniteSet(Miner)
  /\ \A S \in SUBSET Miner : IsFiniteSet(S) /\ Cardinality(S) \in Nat
<1>1. Miner \subseteq Address
  BY MiningAssumption
<1>2. IsFiniteSet(Miner)
  BY <1>1, FiniteAddress, FS_Subset
<1>3. \A S \in SUBSET Miner : IsFiniteSet(S)
  BY <1>2, FS_Subset
<1> QED
  BY <1>1, <1>2, <1>3, FS_CardinalityType

\* The parts of a state of the miners.
LEMMA MiningFields ==
  ASSUME NEW m, BonusKept(m)
  PROVE  /\ m.Miners \in [Address -> MinerStats] /\ m.LockedBonus \in Amounts
         /\ m.StorageRemaining \in Nat /\ m.BonusGrantedCount \in Nat
         /\ m.shards \in SUBSET Address /\ m.deadline \in Time
         /\ m.challenged \in SUBSET Address /\ m.epochs \in Nat
         /\ Total(m.LockedBonus) \in Nat /\ BonusWorth(m) \in Nat
         /\ Holders(m) \in SUBSET Miner /\ Cardinality(Holders(m)) \in Nat
<1>1. /\ m.Miners \in [Address -> MinerStats] /\ m.LockedBonus \in Amounts
      /\ m.StorageRemaining \in Nat /\ m.BonusGrantedCount \in Nat
      /\ m.shards \in SUBSET Address /\ m.deadline \in Time
      /\ m.challenged \in SUBSET Address /\ m.epochs \in Nat
  BY DEF BonusKept, MiningState, Amounts
<1>2. Total(m.LockedBonus) \in Nat
  BY <1>1, TotalNat
<1>3. Holders(m) \in SUBSET Miner
  BY DEF Holders
<1> QED
  BY <1>1, <1>2, <1>3, FiniteMiners DEF BonusWorth

\* A miner's record may change in anything but whether its bonus was paid.
LEMMA RecordsChanged ==
  ASSUME NEW m, BonusKept(m), NEW n \in MiningState,
         n.LockedBonus = m.LockedBonus, n.BonusGrantedCount = m.BonusGrantedCount,
         n.StorageRemaining = m.StorageRemaining,
         \A a \in Address : n.Miners[a].BonusReleased = m.Miners[a].BonusReleased
  PROVE  BonusKept(n) /\ BonusWorth(n) = BonusWorth(m)
<1>1. Holders(n) = Holders(m)
  BY FiniteMiners DEF Holders
<1> QED
  BY <1>1 DEF BonusKept, BonusWorth

\* The pool's count of bonuses goes up with the bonus it pays.
LEMMA Granting ==
  ASSUME NEW m, BonusKept(m)
  PROVE  /\ granted(m) \in MiningState
         /\ granted(m).LockedBonus = m.LockedBonus /\ granted(m).Miners = m.Miners
         /\ granted(m).shards = m.shards /\ granted(m).challenged = m.challenged
         /\ granted(m).deadline = m.deadline /\ granted(m).epochs = m.epochs
         /\ BonusOf(m) \in Nat
         /\ granted(m).StorageRemaining + BonusOf(m) = m.StorageRemaining
         /\ BonusOf(m) = 0 => granted(m) = m
         /\ BonusOf(m) > 0 => /\ granted(m).BonusGrantedCount = m.BonusGrantedCount + 1
                              /\ granted(m).BonusGrantedCount <= MaxBonusAddresses
<1>0. RegistrationBonusAmount \in Nat \ {0} /\ MaxBonusAddresses \in Nat
  BY MiningAssumption
<1>1. m \in MiningState /\ m.StorageRemaining \in Nat /\ m.BonusGrantedCount \in Nat
  BY MiningFields DEF BonusKept
<1>2. CASE BonusAvailable(m)
  <2> DEFINE x == m.StorageRemaining - RegistrationBonusAmount
             k == m.BonusGrantedCount + 1
  <2>1. /\ x \in Nat /\ k \in Nat /\ k <= MaxBonusAddresses
        /\ x + RegistrationBonusAmount = m.StorageRemaining
    BY <1>0, <1>1, <1>2 DEF BonusAvailable
  <2>2. granted(m) = [m EXCEPT !.StorageRemaining = x, !.BonusGrantedCount = k]
        /\ BonusOf(m) = RegistrationBonusAmount
    BY <1>1, <1>2 DEF granted, BonusOf, MiningState
  <2>3. k = m.BonusGrantedCount + 1
    OBVIOUS
  <2> HIDE DEF x, k
  <2> QED
    BY <1>0, <1>1, <2>1, <2>2, <2>3 DEF MiningState
<1>3. CASE ~BonusAvailable(m)
  BY <1>1, <1>3 DEF granted, BonusOf
<1> QED
  BY <1>2, <1>3

\* n is m after a has been given the record info and a bonus of x.
HoldsMore(n, m, a, x, info) ==
  n = [(IF x > 0 THEN granted(m) ELSE m) EXCEPT
         !.LockedBonus[a] = @ + x, !.Miners[a] = info]

\* One more holder has one more place.
LEMMA HolderAdded ==
  ASSUME NEW m, BonusKept(m), NEW a \in Address, NEW x \in Nat, x \in {0, BonusOf(m)},
         NEW info \in MinerStats,
         info.BonusReleased => m.Miners[a].BonusReleased /\ x = 0,
         NEW n, HoldsMore(n, m, a, x, info)
  PROVE  BonusKept(n) /\ BonusWorth(n) = BonusWorth(m)
<1> DEFINE g == IF x > 0 THEN granted(m) ELSE m
           L == [m.LockedBonus EXCEPT ![a] = @ + x]
           M == [m.Miners EXCEPT ![a] = info]
<1>1. /\ g \in MiningState /\ g.LockedBonus = m.LockedBonus /\ g.Miners = m.Miners
      /\ g.StorageRemaining + x = m.StorageRemaining
      /\ g.BonusGrantedCount = m.BonusGrantedCount + (IF x > 0 THEN 1 ELSE 0)
      /\ g.BonusGrantedCount <= MaxBonusAddresses
  <2>1. CASE x > 0
    BY <2>1, Granting
  <2>2. CASE x = 0
    BY <2>2, MiningFields DEF BonusKept
  <2> QED
    BY <2>1, <2>2
<1> HIDE DEF g
<1>2. n = [g EXCEPT !.LockedBonus = L, !.Miners = M]
  BY <1>1 DEF HoldsMore, g, MiningState
<1>3. m.LockedBonus \in Amounts /\ m.Miners \in [Address -> MinerStats]
  BY MiningFields
<1>4. /\ L \in Amounts /\ L[a] = m.LockedBonus[a] + x /\ m.LockedBonus[a] \in Nat
      /\ \A c \in Address \ {a} : L[c] = m.LockedBonus[c]
      /\ M \in [Address -> MinerStats] /\ M[a] = info
      /\ \A c \in Address \ {a} : M[c] = m.Miners[c]
  BY <1>3 DEF Amounts
<1> HIDE DEF L, M
<1>5. /\ n \in MiningState /\ n.LockedBonus = L /\ n.Miners = M
      /\ n.StorageRemaining = g.StorageRemaining /\ n.BonusGrantedCount = g.BonusGrantedCount
  BY <1>1, <1>2, <1>4 DEF MiningState, Amounts
<1>6. Total(L) = Total(m.LockedBonus) + (L[a] - m.LockedBonus[a])
  BY <1>3, <1>4, TotalUpdate
<1>7. BonusWorth(n) = BonusWorth(m)
  <2>1. g.StorageRemaining \in Nat /\ m.StorageRemaining \in Nat /\ Total(m.LockedBonus) \in Nat
    BY <1>1, MiningFields DEF MiningState
  <2> QED
    BY <1>1, <1>4, <1>5, <1>6, <2>1 DEF BonusWorth
<1>8. ASSUME NEW c \in Address, n.Miners[c].BonusReleased PROVE n.LockedBonus[c] = 0
  <2>1. m.Miners[c].BonusReleased => m.LockedBonus[c] = 0
    BY DEF BonusKept
  <2>2. CASE c = a
    <3>1. m.Miners[a].BonusReleased /\ x = 0
      BY <1>4, <1>5, <1>8, <2>2
    <3> QED
      BY <1>4, <1>5, <2>1, <2>2, <3>1
  <2>3. CASE c # a
    BY <1>4, <1>5, <1>8, <2>1, <2>3
  <2> QED
    BY <2>2, <2>3
<1>9. Cardinality(Holders(n)) <= n.BonusGrantedCount
  <2>1. Holders(m) \in SUBSET Miner /\ Cardinality(Holders(m)) \in Nat
        /\ m.BonusGrantedCount \in Nat /\ Cardinality(Holders(m)) <= m.BonusGrantedCount
    BY MiningFields DEF BonusKept
  <2>2. CASE x = 0
    <3>1. Holders(n) \in SUBSET Holders(m)
      BY <1>4, <1>5, <2>2, FiniteMiners DEF Holders
    <3>2. Cardinality(Holders(n)) <= Cardinality(Holders(m)) /\ Cardinality(Holders(n)) \in Nat
      BY <2>1, <3>1, FiniteMiners, FS_Subset
    <3> QED
      BY <1>1, <1>5, <2>1, <2>2, <3>2
  <2>3. CASE x > 0
    <3>1. Holders(n) \in SUBSET (Holders(m) \cup {a})
      BY <1>4, <1>5, FiniteMiners DEF Holders
    <3>2. /\ IsFiniteSet(Holders(m) \cup {a})
          /\ Cardinality(Holders(m) \cup {a}) <= Cardinality(Holders(m)) + 1
          /\ Cardinality(Holders(m) \cup {a}) \in Nat
      BY <2>1, FiniteMiners, FS_AddElement, FS_CardinalityType
    <3>3. Cardinality(Holders(n)) <= Cardinality(Holders(m) \cup {a})
          /\ Cardinality(Holders(n)) \in Nat
      BY <3>1, <3>2, FS_Subset, FS_CardinalityType
    <3> QED
      BY <1>1, <1>5, <2>1, <2>3, <3>2, <3>3
  <2> QED
    BY <2>2, <2>3
<1> QED
  BY <1>1, <1>5, <1>7, <1>8, <1>9 DEF BonusKept

\* Bonuses that are given back are no longer held, and their places are free.
LEMMA BonusesReturned ==
  ASSUME NEW m, BonusKept(m), NEW S \in SUBSET Miner, NEW n, n = bonusesReturned(m, S)
  PROVE  /\ BonusKept(n) /\ BonusWorth(n) = BonusWorth(m)
         /\ n.Miners = m.Miners
<1> DEFINE held == {a \in S : m.LockedBonus[a] > 0}
           L == [a \in Address |-> IF a \in S THEN 0 ELSE m.LockedBonus[a]]
           back == SumFunctionOnSet(m.LockedBonus, held)
           k == Minus(m.BonusGrantedCount, Cardinality(held))
<1>1. m \in MiningState /\ m.LockedBonus \in Amounts /\ m.BonusGrantedCount \in Nat
      /\ m.StorageRemaining \in Nat /\ Total(m.LockedBonus) \in Nat
  BY MiningFields DEF BonusKept
<1>2. n = [m EXCEPT !.StorageRemaining = m.StorageRemaining + back, !.LockedBonus = L,
                    !.BonusGrantedCount = k]
  BY <1>1 DEF bonusesReturned, MiningState
<1>3. /\ L \in Amounts /\ held \in SUBSET S /\ S \subseteq Address
      /\ \A a \in Address : L[a] = IF a \in S THEN 0 ELSE m.LockedBonus[a]
      /\ \A a \in S : m.LockedBonus[a] \in Nat /\ (a \notin held => m.LockedBonus[a] = 0)
  BY <1>1, FiniteMiners DEF Amounts
<1>4. IsFiniteSet(held) /\ Cardinality(held) \in Nat /\ held \in SUBSET Miner
  BY <1>3, FiniteMiners
<1>5. held \in SUBSET Holders(m)
  BY DEF Holders
<1>6. Cardinality(held) <= Cardinality(Holders(m)) /\ Cardinality(Holders(m)) <= m.BonusGrantedCount
      /\ IsFiniteSet(Holders(m)) /\ Cardinality(Holders(m)) \in Nat
  BY <1>5, MiningFields, FiniteMiners, FS_Subset DEF BonusKept
<1>7. k = m.BonusGrantedCount - Cardinality(held) /\ k \in Nat
  <2> DEFINE c == Cardinality(held)
             d == Cardinality(Holders(m))
             b == m.BonusGrantedCount
  <2>1. c \in Nat /\ b \in Nat /\ d \in Nat /\ c <= d /\ d <= b
    BY <1>1, <1>4, <1>6
  <2> HIDE DEF c, b, d
  <2>2. c <= b
    BY <2>1
  <2>3. Minus(b, c) = b - c /\ Minus(b, c) \in Nat
    BY <2>1, <2>2, MinusNat
  <2> QED
    BY <2>3 DEF c, b
<1>8. back + Total(L) = Total(m.LockedBonus) /\ back \in Nat
  <2> DEFINE rest == Address \ held
  <2>1. held \cup rest = Address /\ held \cap rest = {} /\ IsFiniteSet(rest)
    BY <1>3, FiniteAddress, FS_Subset
  <2>2. \A a \in Address : m.LockedBonus[a] \in Nat /\ L[a] \in Nat
    BY <1>1, <1>3 DEF Amounts
  <2>3. \A a \in rest : L[a] = m.LockedBonus[a]
    BY <1>3
  <2>4. \A a \in held : L[a] = 0
    BY <1>3
  <2>5. \A a \in held \cup rest : m.LockedBonus[a] \in Int /\ L[a] \in Int
    BY <2>1, <2>2
  <2>6. \A a \in rest : L[a] \in Int
    BY <2>5
  <2>7. \A a \in held : m.LockedBonus[a] \in Nat
    BY <2>2, <1>3
  <2> HIDE DEF rest, held, L
  <2>8. SumFunctionOnSet(m.LockedBonus, held \cup rest)
          = SumFunctionOnSet(m.LockedBonus, held) + SumFunctionOnSet(m.LockedBonus, rest)
    BY <1>4, <2>1, <2>5, SumUnion
  <2>9. SumFunctionOnSet(L, held \cup rest) = SumFunctionOnSet(L, held) + SumFunctionOnSet(L, rest)
    BY <1>4, <2>1, <2>5, SumUnion
  <2>10. SumFunctionOnSet(L, held) = 0
    BY <1>4, <2>4, SumZero
  <2>11. SumFunctionOnSet(L, rest) = SumFunctionOnSet(m.LockedBonus, rest)
    BY <2>1, <2>3, <2>6, SumEqual
  <2>12. back \in Nat
    BY <1>4, <2>7, SumNat
  <2>13. SumFunctionOnSet(L, rest) \in Int
    BY <2>1, <2>6, SumInt
  <2>14. Total(L) = SumFunctionOnSet(L, held \cup rest)
         /\ Total(m.LockedBonus) = SumFunctionOnSet(m.LockedBonus, held \cup rest)
    <3>1. DOMAIN L = Address /\ DOMAIN m.LockedBonus = Address
      BY <1>1, <1>3 DEF Amounts
    <3> QED
      BY <2>1, <3>1 DEF Total
  <2> QED
    BY <2>8, <2>9, <2>10, <2>11, <2>12, <2>13, <2>14
<1>9. Holders(n) \in SUBSET (Holders(m) \ held) /\ n.LockedBonus = L /\ n.Miners = m.Miners
  <2>1. n.LockedBonus = L /\ n.Miners = m.Miners
    BY <1>1, <1>2 DEF MiningState
  <2>2. \A a \in held : ~m.Miners[a].BonusReleased
    BY <1>3 DEF BonusKept
  <2>3. \A a \in Address : L[a] > 0 => m.LockedBonus[a] > 0 /\ a \notin S
    BY <1>3
  <2> HIDE DEF L
  <2> QED
    BY <1>3, <2>1, <2>2, <2>3, FiniteMiners DEF Holders
<1> HIDE DEF L, held, k, back
<1>10. n \in MiningState /\ n.StorageRemaining = m.StorageRemaining + back /\ n.BonusGrantedCount = k
  <2> DEFINE x == m.StorageRemaining + back
  <2>1. x \in Nat /\ n = [m EXCEPT !.StorageRemaining = x, !.LockedBonus = L, !.BonusGrantedCount = k]
    BY <1>1, <1>2, <1>8
  <2> HIDE DEF x
  <2>2. n \in MiningState /\ n.StorageRemaining = x /\ n.BonusGrantedCount = k
    BY <1>1, <1>3, <1>7, <2>1 DEF MiningState, Amounts
  <2> QED
    BY <2>2 DEF x
<1>11. BonusWorth(n) = BonusWorth(m)
  <2>1. Total(L) \in Nat
    BY <1>3, TotalNat
  <2> QED
    BY <1>1, <1>8, <1>9, <1>10, <2>1 DEF BonusWorth
<1>12. Cardinality(Holders(n)) <= n.BonusGrantedCount
  <2>1. IsFiniteSet(Holders(m) \ held)
        /\ Cardinality(Holders(m) \ held) = Cardinality(Holders(m)) - Cardinality(Holders(m) \cap held)
        /\ Cardinality(Holders(m) \ held) \in Nat
    BY <1>6, FS_Difference, FS_CardinalityType
  <2>2. Holders(m) \cap held = held
    BY <1>5
  <2>3. Cardinality(Holders(n)) <= Cardinality(Holders(m) \ held)
    BY <1>9, <2>1, FS_Subset
  <2>4. Cardinality(Holders(n)) \in Nat
    BY <1>9, <2>1, FS_Subset, FS_CardinalityType
  <2>5. Cardinality(Holders(m) \ held) = Cardinality(Holders(m)) - Cardinality(held)
    BY <2>1, <2>2
  <2>6. n.BonusGrantedCount = m.BonusGrantedCount - Cardinality(held)
    BY <1>7, <1>10
  <2> QED
    BY <1>1, <1>4, <1>6, <2>1, <2>3, <2>4, <2>5, <2>6
<1>13. n.BonusGrantedCount <= MaxBonusAddresses
  BY <1>1, <1>4, <1>7, <1>10, MiningAssumption DEF BonusKept
<1>14. \A a \in Address : n.Miners[a].BonusReleased => n.LockedBonus[a] = 0
  BY <1>3, <1>9 DEF BonusKept
<1> QED
  BY <1>9, <1>10, <1>11, <1>12, <1>13, <1>14 DEF BonusKept

-----------------------------------------------------------------------------
(***************************************************************************)
(* Miners in a block                                                       *)
(***************************************************************************)
StakeBack(s, m, a) ==
  IF a \in Leaving(m) THEN Min({m.Miners[a].Stake, s.LockedStake[a]}) ELSE 0

ReturnedEntry(s, m, a) ==
  [delegator |-> a, validator |-> a, kind |-> "miner", at |-> now, seq |-> 0,
   amount |-> StakeBack(s, m, a)]

ReturnedEntries(s, m) == {ReturnedEntry(s, m, a) : a \in {b \in Address : StakeBack(s, m, b) > 0}}

\* A miner that leaves gets back no more than it has locked.
LEMMA Returns ==
  ASSUME NEW s, WellFormed(s), NEW m \in MiningState, now \in Nat
  PROVE  /\ \A a \in Address :
              /\ StakeBack(s, m, a) \in Nat /\ StakeBack(s, m, a) <= s.LockedStake[a]
              /\ ReturnedEntry(s, m, a) \in UnbondingEntry
         /\ Entries(ReturnedEntries(s, m))
<1>1. ASSUME NEW a \in Address
      PROVE  /\ StakeBack(s, m, a) \in Nat /\ StakeBack(s, m, a) <= s.LockedStake[a]
             /\ ReturnedEntry(s, m, a) \in UnbondingEntry
  <2>1. m.Miners[a].Stake \in Nat /\ s.LockedStake[a] \in Nat
    BY Fields DEF MiningState, MinerStats, Amounts
  <2>2. StakeBack(s, m, a) \in Nat /\ StakeBack(s, m, a) <= s.LockedStake[a]
    BY <2>1, SmallerOf DEF StakeBack
  <2> QED
    BY <2>2 DEF ReturnedEntry, UnbondingEntry, EntryKind
<1>2. IsFiniteSet(ReturnedEntries(s, m))
  <2> DEFINE S == {b \in Address : StakeBack(s, m, b) > 0}
             f == [b \in S |-> ReturnedEntry(s, m, b)]
  <2>1. IsFiniteSet(S)
    BY FiniteAddress, FS_Subset
  <2>2. f \in Surjection(S, ReturnedEntries(s, m))
    BY DEF Surjection, ReturnedEntries
  <2> HIDE DEF S, f
  <2> QED
    BY <2>1, <2>2, FS_Surjection
<1>3. ReturnedEntries(s, m) \subseteq UnbondingEntry
  BY <1>1 DEF ReturnedEntries
<1> QED
  BY <1>1, <1>2, <1>3 DEF Entries

\* The stake of miners that leave becomes entries.
LEMMA StakeReturned ==
  ASSUME NEW s, WellFormed(s), NEW m \in MiningState, now \in Nat,
         NEW r, r = minerStakeReturned(s, m)
  PROVE  WellFormed(r) /\ Worth(r) <= Worth(s) /\ r.Validators = s.Validators
<1> DEFINE back == [a \in Address |-> StakeBack(s, m, a)]
           l == [a \in Address |-> s.LockedStake[a] - StakeBack(s, m, a)]
           u == [a \in Address |-> s.UnbondingBalance[a] + StakeBack(s, m, a)]
           F == ReturnedEntries(s, m)
           E == {e \in s.UnbondingEntries : \A f \in F : [e EXCEPT !.amount = f.amount] # f} \cup F
<1>1. r = [s EXCEPT !.LockedStake = l, !.UnbondingBalance = u, !.UnbondingEntries = E]
  BY DEF minerStakeReturned, WellFormed, State, StakeBack, ReturnedEntries, ReturnedEntry
<1>2. s.LockedStake \in Amounts /\ s.UnbondingBalance \in Amounts /\ Entries(s.UnbondingEntries)
      /\ OwedIn(s) \in Amounts
  BY Fields
<1>3. /\ \A a \in Address :
           /\ StakeBack(s, m, a) \in Nat /\ StakeBack(s, m, a) <= s.LockedStake[a]
           /\ ReturnedEntry(s, m, a) \in UnbondingEntry
      /\ Entries(F)
  BY Returns
<1>4. /\ l \in Amounts /\ u \in Amounts /\ back \in Amounts
      /\ \A a \in Address : /\ back[a] = StakeBack(s, m, a)
                            /\ s.LockedStake[a] = l[a] + back[a]
  BY <1>2, <1>3 DEF Amounts
<1>5. E \in SUBSET (s.UnbondingEntries \cup F) /\ Entries(E)
  <2>1. E \in SUBSET (s.UnbondingEntries \cup F)
    OBVIOUS
  <2> HIDE DEF E, F
  <2>2. IsFiniteSet(s.UnbondingEntries \cup F) /\ s.UnbondingEntries \cup F \subseteq UnbondingEntry
    BY <1>2, <1>3, FS_Union DEF Entries
  <2> QED
    BY <2>1, <2>2, FS_Subset DEF Entries
<1> HIDE DEF l, u, E, back
<1>6. /\ r.Balance = s.Balance /\ r.LockedStake = l /\ r.Validators = s.Validators
      /\ r.StakeDelegations = s.StakeDelegations /\ r.UnbondingEntries = E
      /\ r.PermanentFund = s.PermanentFund
  BY <1>1 DEF WellFormed, State
<1>7. r \in State
  BY <1>1, <1>4, <1>5 DEF WellFormed, State, Amounts, Entries
<1>8. WellFormed(r)
  BY <1>5, <1>6, <1>7 DEF WellFormed
<1>9. Total(s.LockedStake) = Total(l) + Total(back)
  BY <1>2, <1>4, TotalAdd
<1>10. Total(OwedIn(r)) <= Total(OwedIn(s)) + Total(back)
  <2> DEFINE more == [a \in Address |-> OwedIn(s)[a] + back[a]]
  <2>1. more \in Amounts /\ \A a \in Address : more[a] = OwedIn(s)[a] + back[a]
    BY <1>2, <1>4 DEF Amounts
  <2> HIDE DEF more
  <2>2. OwedIn(r) \in Amounts
    BY <1>8, Fields
  <2>3. ASSUME NEW a \in Address PROVE OwedIn(r)[a] <= more[a]
    <3> DEFINE D == Of(s.UnbondingEntries, a)
               e == ReturnedEntry(s, m, a)
    <3>1. Of(E, a) \in SUBSET (D \cup {e})
      BY <1>5 DEF Of, ReturnedEntries, ReturnedEntry
    <3>2. Entries(D) /\ AmountOf(D) \in Nat
      BY <1>2, EntriesOf
    <3>3. e.amount = back[a] /\ e \in UnbondingEntry
      BY <1>3, <1>4 DEF ReturnedEntry
    <3>4. OwedIn(r)[a] = AmountOf(Of(E, a)) /\ OwedIn(s)[a] = AmountOf(D)
      BY <1>6 DEF OwedIn
    <3>5. back[a] \in Nat
      BY <1>4 DEF Amounts
    <3> HIDE DEF D, e
    <3>6. Entries(D \cup {e}) /\ AmountOf(D \cup {e}) <= AmountOf(D) + e.amount
      BY <3>2, <3>3, AmountMore
    <3>7. AmountOf(Of(E, a)) <= AmountOf(D \cup {e})
      BY <3>1, <3>6, AmountSubset
    <3>8. AmountOf(D \cup {e}) \in Nat /\ AmountOf(Of(E, a)) \in Nat
      BY <1>5, <3>6, AmountNat, EntriesOf
    <3> QED
      BY <2>1, <3>2, <3>3, <3>4, <3>5, <3>6, <3>7, <3>8
  <2>4. Total(OwedIn(r)) <= Total(more)
    BY <2>1, <2>2, <2>3, TotalLess
  <2>5. Total(more) = Total(OwedIn(s)) + Total(back)
    BY <1>2, <1>4, <2>1, TotalAdd
  <2> QED
    BY <2>4, <2>5
<1>11. Worth(r) <= Worth(s)
  <2>1. Total(l) \in Nat /\ Total(back) \in Nat
    BY <1>4, TotalNat
  <2> QED
    BY <1>6, <1>8, <1>9, <1>10, <2>1, Totals DEF Worth
<1> QED
  BY <1>6, <1>8, <1>11

\* Miners that never proved, and bonuses not earned in time, are given up.
LEMMA Expiring ==
  ASSUME NEW m, BonusKept(m), now \in Nat
  PROVE  /\ BonusKept(expireInactiveMiners(m))
         /\ BonusWorth(expireInactiveMiners(m)) = BonusWorth(m)
         /\ BonusKept(expireMinerBonuses(m))
         /\ BonusWorth(expireMinerBonuses(m)) = BonusWorth(m)
<1>0. UnbondingPeriodSeconds \in Nat /\ Miner \subseteq Address
  BY StakingAssumption, MiningAssumption
<1>1. /\ BonusKept(expireInactiveMiners(m))
      /\ BonusWorth(expireInactiveMiners(m)) = BonusWorth(m)
  <2> DEFINE S == Inactive(m)
             b == bonusesReturned(m, S)
             M == [a \in Address |->
                     IF a \in S
                     THEN [b.Miners[a] EXCEPT !.BonusExpired = TRUE, !.Status = "exiting",
                                              !.ExitedAt = now + UnbondingPeriodSeconds]
                     ELSE b.Miners[a]]
             n == [b EXCEPT !.Miners = M]
  <2>1. S \in SUBSET Miner
    BY DEF Inactive, Registered
  <2>2. BonusKept(b) /\ BonusWorth(b) = BonusWorth(m)
    BY <2>1, BonusesReturned
  <2>3. expireInactiveMiners(m) = n
    BY <2>2 DEF expireInactiveMiners, BonusKept, MiningState
  <2> HIDE DEF b, S
  <2>4. b.Miners \in [Address -> MinerStats] /\ now + UnbondingPeriodSeconds \in Nat
    BY <1>0, <2>2, MiningFields
  <2>5. ASSUME NEW a \in Address
        PROVE  M[a] \in MinerStats /\ M[a].BonusReleased = b.Miners[a].BonusReleased
    BY <2>4 DEF MinerStats, MinerStatus
  <2>6. M \in [Address -> MinerStats]
    BY <2>5
  <2> HIDE DEF M
  <2>7. n \in MiningState /\ n.Miners = M /\ n.LockedBonus = b.LockedBonus
        /\ n.BonusGrantedCount = b.BonusGrantedCount /\ n.StorageRemaining = b.StorageRemaining
    BY <2>2, <2>6 DEF BonusKept, MiningState
  <2> HIDE DEF n
  <2> QED
    BY <2>2, <2>3, <2>5, <2>7, RecordsChanged
<1>2. /\ BonusKept(expireMinerBonuses(m))
      /\ BonusWorth(expireMinerBonuses(m)) = BonusWorth(m)
  <2> DEFINE S == Overdue(m)
             b == bonusesReturned(m, S)
             M == [a \in Address |->
                     IF a \in S THEN [b.Miners[a] EXCEPT !.BonusExpired = TRUE] ELSE b.Miners[a]]
             n == [b EXCEPT !.Miners = M]
  <2>1. S \in SUBSET Miner
    BY DEF Overdue
  <2>2. BonusKept(b) /\ BonusWorth(b) = BonusWorth(m)
    BY <2>1, BonusesReturned
  <2>3. expireMinerBonuses(m) = n
    BY <2>2 DEF expireMinerBonuses, BonusKept, MiningState
  <2> HIDE DEF b, S
  <2>4. b.Miners \in [Address -> MinerStats]
    BY <2>2, MiningFields
  <2>5. ASSUME NEW a \in Address
        PROVE  M[a] \in MinerStats /\ M[a].BonusReleased = b.Miners[a].BonusReleased
    BY <2>4 DEF MinerStats
  <2>6. M \in [Address -> MinerStats]
    BY <2>5
  <2> HIDE DEF M
  <2>7. n \in MiningState /\ n.Miners = M /\ n.LockedBonus = b.LockedBonus
        /\ n.BonusGrantedCount = b.BonusGrantedCount /\ n.StorageRemaining = b.StorageRemaining
    BY <2>2, <2>6 DEF BonusKept, MiningState
  <2> HIDE DEF n
  <2> QED
    BY <2>2, <2>3, <2>5, <2>7, RecordsChanged
<1> QED
  BY <1>1, <1>2

\* Miners that leave give their bonus back.
LEMMA LeavingKept ==
  ASSUME NEW m, BonusKept(m)
  PROVE  /\ BonusKept(finalizeExitingMiners(m))
         /\ BonusWorth(finalizeExitingMiners(m)) = BonusWorth(m)
<1> DEFINE S == Leaving(m)
           b == bonusesReturned(m, S)
           M == [a \in Address |->
                   IF a \in S THEN [b.Miners[a] EXCEPT !.Status = "exited", !.Stake = 0]
                   ELSE b.Miners[a]]
           n == [b EXCEPT !.Miners = M]
<1>1. S \in SUBSET Miner
  BY DEF Leaving
<1>2. BonusKept(b) /\ BonusWorth(b) = BonusWorth(m)
  BY <1>1, BonusesReturned
<1>3. finalizeExitingMiners(m) = n
  BY <1>2 DEF finalizeExitingMiners, BonusKept, MiningState
<1> HIDE DEF b, S
<1>4. b.Miners \in [Address -> MinerStats]
  BY <1>2, MiningFields
<1>5. ASSUME NEW a \in Address
      PROVE  M[a] \in MinerStats /\ M[a].BonusReleased = b.Miners[a].BonusReleased
  BY <1>4 DEF MinerStats, MinerStatus
<1>6. M \in [Address -> MinerStats]
  BY <1>5
<1> HIDE DEF M
<1>7. n \in MiningState /\ n.Miners = M /\ n.LockedBonus = b.LockedBonus
      /\ n.BonusGrantedCount = b.BonusGrantedCount /\ n.StorageRemaining = b.StorageRemaining
  BY <1>2, <1>6 DEF BonusKept, MiningState
<1> HIDE DEF n
<1> QED
  BY <1>2, <1>3, <1>5, <1>7, RecordsChanged

\* A State and its miners, and what they are worth together.
Both(s, m) == WellFormed(s) /\ BonusKept(m)

Worths(s, m) == Worth(s) + BonusWorth(m)

LEMMA WorthsNat ==
  ASSUME NEW s, NEW m, Both(s, m)
  PROVE  Worth(s) \in Nat /\ BonusWorth(m) \in Nat /\ Worths(s, m) \in Nat
  BY WorthNat, MiningFields DEF Both, Worths

\* The housekeeping of a block.
LEMMA HousekeptKept ==
  ASSUME WellFormed(st), now \in Nat, NEW m, BonusKept(m), NEW h, h = Housekept(m)
  PROVE  /\ Both(h.st, h.mn) /\ Worths(h.st, h.mn) <= Worths(st, m)
         /\ \A u \in Address :
              st.Validators[u].Status = "active" => h.st.Validators[u].Status = "active"
<1> DEFINE x == finalizeExitingValidators(st)
           y == minerStakeReturned(x, m)
           z == processMaturedUnbondingEntries(y)
           n == finalizeExitingMiners(m)
<1>1. h = [st |-> z, mn |-> n]
  BY DEF Housekept
<1>2. /\ WellFormed(x) /\ Worth(x) <= Worth(st)
      /\ \A u \in Address : st.Validators[u].Status = "active" => x.Validators[u].Status = "active"
  BY ExitedKept
<1> HIDE DEF x
<1>3. WellFormed(y) /\ Worth(y) <= Worth(x) /\ y.Validators = x.Validators
  BY <1>2, StakeReturned DEF BonusKept
<1> HIDE DEF y
<1>4. WellFormed(z) /\ Worth(z) <= Worth(y) /\ z.Validators = y.Validators
  BY <1>3, MaturedKept
<1> HIDE DEF z
<1>5. BonusKept(n) /\ BonusWorth(n) = BonusWorth(m)
  BY LeavingKept
<1> HIDE DEF n
<1>6. h.st = z /\ h.mn = n
  BY <1>1
<1>7. Worth(st) \in Nat /\ Worth(x) \in Nat /\ Worth(y) \in Nat /\ Worth(z) \in Nat
      /\ BonusWorth(m) \in Nat
  BY <1>2, <1>3, <1>4, WorthNat, MiningFields
<1> QED
  BY <1>2, <1>3, <1>4, <1>5, <1>6, <1>7 DEF Both, Worths

\* A registration in a block locks stake and pays a bonus at most once more.
LEMMA ReplayedMiner ==
  ASSUME NEW b, Both(b.st, b.mn), NEW a \in Address, NEW c \in Capacity, NEW x \in MinerStake,
         canReplayRegisterMiner(b, a, c, x), now \in Nat, NEW r, r = minerRegistered(b, a, c, x)
  PROVE  /\ Both(r.st, r.mn) /\ Worths(r.st, r.mn) = Worths(b.st, b.mn)
         /\ r.st.Validators = b.st.Validators
<1> DEFINE s == b.st
           m == b.mn
           more == Minus(x, m.Miners[a].Stake)
           bonus == ReplayBonus(m, a)
           info == [m.Miners[a] EXCEPT !.Status = "active", !.Stake = x, !.CapacityBytes = c,
                                       !.RegisteredAt = IF @ = -1 THEN now ELSE @]
           g == IF bonus > 0 THEN granted(m) ELSE m
           n == [g EXCEPT !.LockedBonus[a] = @ + bonus, !.Miners[a] = info]
<1>0. x \in Nat /\ c \in Nat
  BY MiningAssumption
<1>1. m.Miners[a] \in MinerStats /\ BonusKept(m) /\ WellFormed(s)
  BY MiningFields DEF Both
<1>2. more \in Nat /\ more <= s.Balance[a]
  <2>1. m.Miners[a].Stake \in Nat
    BY <1>1 DEF MinerStats
  <2> QED
    BY <1>0, <2>1, MinusNat DEF canReplayRegisterMiner
<1>3. bonus \in Nat /\ bonus \in {0, BonusOf(m)} /\ (m.Miners[a].BonusReleased => bonus = 0)
  BY <1>1, Granting DEF ReplayBonus
<1>4. info \in MinerStats /\ info.BonusReleased = m.Miners[a].BonusReleased
  BY <1>0, <1>1 DEF MinerStats, MinerStatus, Time
<1>5. g \in MiningState /\ g.LockedBonus = m.LockedBonus /\ g.Miners = m.Miners
  <2>1. m \in MiningState
    BY <1>1 DEF BonusKept
  <2>2. g = m \/ g = granted(m)
    OBVIOUS
  <2> HIDE DEF g
  <2> QED
    BY <1>1, <2>1, <2>2, Granting
<1>6. r.mn = n
  BY DEF minerRegistered
<1>7. Locks(r.st, s, a, more)
  BY DEF minerRegistered, Locks
<1>75. HoldsMore(n, m, a, bonus, info)
  BY DEF HoldsMore
<1> HIDE DEF info, more, bonus, n, g
<1>8. BonusKept(n) /\ BonusWorth(n) = BonusWorth(m)
  BY <1>1, <1>3, <1>4, <1>75, HolderAdded
<1>9. WellFormed(r.st) /\ Worth(r.st) = Worth(s) /\ r.st.Validators = s.Validators
  BY <1>1, <1>2, <1>7, StakeMoved
<1> QED
  BY <1>6, <1>8, <1>9 DEF Both, Worths

\* A block with miners.
LEMMA MinerBlockKept ==
  ASSUME Both(st, mn), now \in Nat, NEW p \in Owner, MinerBlock(p)
  PROVE  Both(st', mn') /\ Worths(st', mn') <= Worths(st, mn)
<1> DEFINE active == expireInactiveMiners(mn)
           m == expireMinerBonuses(active)
           h == Housekept(m)
<1>1. BonusKept(active) /\ BonusWorth(active) = BonusWorth(mn)
  BY Expiring DEF Both
<1>2. p \in Address /\ p \in consensusValidators(st)
  BY StakingAssumption DEF MinerBlock
<1>3. \E b \in {h} \cup {minerRegistered(h, r[1], r[2], r[3]) : r \in Replayable(h)} :
        st' = [b.st EXCEPT !.Validators[p].Status = "active"] /\ mn' = b.mn
  BY DEF MinerBlock
<1> HIDE DEF active
<1>4. BonusKept(m) /\ BonusWorth(m) = BonusWorth(mn)
  BY <1>1, Expiring
<1> HIDE DEF m
<1>5. /\ Both(h.st, h.mn) /\ Worths(h.st, h.mn) <= Worths(st, m)
      /\ h.st.Validators[p].Status = "active"
  <2>1. st.Validators[p].Status = "active"
    BY <1>2 DEF consensusValidators
  <2>2. WellFormed(st)
    BY DEF Both
  <2> QED
    BY <1>2, <1>4, <2>1, <2>2, HousekeptKept
<1> HIDE DEF h
<1>6. PICK b \in {h} \cup {minerRegistered(h, r[1], r[2], r[3]) : r \in Replayable(h)} :
        st' = [b.st EXCEPT !.Validators[p].Status = "active"] /\ mn' = b.mn
  BY <1>3
<1>7. /\ Both(b.st, b.mn) /\ Worths(b.st, b.mn) <= Worths(h.st, h.mn)
      /\ b.st.Validators[p].Status = "active"
  <2>1. CASE b = h
    BY <1>5, <2>1, WorthsNat
  <2>2. CASE b # h
    <3>1. PICK q \in Replayable(h) : b = minerRegistered(h, q[1], q[2], q[3])
      BY <2>2
    <3>2. /\ q[1] \in Miner /\ q[2] \in Capacity /\ q[3] \in MinerStake
          /\ canReplayRegisterMiner(h, q[1], q[2], q[3])
      BY DEF Replayable
    <3>3. q[1] \in Address
      BY <3>2, FiniteMiners
    <3>4. /\ Both(b.st, b.mn) /\ Worths(b.st, b.mn) = Worths(h.st, h.mn)
          /\ b.st.Validators = h.st.Validators
      BY <1>5, <3>1, <3>2, <3>3, ReplayedMiner
    <3> QED
      BY <1>5, <3>4, WorthsNat
  <2> QED
    BY <2>1, <2>2
<1>8. WellFormed(st') /\ Worth(st') = Worth(b.st)
  BY <1>2, <1>6, <1>7, ProducerActive DEF Both
<1>9. Worths(st', mn') = Worths(b.st, b.mn) /\ Both(st', mn')
  BY <1>6, <1>7, <1>8 DEF Worths, Both
<1>10. /\ Worths(b.st, b.mn) \in Nat /\ Worths(h.st, h.mn) \in Nat
       /\ Worths(st, m) = Worths(st, mn)
  BY <1>4, <1>5, <1>7, WorthsNat DEF Worths
<1>11. Worths(st, mn) \in Nat
  BY WorthsNat
<1> QED
  BY <1>5, <1>7, <1>9, <1>10, <1>11

-----------------------------------------------------------------------------
(***************************************************************************)
(* What miners ask for                                                     *)
(***************************************************************************)
LEMMA RegisterMinerKept ==
  ASSUME Both(st, mn), now \in Nat, NEW a \in Miner, RegisterMiner(a)
  PROVE  Both(st', mn') /\ Worths(st', mn') <= Worths(st, mn)
<1>0. a \in Address /\ BonusKept(mn) /\ WellFormed(st)
  BY FiniteMiners DEF Both
<1>1. PICK c \in Capacity, x \in MinerStake :
        /\ st.Balance[a] >= x
        /\ \/ /\ mn' = [granted(mn) EXCEPT
                   !.LockedBonus[a] = @ + BonusOf(mn),
                   !.Miners[a] = [NoMiner EXCEPT !.Status = "active", !.Stake = x,
                                                 !.CapacityBytes = c, !.RegisteredAt = now]]
              /\ st' = [st EXCEPT !.Balance[a] = @ - x, !.LockedStake[a] = @ + x]
           \/ /\ mn' = granted(mn)
              /\ UNCHANGED st
  BY DEF RegisterMiner
<1>2. x \in Nat /\ c \in Nat
  BY MiningAssumption
<1>3. Worth(st) \in Nat /\ BonusWorth(mn) \in Nat
  BY WorthsNat
<1>4. CASE /\ mn' = [granted(mn) EXCEPT
                   !.LockedBonus[a] = @ + BonusOf(mn),
                   !.Miners[a] = [NoMiner EXCEPT !.Status = "active", !.Stake = x,
                                                 !.CapacityBytes = c, !.RegisteredAt = now]]
           /\ st' = [st EXCEPT !.Balance[a] = @ - x, !.LockedStake[a] = @ + x]
  <2> DEFINE info == [NoMiner EXCEPT !.Status = "active", !.Stake = x,
                                     !.CapacityBytes = c, !.RegisteredAt = now]
             y == BonusOf(mn)
  <2>1. info \in MinerStats /\ ~info.BonusReleased
    BY <1>2 DEF NoMiner, MinerStats, MinerStatus, Time
  <2>2. y \in Nat /\ (IF y > 0 THEN granted(mn) ELSE mn) = granted(mn)
    BY <1>0, Granting
  <2>3. HoldsMore(mn', mn, a, y, info)
    BY <1>4, <2>2 DEF HoldsMore
  <2>4. y \in {0, BonusOf(mn)}
    OBVIOUS
  <2> HIDE DEF info, y
  <2>5. BonusKept(mn') /\ BonusWorth(mn') = BonusWorth(mn)
    BY <1>0, <2>1, <2>2, <2>3, <2>4, HolderAdded
  <2>6. WellFormed(st') /\ Worth(st') = Worth(st)
    <3>1. x <= st.Balance[a]
      BY <1>0, <1>1, <1>2, Fields DEF Amounts
    <3>2. Locks(st', st, a, x)
      BY <1>4 DEF Locks
    <3> QED
      BY <1>0, <1>2, <3>1, <3>2, StakeMoved
  <2> QED
    BY <1>3, <2>5, <2>6 DEF Both, Worths
<1>5. CASE mn' = granted(mn) /\ UNCHANGED st
  <2> DEFINE n == granted(mn)
  <2>1. /\ n \in MiningState /\ n.LockedBonus = mn.LockedBonus /\ n.Miners = mn.Miners
        /\ BonusOf(mn) \in Nat /\ n.StorageRemaining + BonusOf(mn) = mn.StorageRemaining
        /\ BonusOf(mn) = 0 => n = mn
        /\ BonusOf(mn) > 0 => /\ n.BonusGrantedCount = mn.BonusGrantedCount + 1
                              /\ n.BonusGrantedCount <= MaxBonusAddresses
    BY <1>0, Granting
  <2> HIDE DEF n
  <2>2. Holders(n) = Holders(mn) /\ n.StorageRemaining \in Nat
    BY <2>1 DEF Holders, MiningState
  <2>3. Cardinality(Holders(mn)) \in Nat /\ mn.BonusGrantedCount \in Nat
        /\ Total(mn.LockedBonus) \in Nat
    BY <1>0, MiningFields
  <2>4. BonusKept(n)
    <3>1. CASE BonusOf(mn) = 0
      BY <1>0, <2>1, <3>1
    <3>2. CASE BonusOf(mn) > 0
      BY <1>0, <2>1, <2>2, <2>3, <3>2 DEF BonusKept
    <3> QED
      BY <2>1, <3>1, <3>2
  <2>5. BonusWorth(n) <= BonusWorth(mn) /\ BonusWorth(n) \in Nat
    BY <2>1, <2>2, <2>3 DEF BonusWorth
  <2>6. mn' = n
    BY <1>5 DEF n
  <2> QED
    BY <1>0, <1>3, <1>5, <2>4, <2>5, <2>6 DEF Both, Worths
<1> QED
  BY <1>1, <1>4, <1>5

\* A new capacity locks or sets free stake the account has.
LEMMA AdjustCapacityKept ==
  ASSUME Both(st, mn), now \in Nat, NEW a \in Miner, AdjustCapacity(a)
  PROVE  Both(st', mn') /\ Worths(st', mn') <= Worths(st, mn)
<1>0. a \in Address /\ BonusKept(mn) /\ WellFormed(st)
  BY FiniteMiners DEF Both
<1>1. PICK c \in Capacity :
        /\ \/ /\ c > mn.Miners[a].CapacityBytes
              /\ st.Balance[a] >= Minus(RequiredStakeForCapacity(c),
                                        mn.LockedBonus[a] + st.LockedStake[a])
              /\ st' = raised(st, a, c)
           \/ /\ c < mn.Miners[a].CapacityBytes
              /\ st' = lowered(st, a, c)
           \/ UNCHANGED st
        /\ mn' = [mn EXCEPT !.Miners[a].CapacityBytes = c, !.Miners[a].LastAdjust = now]
  BY DEF AdjustCapacity
<1>2. c \in Nat /\ StakePerTiB \in Nat /\ RequiredStakeForCapacity(c) \in Nat
  BY MiningAssumption DEF RequiredStakeForCapacity
<1>3. mn.Miners[a] \in MinerStats /\ mn.LockedBonus[a] \in Nat /\ st.LockedStake[a] \in Nat
      /\ st.Balance[a] \in Nat
  BY <1>0, MiningFields, Fields DEF Amounts
<1>4. BonusKept(mn') /\ BonusWorth(mn') = BonusWorth(mn)
  <2> DEFINE info == [mn.Miners[a] EXCEPT !.CapacityBytes = c, !.LastAdjust = now]
             M == [mn.Miners EXCEPT ![a] = info]
  <2>1. mn' = [mn EXCEPT !.Miners = M]
    BY <1>0, <1>1 DEF BonusKept, MiningState
  <2>2. info \in MinerStats /\ info.BonusReleased = mn.Miners[a].BonusReleased
    BY <1>2, <1>3 DEF MinerStats, Time
  <2> HIDE DEF info
  <2>3. M \in [Address -> MinerStats]
        /\ \A b \in Address : M[b].BonusReleased = mn.Miners[b].BonusReleased
    BY <1>0, <2>2, MiningFields
  <2> HIDE DEF M
  <2>4. mn' \in MiningState /\ mn'.Miners = M /\ mn'.LockedBonus = mn.LockedBonus
        /\ mn'.BonusGrantedCount = mn.BonusGrantedCount
        /\ mn'.StorageRemaining = mn.StorageRemaining
    BY <1>0, <2>1, <2>3 DEF BonusKept, MiningState
  <2> QED
    BY <1>0, <2>3, <2>4, RecordsChanged
<1>5. WellFormed(st') /\ Worth(st') <= Worth(st)
  <2>0. Worth(st) \in Nat
    BY <1>0, WorthNat
  <2>1. CASE /\ st.Balance[a] >= Minus(RequiredStakeForCapacity(c),
                                       mn.LockedBonus[a] + st.LockedStake[a])
             /\ st' = raised(st, a, c)
    <3> DEFINE x == Minus(RequiredStakeForCapacity(c), mn.LockedBonus[a] + st.LockedStake[a])
    <3>1. x \in Nat /\ x <= st.Balance[a]
      <4>1. mn.LockedBonus[a] + st.LockedStake[a] \in Nat
        BY <1>3
      <4>2. x \in Nat
        BY <1>2, <4>1, MinusNat
      <4> HIDE DEF x
      <4>3. st.Balance[a] >= x
        BY <2>1 DEF x
      <4> QED
        BY <1>3, <4>2, <4>3
    <3>2. Locks(st', st, a, x)
      BY <2>1 DEF raised, Locks
    <3> HIDE DEF x
    <3> QED
      BY <1>0, <2>0, <3>1, <3>2, StakeMoved
  <2>2. CASE c < mn.Miners[a].CapacityBytes /\ st' = lowered(st, a, c)
    <3> DEFINE x == Refund(st, a, c)
               e == [delegator |-> a, validator |-> a, kind |-> "capacity_adjust",
                     at |-> now, seq |-> 0, amount |-> x]
    <3>1. x \in Nat /\ x <= st.LockedStake[a]
      <4> DEFINE old == mn.Miners[a].CapacityBytes
                 locked == mn.LockedBonus[a] + st.LockedStake[a]
                 needed == RequiredStakeForCapacity(c)
                 freed == RequiredStakeForCapacity(old) - needed
                 all == st.LockedStake[a]
                 excess == Min({freed, all})
                 over == Min({Wrapped(locked, needed), all})
      <4>1. freed \in Nat
        <5>1. old \in Nat /\ c <= old
          BY <1>2, <1>3, <2>2 DEF MinerStats
        <5>2. c * StakePerTiB <= old * StakePerTiB /\ old * StakePerTiB \in Nat
              /\ c * StakePerTiB \in Nat
          BY <1>2, <5>1
        <5> QED
          BY <5>2 DEF RequiredStakeForCapacity
      <4>2. Wrapped(locked, needed) \in Nat
        <5> DEFINE n == 2^20
        <5>1. n \in Nat /\ n > 0
          BY SMT
        <5>2. locked - needed \in Int
          BY <1>2, <1>3
        <5> HIDE DEF n, locked, needed
        <5>3. (locked - needed) % n \in Nat
          BY <5>1, <5>2
        <5> QED
          BY <5>3 DEF Wrapped, n
      <4>3. x = IF locked - excess < needed THEN over ELSE excess
        BY DEF Refund
      <4>4. all \in Nat
        BY <1>3
      <4> DEFINE w == Wrapped(locked, needed)
      <4> HIDE DEF freed, w, all, locked, needed, x
      <4>5. excess \in Nat /\ excess <= all
        BY <4>1, <4>4, SmallerOf
      <4>6. over \in Nat /\ over <= all
        BY <4>2, <4>4, SmallerOf DEF w
      <4> HIDE DEF excess, over
      <4> QED
        BY <4>3, <4>5, <4>6 DEF all
    <3>2. e \in UnbondingEntry /\ e.delegator = a /\ e.amount = x
      BY <1>0, <3>1 DEF UnbondingEntry, EntryKind
    <3>3. IF x = 0 THEN st' = st ELSE Unbonds(st', st, a, x, e)
      BY <2>2 DEF lowered, Unbonds
    <3> HIDE DEF x, e
    <3>4. CASE x = 0
      BY <1>0, <2>0, <3>3, <3>4
    <3>5. CASE x # 0
      BY <1>0, <3>1, <3>2, <3>3, <3>5, StakeUnbonded
    <3> QED
      BY <3>4, <3>5
  <2>3. CASE UNCHANGED st
    BY <1>0, <2>0, <2>3
  <2> QED
    BY <1>1, <2>1, <2>2, <2>3
<1>6. Worth(st) \in Nat /\ Worth(st') \in Nat /\ BonusWorth(mn) \in Nat
  BY <1>5, WorthsNat, WorthNat
<1> QED
  BY <1>4, <1>5, <1>6 DEF Both, Worths

\* n is m with another record of a.
Writes(n, m, a, info) == n = [m EXCEPT !.Miners[a] = info]

LEMMA RecordWritten ==
  ASSUME NEW m, BonusKept(m), NEW a \in Address, NEW info \in MinerStats,
         info.BonusReleased = m.Miners[a].BonusReleased, NEW n, Writes(n, m, a, info)
  PROVE  /\ BonusKept(n) /\ BonusWorth(n) = BonusWorth(m)
         /\ n.LockedBonus = m.LockedBonus /\ n.Miners[a] = info
<1> DEFINE M == [m.Miners EXCEPT ![a] = info]
<1>1. n = [m EXCEPT !.Miners = M]
  BY DEF Writes, BonusKept, MiningState
<1>2. M \in [Address -> MinerStats] /\ M[a] = info
      /\ \A b \in Address : M[b].BonusReleased = m.Miners[b].BonusReleased
  BY MiningFields
<1> HIDE DEF M
<1>3. n \in MiningState /\ n.Miners = M /\ n.LockedBonus = m.LockedBonus
      /\ n.BonusGrantedCount = m.BonusGrantedCount
      /\ n.StorageRemaining = m.StorageRemaining
  BY <1>1, <1>2 DEF BonusKept, MiningState
<1> QED
  BY <1>2, <1>3, RecordsChanged

\* A smaller bonus is no more than a smaller bonus.
LEMMA BonusLowered ==
  ASSUME NEW m, BonusKept(m), NEW n \in MiningState,
         n.BonusGrantedCount = m.BonusGrantedCount,
         \A a \in Address : /\ n.LockedBonus[a] <= m.LockedBonus[a]
                            /\ n.Miners[a].BonusReleased = m.Miners[a].BonusReleased
  PROVE  BonusKept(n)
<1>1. \A a \in Address : n.LockedBonus[a] \in Nat /\ m.LockedBonus[a] \in Nat
  BY MiningFields DEF MiningState, Amounts
<1>2. Holders(n) \in SUBSET Holders(m)
  BY <1>1, FiniteMiners DEF Holders
<1>3. IsFiniteSet(Holders(m)) /\ Cardinality(Holders(m)) \in Nat
      /\ Cardinality(Holders(m)) <= m.BonusGrantedCount /\ m.BonusGrantedCount \in Nat
  BY MiningFields, FiniteMiners DEF BonusKept
<1>4. Cardinality(Holders(n)) <= Cardinality(Holders(m)) /\ Cardinality(Holders(n)) \in Nat
  BY <1>2, <1>3, FS_Subset, FS_CardinalityType
<1>5. \A a \in Address : n.Miners[a].BonusReleased => n.LockedBonus[a] = 0
  BY <1>1 DEF BonusKept
<1> QED
  BY <1>3, <1>4, <1>5 DEF BonusKept

LEMMA DeregisterMinerKept ==
  ASSUME Both(st, mn), now \in Nat, NEW a \in Miner, DeregisterMiner(a)
  PROVE  Both(st', mn') /\ Worths(st', mn') = Worths(st, mn)
<1>0. a \in Address /\ BonusKept(mn) /\ WellFormed(st)
  BY FiniteMiners DEF Both
<1>1. WellFormed(st') /\ Worth(st') = Worth(st)
  <2> DEFINE N == [st.Nonce EXCEPT ![a] = @ + 1]
  <2>1. st' = [st EXCEPT !.Nonce = N]
    BY <1>0 DEF DeregisterMiner, WellFormed, State
  <2>2. N \in [Address -> Nat]
    BY <1>0, Fields DEF Amounts
  <2> HIDE DEF N
  <2>3. /\ st' \in State /\ st'.Balance = st.Balance /\ st'.LockedStake = st.LockedStake
        /\ st'.StakeDelegations = st.StakeDelegations /\ st'.Validators = st.Validators
        /\ st'.UnbondingEntries = st.UnbondingEntries /\ st'.PermanentFund = st.PermanentFund
    BY <1>0, <2>1, <2>2 DEF WellFormed, State
  <2> QED
    BY <1>0, <2>3 DEF WellFormed, Worth, OwedIn
<1>2. BonusKept(mn') /\ BonusWorth(mn') = BonusWorth(mn)
  <2>1. CASE mn' = mn
    BY <1>0, <2>1
  <2>2. CASE mn' # mn
    <3> DEFINE info == [mn.Miners[a] EXCEPT !.Status = "exiting",
                                            !.ExitedAt = now + UnbondingPeriodSeconds]
    <3>1. Writes(mn', mn, a, info)
      BY <1>0, <2>2 DEF DeregisterMiner, Writes, BonusKept, MiningState
    <3>2. now + UnbondingPeriodSeconds \in Nat
      BY StakingAssumption
    <3>3. mn.Miners[a] \in MinerStats
      BY <1>0, MiningFields
    <3>4. info \in MinerStats /\ info.BonusReleased = mn.Miners[a].BonusReleased
      BY <3>2, <3>3 DEF MinerStats, MinerStatus
    <3> HIDE DEF info
    <3> QED
      BY <1>0, <3>1, <3>4, RecordWritten
  <2> QED
    BY <2>1, <2>2
<1> QED
  BY <1>1, <1>2 DEF Both, Worths

\* A finalized deal names a miner, an epoch asks miners for proofs.
LEMMA DealOrEpochKept ==
  ASSUME Both(st, mn), now \in Nat, (\E a \in Miner : FinalizeDeal(a)) \/ StartEpoch
  PROVE  Both(st', mn') /\ Worths(st', mn') = Worths(st, mn)
<1>0. BonusKept(mn) /\ st' = st
  BY DEF Both, FinalizeDeal, StartEpoch
<1>1. ASSUME NEW a \in Miner, FinalizeDeal(a)
      PROVE  /\ mn' \in MiningState /\ mn'.LockedBonus = mn.LockedBonus
             /\ mn'.BonusGrantedCount = mn.BonusGrantedCount
             /\ mn'.StorageRemaining = mn.StorageRemaining /\ mn'.Miners = mn.Miners
  <2> DEFINE S == mn.shards \cup {a}
  <2>1. mn' = [mn EXCEPT !.shards = S]
    BY <1>0, <1>1 DEF FinalizeDeal, BonusKept, MiningState
  <2>2. S \in SUBSET Address
    BY <1>0, FiniteMiners, MiningFields
  <2> HIDE DEF S
  <2> QED
    BY <1>0, <2>1, <2>2 DEF BonusKept, MiningState
<1>2. ASSUME StartEpoch
      PROVE  /\ mn' \in MiningState /\ mn'.LockedBonus = mn.LockedBonus
             /\ mn'.BonusGrantedCount = mn.BonusGrantedCount
             /\ mn'.StorageRemaining = mn.StorageRemaining /\ mn'.Miners = mn.Miners
  <2> DEFINE d == now + EpochDuration
             k == mn.epochs + 1
  <2>1. PICK S \in SUBSET mn.shards :
          mn' = [mn EXCEPT !.challenged = S, !.epochs = @ + 1, !.deadline = now + EpochDuration]
    BY <1>2 DEF StartEpoch
  <2>2. mn' = [mn EXCEPT !.challenged = S, !.epochs = k, !.deadline = d]
    BY <1>0, <2>1 DEF BonusKept, MiningState
  <2>3. S \in SUBSET Address /\ k \in Nat /\ d \in Time
    BY <1>0, <2>1, MiningFields, MiningAssumption DEF Time
  <2> HIDE DEF k, d
  <2> QED
    BY <1>0, <2>2, <2>3 DEF BonusKept, MiningState
<1>3. BonusKept(mn') /\ BonusWorth(mn') = BonusWorth(mn)
  BY <1>0, <1>1, <1>2, RecordsChanged
<1> QED
  BY <1>0, <1>3 DEF Both, Worths

\* The bonus of one miner goes back as the bonuses of a set do.
LEMMA OneReturned ==
  ASSUME NEW m, BonusKept(m), NEW a \in Miner, m.LockedBonus[a] > 0
  PROVE  bonusReturned(m, a) = bonusesReturned(m, {a})
<1>0. a \in Address /\ m.LockedBonus \in Amounts /\ m \in MiningState
  BY FiniteMiners, MiningFields DEF BonusKept
<1> DEFINE held == {b \in {a} : m.LockedBonus[b] > 0}
           L == [b \in Address |-> IF b \in {a} THEN 0 ELSE m.LockedBonus[b]]
           sum == SumFunctionOnSet(m.LockedBonus, held)
<1>1. held = {a} /\ IsFiniteSet({a}) /\ Cardinality({a}) = 1 /\ {a} \ {a} = {}
  BY FS_Singleton
<1>2. sum = m.LockedBonus[a]
  <2>1. m.LockedBonus[a] \in Nat /\ \A y \in {a} : m.LockedBonus[y] \in Int
    BY <1>0 DEF Amounts
  <2>2. SumFunctionOnSet(m.LockedBonus, {a})
          = m.LockedBonus[a] + SumFunctionOnSet(m.LockedBonus, {a} \ {a})
    BY <1>1, <2>1, SumSplit
  <2>3. SumFunctionOnSet(m.LockedBonus, {a} \ {a}) = 0
    BY <1>1, SumEmpty
  <2> QED
    BY <1>1, <2>1, <2>2, <2>3
<1>3. [m.LockedBonus EXCEPT ![a] = 0] = L
  BY <1>0 DEF Amounts
<1>4. bonusesReturned(m, {a}) =
        [m EXCEPT !.StorageRemaining = @ + sum, !.LockedBonus = L,
                  !.BonusGrantedCount = Minus(@, Cardinality(held))]
  BY <1>0 DEF bonusesReturned, MiningState
<1>5. bonusReturned(m, a) =
        [m EXCEPT !.StorageRemaining = @ + m.LockedBonus[a], !.LockedBonus = [@ EXCEPT ![a] = 0],
                  !.BonusGrantedCount = Minus(@, 1)]
  BY <1>0 DEF bonusReturned, MiningState
<1> HIDE DEF sum, L, held
<1> QED
  BY <1>0, <1>1, <1>2, <1>3, <1>4, <1>5 DEF MiningState

\* A proof is counted; it may have earned the bonus, or lost it.
LEMMA SubmitProofKept ==
  ASSUME Both(st, mn), now \in Nat, NEW a \in Miner, SubmitProof(a)
  PROVE  Both(st', mn') /\ Worths(st', mn') = Worths(st, mn)
<1>0. a \in Address /\ BonusKept(mn) /\ WellFormed(st)
  BY FiniteMiners DEF Both
<1> DEFINE rec == proved(a)
           left == [mn EXCEPT !.challenged = @ \ {a}]
           m == [left EXCEPT !.Miners[a] = rec]
<1>1. BonusKept(left) /\ BonusWorth(left) = BonusWorth(mn) /\ left.Miners = mn.Miners
      /\ left.LockedBonus = mn.LockedBonus
  <2> DEFINE S == mn.challenged \ {a}
  <2>1. left = [mn EXCEPT !.challenged = S] /\ S \in SUBSET Address
    BY <1>0, MiningFields DEF BonusKept, MiningState
  <2> HIDE DEF left, S
  <2>2. left \in MiningState /\ left.LockedBonus = mn.LockedBonus /\ left.Miners = mn.Miners
        /\ left.BonusGrantedCount = mn.BonusGrantedCount
        /\ left.StorageRemaining = mn.StorageRemaining
    BY <1>0, <2>1 DEF BonusKept, MiningState
  <2> QED
    BY <1>0, <2>2, RecordsChanged
<1>2. rec \in MinerStats /\ rec.BonusReleased = mn.Miners[a].BonusReleased
  <2> DEFINE k == mn.Miners[a].ProofSuccess + 1
  <2>1. mn.Miners[a] \in MinerStats
    BY <1>0, MiningFields
  <2>2. k \in Nat
    BY <2>1 DEF MinerStats
  <2>3. rec = [mn.Miners[a] EXCEPT !.Status = "active", !.ProofSuccess = k,
                                   !.ConsecutiveFailures = 0]
    BY <2>1 DEF proved, MinerStats
  <2> HIDE DEF k, rec
  <2> QED
    BY <2>1, <2>2, <2>3 DEF MinerStats, MinerStatus
<1>3. m = [mn EXCEPT !.challenged = @ \ {a}, !.Miners[a] = rec]
  <2> HIDE DEF rec
  <2> QED
    BY <1>0 DEF BonusKept, MiningState
<1>4. Writes(m, left, a, rec)
  BY DEF Writes
<1>s. \/ /\ BonusPending(mn, a)
         /\ mn' = [bonusReturned(m, a) EXCEPT !.Miners[a].BonusExpired = TRUE]
         /\ UNCHANGED st
      \/ /\ BonusPending(mn, a)
         /\ mn' = [m EXCEPT !.LockedBonus[a] = 0, !.Miners[a].BonusReleased = TRUE]
         /\ st' = [st EXCEPT !.Balance[a] = @ + mn.LockedBonus[a]]
      \/ mn' = m /\ UNCHANGED st
  <2> DEFINE k == [mn EXCEPT !.challenged = @ \ {a}, !.Miners[a] = rec]
  <2>1. \/ /\ BonusPending(mn, a)
           /\ mn' = [bonusReturned(k, a) EXCEPT !.Miners[a].BonusExpired = TRUE]
           /\ UNCHANGED st
        \/ /\ BonusPending(mn, a)
           /\ mn' = [k EXCEPT !.LockedBonus[a] = 0, !.Miners[a].BonusReleased = TRUE]
           /\ st' = [st EXCEPT !.Balance[a] = @ + mn.LockedBonus[a]]
        \/ mn' = k /\ UNCHANGED st
    BY DEF SubmitProof
  <2>2. k = m
    BY <1>3
  <2> HIDE DEF k, m
  <2> QED
    BY <2>1, <2>2
<1> HIDE DEF rec, left, m
<1>5. /\ BonusKept(m) /\ BonusWorth(m) = BonusWorth(mn) /\ m.LockedBonus = mn.LockedBonus
      /\ m.Miners[a] = rec /\ m.Miners[a] \in MinerStats /\ mn.LockedBonus[a] \in Nat
  <2>1. rec.BonusReleased = left.Miners[a].BonusReleased
    BY <1>1, <1>2
  <2>2. mn.LockedBonus[a] \in Nat
    BY <1>0, MiningFields DEF Amounts
  <2> QED
    BY <1>0, <1>1, <1>2, <1>4, <2>1, <2>2, RecordWritten
<1>6. CASE /\ BonusPending(mn, a)
           /\ mn' = [bonusReturned(m, a) EXCEPT !.Miners[a].BonusExpired = TRUE]
           /\ UNCHANGED st
  <2> DEFINE b == bonusesReturned(m, {a})
             info == [b.Miners[a] EXCEPT !.BonusExpired = TRUE]
  <2>1. m.LockedBonus[a] > 0
    BY <1>5, <1>6 DEF BonusPending
  <2>2. bonusReturned(m, a) = b
    BY <1>5, <2>1, OneReturned
  <2>3. BonusKept(b) /\ BonusWorth(b) = BonusWorth(m) /\ b.Miners = m.Miners
    BY <1>5, BonusesReturned
  <2> HIDE DEF b
  <2>4. Writes(mn', b, a, info)
    BY <1>0, <1>6, <2>2, <2>3 DEF Writes, BonusKept, MiningState
  <2>5. info \in MinerStats /\ info.BonusReleased = b.Miners[a].BonusReleased
    <3>1. b.Miners[a] \in MinerStats
      BY <1>5, <2>3
    <3> QED
      BY <3>1 DEF MinerStats
  <2> HIDE DEF info
  <2>6. BonusKept(mn') /\ BonusWorth(mn') = BonusWorth(b)
    BY <1>0, <2>3, <2>4, <2>5, RecordWritten
  <2> QED
    BY <1>0, <1>5, <1>6, <2>3, <2>6 DEF Both, Worths
<1>7. CASE /\ BonusPending(mn, a)
           /\ mn' = [m EXCEPT !.LockedBonus[a] = 0, !.Miners[a].BonusReleased = TRUE]
           /\ st' = [st EXCEPT !.Balance[a] = @ + mn.LockedBonus[a]]
  <2> DEFINE x == mn.LockedBonus[a]
             L == [m.LockedBonus EXCEPT ![a] = 0]
             info == [m.Miners[a] EXCEPT !.BonusReleased = TRUE]
             M == [m.Miners EXCEPT ![a] = info]
  <2>1. m \in MiningState /\ m.Miners \in [Address -> MinerStats] /\ m.LockedBonus \in Amounts
        /\ x \in Nat /\ x > 0
    BY <1>5, <1>7, MiningFields DEF BonusKept, BonusPending
  <2>2. mn' = [m EXCEPT !.LockedBonus = L, !.Miners = M]
    BY <1>0, <1>7, <2>1 DEF MiningState
  <2>3. info \in MinerStats
    BY <1>5 DEF MinerStats
  <2>4. /\ L \in Amounts /\ L[a] = 0 /\ \A b \in Address \ {a} : L[b] = m.LockedBonus[b]
        /\ M \in [Address -> MinerStats] /\ M[a] = info
        /\ \A b \in Address \ {a} : M[b] = m.Miners[b]
    BY <1>0, <2>1, <2>3 DEF Amounts
  <2> HIDE DEF info, L, M
  <2>5. /\ mn' \in MiningState /\ mn'.LockedBonus = L /\ mn'.Miners = M
        /\ mn'.BonusGrantedCount = m.BonusGrantedCount
        /\ mn'.StorageRemaining = m.StorageRemaining
    BY <2>1, <2>2, <2>4 DEF MiningState, Amounts
  <2>6. Holders(mn') \in SUBSET Holders(m)
    <3> SUFFICES ASSUME NEW b \in Holders(mn') PROVE b \in Holders(m)
      OBVIOUS
    <3>1. b \in Miner /\ b \in Address /\ (L[b] > 0 \/ M[b].BonusReleased)
      BY <2>5, FiniteMiners DEF Holders
    <3>2. CASE b = a
      BY <1>5, <2>1, <3>1, <3>2 DEF Holders
    <3>3. CASE b # a
      BY <2>4, <3>1, <3>3 DEF Holders
    <3> QED
      BY <3>2, <3>3
  <2>7. \A b \in Address : mn'.Miners[b].BonusReleased => mn'.LockedBonus[b] = 0
    BY <1>5, <2>4, <2>5 DEF BonusKept
  <2>8. BonusKept(mn')
    <3>1. Holders(m) \in SUBSET Miner /\ Cardinality(Holders(m)) \in Nat
          /\ Cardinality(Holders(m)) <= m.BonusGrantedCount /\ m.BonusGrantedCount \in Nat
          /\ m.BonusGrantedCount <= MaxBonusAddresses
      BY <1>5, MiningFields DEF BonusKept
    <3>2. Cardinality(Holders(mn')) <= Cardinality(Holders(m))
          /\ Cardinality(Holders(mn')) \in Nat
      BY <2>6, <3>1, FiniteMiners, FS_Subset
    <3> QED
      BY <2>5, <2>7, <3>1, <3>2 DEF BonusKept
  <2>9. Total(L) = Total(m.LockedBonus) + (L[a] - m.LockedBonus[a])
    BY <1>0, <2>1, <2>4, TotalUpdate
  <2>10. BonusWorth(mn') + x = BonusWorth(m) /\ BonusWorth(mn') \in Nat
    BY <1>5, <2>4, <2>5, <2>8, <2>9, MiningFields DEF BonusWorth
  <2>11. WellFormed(st') /\ Worth(st') = Worth(st) + x
    BY <1>0, <1>7, <2>1, BalanceCredited
  <2>12. Worth(st) \in Nat
    BY <1>0, WorthNat
  <2> HIDE DEF x
  <2>13. Worth(st') + BonusWorth(mn') = Worth(st) + BonusWorth(mn)
    BY <1>5, <2>1, <2>10, <2>11, <2>12
  <2> QED
    BY <2>8, <2>11, <2>13 DEF Both, Worths
<1>8. CASE mn' = m /\ UNCHANGED st
  BY <1>0, <1>5, <1>8 DEF Both, Worths
<1> QED
  BY <1>s, <1>6, <1>7, <1>8

\* What a missed proof takes is held as a bonus or locked.
LEMMA Slashes ==
  ASSUME Both(st, mn), NEW a \in Address
  PROVE  /\ SlashFromBonus(a) \in Nat /\ SlashFromBonus(a) <= mn.LockedBonus[a]
         /\ SlashFromStake(a) \in Nat /\ SlashFromStake(a) <= st.LockedStake[a]
         /\ mn.LockedBonus[a] \in Nat /\ st.LockedStake[a] \in Nat
<1>1. mn.LockedBonus[a] \in Nat /\ st.LockedStake[a] \in Nat /\ SlashPerMissedProof \in Nat
  BY MiningFields, Fields, MiningAssumption DEF Both, Amounts
<1>2. /\ SlashFromBonus(a) \in Nat /\ SlashFromBonus(a) <= mn.LockedBonus[a]
      /\ SlashFromBonus(a) <= SlashPerMissedProof
  BY <1>1, SmallerOf DEF SlashFromBonus
<1> DEFINE rest == SlashPerMissedProof - SlashFromBonus(a)
<1>3. rest \in Nat
  BY <1>1, <1>2
<1>4. SlashFromStake(a) = Min({rest, st.LockedStake[a]})
  BY DEF SlashFromStake
<1> HIDE DEF rest
<1>5. SlashFromStake(a) \in Nat /\ SlashFromStake(a) <= st.LockedStake[a]
  BY <1>1, <1>3, <1>4, SmallerOf
<1> QED
  BY <1>1, <1>2, <1>5

\* The record of a miner that missed a proof.
LEMMA MissedRecord ==
  ASSUME Both(st, mn), NEW a \in Address, mn.deadline \in Nat
  PROVE  afterMiss(a) \in MinerStats
         /\ afterMiss(a).BonusReleased = mn.Miners[a].BonusReleased
<1> DEFINE m == mn.Miners[a]
           failures == m.ConsecutiveFailures + 1
           count == m.ProofFailure + 1
           locked == st.LockedStake[a] - SlashFromStake(a)
           depleted == /\ mn.LockedBonus[a] = SlashFromBonus(a)
                       /\ locked = 0
                       /\ SlashFromBonus(a) + SlashFromStake(a) > 0
           status == IF depleted THEN "exiting" ELSE Demoted(m.Status, failures)
           exit == IF depleted THEN mn.deadline + UnbondingPeriodSeconds ELSE m.ExitedAt
<1>1. m \in MinerStats
  BY MiningFields DEF Both
<1>2. failures \in Nat /\ count \in Nat /\ locked \in Nat
  BY <1>1, Slashes DEF MinerStats
<1>3. status \in MinerStatus /\ exit \in Nat
  <2>1. m.Status \in MinerStatus /\ m.ExitedAt \in Nat
    BY <1>1 DEF MinerStats
  <2>2. mn.deadline + UnbondingPeriodSeconds \in Nat
    BY StakingAssumption
  <2> HIDE DEF m, failures, depleted
  <2>3. Demoted(m.Status, failures) \in MinerStatus
    BY <2>1 DEF Demoted, MinerStatus
  <2> QED
    BY <2>1, <2>2, <2>3 DEF MinerStatus
<1>4. afterMiss(a) = [m EXCEPT !.ProofFailure = count, !.ConsecutiveFailures = failures,
                               !.Stake = locked, !.Status = status, !.ExitedAt = exit]
  BY <1>1 DEF afterMiss, MinerStats
<1> HIDE DEF m, failures, count, locked, status, exit
<1>5. afterMiss(a) \in MinerStats /\ afterMiss(a).BonusReleased = m.BonusReleased
  BY <1>1, <1>2, <1>3, <1>4 DEF MinerStats
<1> QED
  BY <1>5 DEF m

\* The fines of an epoch go from bonuses and stake to the fund.
LEMMA FinalizeEpochKept ==
  ASSUME Both(st, mn), now \in Nat, FinalizeEpoch
  PROVE  Both(st', mn') /\ Worths(st', mn') = Worths(st, mn)
<1>0. BonusKept(mn) /\ WellFormed(st)
  BY DEF Both
<1> DEFINE missed == mn.challenged
           ofBonus == [a \in Address |-> IF a \in missed THEN SlashFromBonus(a) ELSE 0]
           ofStake == [a \in Address |-> IF a \in missed THEN SlashFromStake(a) ELSE 0]
           fines == [a \in Address |->
                       IF a \in missed THEN SlashFromBonus(a) + SlashFromStake(a) ELSE 0]
           B == [a \in Address |->
                   IF a \in missed THEN mn.LockedBonus[a] - SlashFromBonus(a)
                   ELSE mn.LockedBonus[a]]
           L == [a \in Address |->
                   IF a \in missed THEN st.LockedStake[a] - SlashFromStake(a)
                   ELSE st.LockedStake[a]]
           M == [a \in Address |-> IF a \in missed THEN afterMiss(a) ELSE mn.Miners[a]]
           fund == st.PermanentFund + Total(fines)
           s == [st EXCEPT !.LockedStake = L, !.PermanentFund = fund]
<1>1. mn.deadline \in Nat /\ mn.Miners \in [Address -> MinerStats] /\ mn.LockedBonus \in Amounts
      /\ st.LockedStake \in Amounts /\ st.PermanentFund \in Nat
  BY <1>0, MiningFields, Fields DEF FinalizeEpoch, Time
<1>2. /\ mn' = [mn EXCEPT !.deadline = -1, !.challenged = {}, !.LockedBonus = B, !.Miners = M]
      /\ \E S \in Rotations(s) : st' = [s EXCEPT !.ConsensusValidators = S]
  <2>1. /\ mn' = [mn EXCEPT
                    !.deadline = -1,
                    !.challenged = {},
                    !.LockedBonus = [a \in Address |->
                       IF a \in missed THEN @[a] - SlashFromBonus(a) ELSE @[a]],
                    !.Miners = [a \in Address |->
                       IF a \in missed THEN afterMiss(a) ELSE @[a]]]
        /\ LET r == [st EXCEPT
                       !.LockedStake = [a \in Address |->
                          IF a \in missed THEN @[a] - SlashFromStake(a) ELSE @[a]],
                       !.PermanentFund = @ + Total(fines)]
           IN  \E S \in Rotations(r) : st' = [r EXCEPT !.ConsensusValidators = S]
    BY DEF FinalizeEpoch
  <2> QED
    BY <2>1, Zenon
<1>3. ASSUME NEW a \in Address
      PROVE  /\ ofBonus[a] \in Nat /\ ofStake[a] \in Nat /\ fines[a] \in Nat
             /\ B[a] \in Nat /\ L[a] \in Nat /\ M[a] \in MinerStats
             /\ fines[a] = ofBonus[a] + ofStake[a]
             /\ mn.LockedBonus[a] = B[a] + ofBonus[a] /\ st.LockedStake[a] = L[a] + ofStake[a]
             /\ B[a] <= mn.LockedBonus[a] /\ M[a].BonusReleased = mn.Miners[a].BonusReleased
  <2>1. /\ SlashFromBonus(a) \in Nat /\ SlashFromBonus(a) <= mn.LockedBonus[a]
        /\ SlashFromStake(a) \in Nat /\ SlashFromStake(a) <= st.LockedStake[a]
        /\ mn.LockedBonus[a] \in Nat /\ st.LockedStake[a] \in Nat
    BY Slashes
  <2>2. mn.Miners[a] \in MinerStats
    BY <1>1
  <2>3. afterMiss(a) \in MinerStats /\ afterMiss(a).BonusReleased = mn.Miners[a].BonusReleased
    BY <1>1, MissedRecord
  <2> QED
    BY <2>1, <2>2, <2>3
<1>4. ofBonus \in Amounts /\ ofStake \in Amounts /\ fines \in Amounts /\ B \in Amounts
      /\ L \in Amounts /\ M \in [Address -> MinerStats]
  BY <1>3 DEF Amounts
<1> HIDE DEF missed, ofBonus, ofStake, fines, B, L, M
<1>5. /\ Total(fines) = Total(ofBonus) + Total(ofStake)
      /\ Total(mn.LockedBonus) = Total(B) + Total(ofBonus)
      /\ Total(st.LockedStake) = Total(L) + Total(ofStake)
  <2>1. /\ \A a \in Address : fines[a] = ofBonus[a] + ofStake[a]
        /\ \A a \in Address : mn.LockedBonus[a] = B[a] + ofBonus[a]
        /\ \A a \in Address : st.LockedStake[a] = L[a] + ofStake[a]
    BY <1>3
  <2>2. Total(fines) = Total(ofBonus) + Total(ofStake)
    BY <1>4, <2>1, TotalAdd
  <2>3. Total(mn.LockedBonus) = Total(B) + Total(ofBonus)
    BY <1>1, <1>4, <2>1, TotalAdd
  <2>4. Total(st.LockedStake) = Total(L) + Total(ofStake)
    BY <1>1, <1>4, <2>1, TotalAdd
  <2> QED
    BY <2>2, <2>3, <2>4
<1>6. Total(fines) \in Nat /\ Total(ofBonus) \in Nat /\ Total(ofStake) \in Nat /\ Total(B) \in Nat
      /\ Total(L) \in Nat /\ fund \in Nat /\ fund = st.PermanentFund + Total(fines)
  BY <1>1, <1>4, TotalNat
<1>7. /\ mn' \in MiningState /\ mn'.LockedBonus = B /\ mn'.Miners = M
      /\ mn'.BonusGrantedCount = mn.BonusGrantedCount
      /\ mn'.StorageRemaining = mn.StorageRemaining
  BY <1>0, <1>2, <1>4 DEF BonusKept, MiningState, Amounts, Time
<1>8. BonusKept(mn')
  BY <1>0, <1>3, <1>7, BonusLowered
<1> HIDE DEF fund
<1>9. /\ s \in State /\ s.LockedStake = L /\ s.PermanentFund = fund
      /\ s.Balance = st.Balance /\ s.Validators = st.Validators
      /\ s.StakeDelegations = st.StakeDelegations /\ s.UnbondingEntries = st.UnbondingEntries
      /\ s.ConsensusValidators = st.ConsensusValidators
  BY <1>0, <1>4, <1>6 DEF WellFormed, State, Amounts
<1> HIDE DEF s
<1>10. PICK S \in Rotations(s) : st' = [s EXCEPT !.ConsensusValidators = S]
  BY <1>2
<1>11. S \in SUBSET Address
  <2>1. s.ConsensusValidators \in SUBSET Address
    BY <1>9 DEF State
  <2> DEFINE active == {a \in Address : s.Validators[a].Status = "active"}
             least == Min({MinConsensusValidators, MaxConsensusValidators, Cardinality(active)})
  <2>2. S \in IF active = {} THEN {s.ConsensusValidators}
              ELSE {R \in SUBSET active : Cardinality(R) \in least..MaxConsensusValidators}
    BY <1>10 DEF Rotations
  <2>3. active \in SUBSET Address
    OBVIOUS
  <2> HIDE DEF active, least
  <2> QED
    BY <2>1, <2>2, <2>3
<1>12. /\ st' \in State /\ st'.LockedStake = L /\ st'.PermanentFund = fund
       /\ st'.Balance = st.Balance /\ st'.Validators = st.Validators
       /\ st'.StakeDelegations = st.StakeDelegations /\ st'.UnbondingEntries = st.UnbondingEntries
  BY <1>9, <1>10, <1>11 DEF State
<1>13. WellFormed(st')
  BY <1>0, <1>12 DEF WellFormed
<1>14. OwedIn(st') = OwedIn(st)
  BY <1>12 DEF OwedIn
<1>15. Worths(st', mn') = Worths(st, mn)
  <2>1. /\ Total(st.Balance) \in Nat /\ Total(st.LockedStake) \in Nat
        /\ Total(st.StakeDelegations) \in Nat /\ Total(OwedIn(st)) \in Nat
        /\ st.PermanentFund \in Nat /\ mn.StorageRemaining \in Nat
        /\ Total(mn.LockedBonus) \in Nat
    BY <1>0, Totals, MiningFields
  <2>2. /\ Worth(st') = Total(st.Balance) + Total(L) + Total(st.StakeDelegations)
                          + Total(OwedIn(st)) + fund
        /\ BonusWorth(mn') = Total(B) + mn.StorageRemaining
    BY <1>7, <1>12, <1>14 DEF Worth, BonusWorth
  <2> QED
    BY <1>5, <1>6, <2>1, <2>2 DEF Worths, Worth, BonusWorth
<1> QED
  BY <1>8, <1>13, <1>15 DEF Both

-----------------------------------------------------------------------------
(***************************************************************************)
(* The invariant of the miners                                             *)
(***************************************************************************)
\* State and miners are in order, and together hold no more than genesis did.
MinerInv ==
  /\ Both(st, mn)
  /\ doubleVotes \in SUBSET DoubleVote /\ now \in Nat
  /\ Worths(st, mn) <= Total(GenesisBalance) + StoragePool

LEMMA MinerInit == MInit => MinerInv
<1> SUFFICES ASSUME MInit PROVE MinerInv
  OBVIOUS
<1>1. StakeInv
  BY StakeInit DEF MInit
<1>2. WellFormed(st) /\ doubleVotes \in SUBSET DoubleVote /\ now \in Nat
      /\ Worth(st) <= Total(GenesisBalance)
  BY <1>1 DEF StakeInv, TypeOK
<1>3. StoragePool \in Nat /\ MaxBonusAddresses \in Nat
  BY MiningAssumption
<1>4. /\ mn.Miners = [a \in Address |-> NoMiner] /\ mn.LockedBonus = Zero
      /\ mn.StorageRemaining = StoragePool /\ mn.BonusGrantedCount = 0
  BY DEF MInit
<1>5. Zero \in Amounts /\ NoMiner \in MinerStats /\ ~NoMiner.BonusReleased
  BY DEF Zero, NoMiner, Amounts, MinerStats, MinerStatus, Time
<1>6. mn \in MiningState
  <2>1. [a \in Address |-> NoMiner] \in [Address -> MinerStats]
    BY <1>5
  <2> QED
    BY <1>3, <1>5, <2>1 DEF MInit, MiningState, Amounts, Time
<1>7. Holders(mn) = {} /\ Cardinality({}) = 0
  <2>1. \A a \in Miner : mn.LockedBonus[a] = 0 /\ ~mn.Miners[a].BonusReleased
    BY <1>4, <1>5, FiniteMiners DEF Zero
  <2> QED
    BY <2>1, FS_EmptySet DEF Holders
<1>8. BonusKept(mn)
  <2>1. \A a \in Address : ~mn.Miners[a].BonusReleased
    BY <1>4, <1>5
  <2> QED
    BY <1>3, <1>4, <1>6, <1>7, <2>1 DEF BonusKept
<1>9. Total(mn.LockedBonus) = 0
  <2>1. DOMAIN Zero = Address /\ \A a \in Address : Zero[a] = 0
    BY DEF Zero
  <2> QED
    BY <1>4, <2>1, FiniteAddress, SumZero DEF Total
<1>10. GenesisBalance \in Amounts
  BY StakingAssumption DEF Amounts
<1>11. Total(GenesisBalance) \in Nat /\ Worth(st) \in Nat
  BY <1>2, <1>10, TotalNat, WorthNat
<1> QED
  BY <1>2, <1>3, <1>4, <1>8, <1>9, <1>11 DEF MinerInv, Both, Worths, BonusWorth

LEMMA MinerStepInv ==
  ASSUME MinerInv, [MNext]_mvars
  PROVE  MinerInv'
<1>0. Both(st, mn) /\ doubleVotes \in SUBSET DoubleVote /\ now \in Nat
  BY DEF MinerInv
<1>1. /\ Owner \subseteq Address /\ StakeAmount \subseteq Nat
      /\ WellFormed(st) /\ BonusKept(mn)
      /\ Worth(st) \in Nat /\ BonusWorth(mn) \in Nat /\ Worths(st, mn) \in Nat
  BY <1>0, StakingAssumption, WorthsNat DEF Both
<1>2. ASSUME Both(st', mn'), Worths(st', mn') <= Worths(st, mn),
             UNCHANGED <<doubleVotes, now>>
      PROVE  MinerInv'
  <2>1. Worths(st', mn') \in Nat
    BY <1>2, WorthsNat
  <2>2. Total(GenesisBalance) \in Nat /\ StoragePool \in Nat
    <3>1. GenesisBalance \in Amounts
      BY StakingAssumption DEF Amounts
    <3> QED
      BY <3>1, TotalNat, MiningAssumption
  <2>3. Worths(st', mn') <= Total(GenesisBalance) + StoragePool
    BY <1>1, <1>2, <2>1, <2>2 DEF MinerInv
  <2>4. Both(st, mn)' /\ Worths(st, mn)' <= Total(GenesisBalance) + StoragePool
    BY <1>2, <2>3 DEF Both, WellFormed, BonusKept, Holders, Worths, Worth, OwedIn, BonusWorth
  <2> QED
    BY <1>0, <1>2, <2>4 DEF MinerInv
<1>3. ASSUME NEW a \in Miner, MinerStep(a) PROVE MinerInv'
  <2>1. UNCHANGED <<doubleVotes, now>>
    BY <1>3 DEF MinerStep, RegisterMiner, AdjustCapacity, DeregisterMiner, FinalizeDeal,
                SubmitProof
  <2>2. Both(st', mn') /\ Worths(st', mn') <= Worths(st, mn)
    <3>1. CASE RegisterMiner(a)
      BY <1>0, <3>1, RegisterMinerKept
    <3>2. CASE AdjustCapacity(a)
      BY <1>0, <3>2, AdjustCapacityKept
    <3>3. CASE DeregisterMiner(a)
      BY <1>0, <1>1, <3>3, DeregisterMinerKept
    <3>4. CASE FinalizeDeal(a)
      BY <1>0, <1>1, <3>4, DealOrEpochKept
    <3>5. CASE SubmitProof(a)
      BY <1>0, <1>1, <3>5, SubmitProofKept
    <3> QED
      BY <1>3, <3>1, <3>2, <3>3, <3>4, <3>5 DEF MinerStep
  <2> QED
    BY <1>2, <2>1, <2>2, Zenon
<1>4. ASSUME StartEpoch PROVE MinerInv'
  <2>1. Both(st', mn') /\ Worths(st', mn') = Worths(st, mn)
    BY <1>0, <1>4, DealOrEpochKept
  <2>2. UNCHANGED <<doubleVotes, now>>
    BY <1>4 DEF StartEpoch
  <2> QED
    BY <1>1, <1>2, <2>1, <2>2
<1>5. ASSUME FinalizeEpoch PROVE MinerInv'
  <2>1. Both(st', mn') /\ Worths(st', mn') = Worths(st, mn)
    BY <1>0, <1>5, FinalizeEpochKept
  <2>2. UNCHANGED <<doubleVotes, now>>
    BY <1>5 DEF FinalizeEpoch
  <2> QED
    BY <1>1, <1>2, <2>1, <2>2
<1>6. ASSUME NEW p \in Owner, MinerBlock(p) PROVE MinerInv'
  BY <1>0, <1>2, <1>6, MinerBlockKept DEF MinerBlock
<1>7. ASSUME NEW a \in Owner, RegisterValidator(a), UNCHANGED mn PROVE MinerInv'
  <2>1. PICK k \in Address, x \in StakeAmount :
           canRegister(st, a, k, x) /\ st' = registered(st, a, k, x)
    BY <1>7 DEF RegisterValidator
  <2>2. a \in Address /\ x \in Nat
    BY <1>1
  <2>3. canReplayRegister(st, a, k, x)
    BY <1>1, <2>1, <2>2, MayRegister
  <2>4. WellFormed(st') /\ Worth(st') <= Worth(st)
    BY <1>1, <2>1, <2>2, <2>3, RegisteredKept
  <2>5. Worth(st') \in Nat
    BY <2>4, WorthNat
  <2> QED
    BY <1>1, <1>2, <1>7, <2>4, <2>5 DEF Both, Worths, RegisterValidator
<1>8. ASSUME NEW a \in Owner, DeregisterValidator(a), UNCHANGED mn PROVE MinerInv'
  <2>1. WellFormed(st') /\ Worth(st') = Worth(st)
    BY <1>1, <1>8, DeregisterKept
  <2> QED
    BY <1>1, <1>2, <1>8, <2>1 DEF Both, Worths, DeregisterValidator
<1>9. ASSUME UNCHANGED <<st, mn>>, doubleVotes' = doubleVotes, now' \in Nat PROVE MinerInv'
  <2>1. Both(st, mn)' /\ Worths(st, mn)' = Worths(st, mn)
    BY <1>0, <1>9 DEF Both, WellFormed, BonusKept, Holders, Worths, Worth, OwedIn, BonusWorth
  <2> QED
    BY <1>0, <1>9, <2>1 DEF MinerInv
<1>10. CASE Tick /\ UNCHANGED mn
  BY <1>0, <1>9, <1>10 DEF Tick
<1>11. CASE UNCHANGED mvars
  BY <1>0, <1>9, <1>11 DEF mvars
<1> QED
  BY <1>3, <1>4, <1>5, <1>6, <1>7, <1>8, <1>10, <1>11 DEF MNext

LEMMA MinerImplies == MinerInv => MNoMinting /\ BonusWithinCap
<1> SUFFICES ASSUME MinerInv PROVE MNoMinting /\ BonusWithinCap
  OBVIOUS
<1>1. WellFormed(st) /\ BonusKept(mn)
  BY DEF MinerInv, Both
<1>2. [a \in Address |-> Owed(a)] = OwedIn(st)
  BY DEF Owed, OwedIn, Of
<1>3. MTypeOK
  BY <1>1 DEF MinerInv, MTypeOK, TypeOK, WellFormed, BonusKept
<1>4. Total(st.StakeDelegations) \in Nat /\ Total(st.Balance) \in Nat
      /\ Total(st.LockedStake) \in Nat /\ Total(OwedIn(st)) \in Nat /\ st.PermanentFund \in Nat
      /\ Total(mn.LockedBonus) \in Nat /\ mn.StorageRemaining \in Nat
  BY <1>1, Totals, MiningFields
<1>5. Total(GenesisBalance) \in Nat /\ StoragePool \in Nat
  <2>1. GenesisBalance \in Amounts
    BY StakingAssumption DEF Amounts
  <2> QED
    BY <2>1, TotalNat, MiningAssumption
<1>6. MNoMinting
  BY <1>2, <1>3, <1>4, <1>5 DEF MNoMinting, MinerInv, Worths, Worth, BonusWorth
<1>7. BonusWithinCap
  BY <1>1 DEF BonusWithinCap, BonusKept, Holders
<1> QED
  BY <1>6, <1>7

\* No registration, proof, slash, refund or exit of a miner makes a token, and no
\* unsigned amount or count of theirs is carried below zero.
THEOREM MiningNoMinting == MSpec => []MNoMinting
<1>1. MInit => MinerInv
  BY MinerInit
<1>2. MinerInv /\ [MNext]_mvars => MinerInv'
  BY MinerStepInv
<1>3. MinerInv => MNoMinting
  BY MinerImplies
<1> QED
  BY <1>1, <1>2, <1>3, PTL DEF MSpec

\* However often miners register, earn or lose their bonus and leave, no more of them
\* than MaxBonusAddresses hold or keep one.
THEOREM MiningBonusCap == MSpec => []BonusWithinCap
<1>1. MInit => MinerInv
  BY MinerInit
<1>2. MinerInv /\ [MNext]_mvars => MinerInv'
  BY MinerStepInv
<1>3. MinerInv => BonusWithinCap
  BY MinerImplies
<1> QED
  BY <1>1, <1>2, <1>3, PTL DEF MSpec
=============================================================================
