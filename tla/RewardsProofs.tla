---------------------------- MODULE RewardsProofs ----------------------------
(***************************************************************************)
(* The emission for any pools, rates, stakes and weights: every token that *)
(* leaves a pool is accounted for, and what miners are credited through    *)
(* the reward index is backed by what was released to it.                  *)
(*                                                                         *)
(* A step is a few functions on the State of the node in turn.  Each is    *)
(* shown to keep what is Sound: the buckets hold what is pending, nothing  *)
(* is made or lost, and the credits, counted in units of 1/Scale of a      *)
(* token, with the remainder of the last release are within what was       *)
(* released.                                                               *)
(*                                                                         *)
(* The second part is about Contracts, for any programs: what a host call  *)
(* may do to a node's state (Effect), what the difference of two states    *)
(* does to a replica (Replayed), and with them that any two nodes stay a   *)
(* Pair, of the same tokens.  It uses nothing of the first part.           *)
(***************************************************************************)
EXTENDS Rewards, Contracts, Lemmas

-----------------------------------------------------------------------------
(***************************************************************************)
(* Sums of functions                                                       *)
(***************************************************************************)
\* A sum of natural numbers is one, and no less than any of them.
LEMMA SumOfNat ==
  ASSUME NEW D, IsFiniteSet(D), NEW f \in [D -> Nat]
  PROVE  SumOf(f) \in Nat /\ \A x \in D : f[x] <= SumOf(f)
<1>1. DOMAIN f = D /\ \A x \in D : f[x] \in Nat
  OBVIOUS
<1> QED
  BY <1>1, SumNat DEF SumOf

LEMMA SumOfInt ==
  ASSUME NEW D, IsFiniteSet(D), NEW f \in [D -> Int]
  PROVE  SumOf(f) \in Int
<1>1. DOMAIN f = D /\ \A x \in D : f[x] \in Int
  OBVIOUS
<1> QED
  BY <1>1, SumInt DEF SumOf

\* One of the numbers changes.
LEMMA SumOfUpdate ==
  ASSUME NEW D, IsFiniteSet(D), NEW f \in [D -> Int], NEW g \in [D -> Int], NEW x \in D,
         \A y \in D \ {x} : g[y] = f[y]
  PROVE  SumOf(g) = SumOf(f) + (g[x] - f[x])
<1>1. DOMAIN f = D /\ DOMAIN g = D /\ \A y \in D : f[y] \in Int /\ g[y] \in Int
  OBVIOUS
<1>2. SumFunctionOnSet(g, D) = SumFunctionOnSet(f, D) + (g[x] - f[x])
  BY <1>1, SumUpdate
<1> QED
  BY <1>1, <1>2 DEF SumOf

\* None of the numbers grows.
LEMMA SumOfLess ==
  ASSUME NEW D, IsFiniteSet(D), NEW f \in [D -> Int], NEW g \in [D -> Int],
         \A y \in D : g[y] <= f[y]
  PROVE  SumOf(g) <= SumOf(f)
<1>1. DOMAIN f = D /\ DOMAIN g = D /\ \A y \in D : f[y] \in Int /\ g[y] \in Int
  OBVIOUS
<1>2. SumFunctionOnSet(g, D) <= SumFunctionOnSet(f, D)
  BY <1>1, SumMonotone
<1> QED
  BY <1>1, <1>2 DEF SumOf

\* What is added to each is added to the sum.
LEMMA SumOfAdd ==
  ASSUME NEW D, IsFiniteSet(D), NEW f \in [D -> Int], NEW g \in [D -> Int],
         NEW h \in [D -> Int], \A y \in D : h[y] = f[y] + g[y]
  PROVE  SumOf(h) = SumOf(f) + SumOf(g)
<1>1. /\ DOMAIN f = D /\ DOMAIN g = D /\ DOMAIN h = D
      /\ \A y \in D : f[y] \in Int /\ g[y] \in Int /\ h[y] = f[y] + g[y]
  OBVIOUS
<1>2. SumFunctionOnSet(h, D) = SumFunctionOnSet(f, D) + SumFunctionOnSet(g, D)
  BY <1>1, SumAdd
<1> QED
  BY <1>1, <1>2 DEF SumOf

\* A sum of multiples.
LEMMA SumOfTimes ==
  ASSUME NEW D, IsFiniteSet(D), NEW f \in [D -> Int], NEW g \in [D -> Int], NEW c \in Int,
         \A y \in D : g[y] = c * f[y]
  PROVE  SumOf(g) = c * SumOf(f)
<1>1. DOMAIN f = D /\ DOMAIN g = D /\ \A y \in D : f[y] \in Int /\ g[y] = c * f[y]
  OBVIOUS
<1>2. SumFunctionOnSet(g, D) = c * SumFunctionOnSet(f, D)
  BY <1>1, SumTimes
<1> QED
  BY <1>1, <1>2 DEF SumOf

\* A sum of numbers none of which is more than c.
LEMMA SumOfBounded ==
  ASSUME NEW D, IsFiniteSet(D), NEW f \in [D -> Int], NEW c \in Nat, \A y \in D : f[y] <= c
  PROVE  SumOf(f) <= Cardinality(D) * c
<1>1. DOMAIN f = D /\ \A y \in D : f[y] \in Int /\ f[y] <= c
  OBVIOUS
<1>2. SumFunctionOnSet(f, D) <= Cardinality(D) * c
  BY <1>1, SumBounded
<1> QED
  BY <1>1, <1>2 DEF SumOf

\* A sum of zeroes.
LEMMA SumOfZero ==
  ASSUME NEW D, IsFiniteSet(D), NEW f \in [D -> Int], \A y \in D : f[y] = 0
  PROVE  SumOf(f) = 0
<1>1. DOMAIN f = D
  OBVIOUS
<1>2. SumFunctionOnSet(f, D) = 0
  BY SumZero
<1> QED
  BY <1>1, <1>2 DEF SumOf

-----------------------------------------------------------------------------
(***************************************************************************)
(* Arithmetic                                                              *)
(***************************************************************************)
\* The least of two numbers.
LEMMA LeastOfTwo ==
  ASSUME NEW x \in Int, NEW y \in Int
  PROVE  Min({x, y}) \in {x, y} /\ Min({x, y}) <= x /\ Min({x, y}) <= y
<1>1. IsFiniteSet({x, y}) /\ {x, y} # {} /\ {x, y} \in SUBSET Int
  <2>1. IsFiniteSet({x} \cup {y})
    BY FS_Singleton, FS_AddElement
  <2>2. {x, y} = {x} \cup {y}
    OBVIOUS
  <2> QED
    BY <2>1, <2>2
<1> QED
  BY <1>1, MinimumExists

LEMMA LeastNat ==
  ASSUME NEW x \in Nat, NEW y \in Nat, NEW k, k = Min({x, y})
  PROVE  k \in Nat /\ k <= x /\ k <= y
<1>1. Min({x, y}) \in {x, y} /\ Min({x, y}) <= x /\ Min({x, y}) <= y
  BY LeastOfTwo
<1> QED
  BY <1>1

\* What division leaves.
LEMMA Division ==
  ASSUME NEW n \in Nat, NEW d \in Nat \ {0}
  PROVE  /\ n \div d \in Nat /\ n % d \in Nat /\ n % d < d
         /\ n = d * (n \div d) + (n % d) /\ d * (n \div d) <= n
<1>1. n % d \in Nat /\ n % d < d
  OBVIOUS
<1>2. n \div d \in Nat
  OBVIOUS
<1>3. n = d * (n \div d) + (n % d)
  OBVIOUS
<1>4. d * (n \div d) <= n
  OBVIOUS
<1> QED
  BY <1>1, <1>2, <1>3, <1>4

\* A factor above zero can be cancelled.
LEMMA Cancel ==
  ASSUME NEW x \in Int, NEW y \in Int, NEW c \in Nat \ {0}, c * x <= c * y
  PROVE  x <= y
<1> SUFFICES ASSUME x > y PROVE FALSE
  OBVIOUS
<1>1. PICK k \in Nat : x = y + 1 + k
  <2>1. x - y - 1 \in Nat /\ x = y + 1 + (x - y - 1)
    OBVIOUS
  <2> QED
    BY <2>1
<1>2. c * x = c * y + c + c * k /\ c * k \in Nat /\ c * y \in Int
  BY <1>1
<1> QED
  BY <1>2

\* Products grow with a factor.
LEMMA TimesMonotone ==
  ASSUME NEW x \in Int, NEW y \in Int, NEW c \in Nat, x <= y
  PROVE  c * x <= c * y
<1>1. PICK k \in Nat : y = x + k
  <2>1. y - x \in Nat /\ y = x + (y - x)
    OBVIOUS
  <2> QED
    BY <2>1
<1>2. c * y = c * x + c * k /\ c * k \in Nat /\ c * x \in Int
  BY <1>1
<1> QED
  BY <1>2

LEMMA LessNat ==
  ASSUME NEW x \in Nat, NEW y \in Nat
  PROVE  Less(x, y) \in Nat /\ Less(x, y) <= x /\ (y <= x => Less(x, y) = x - y)
<1>1. CASE y <= x
  <2>1. Less(x, y) = x - y
    BY <1>1 DEF Less
  <2> QED
    BY <1>1, <2>1
<1>2. CASE ~(y <= x)
  <2>1. Less(x, y) = 0
    BY <1>2 DEF Less
  <2> QED
    BY <1>2, <2>1
<1> QED
  BY <1>1, <1>2

LEMMA IntFunction ==
  ASSUME NEW D, NEW f \in [D -> Nat]
  PROVE  f \in [D -> Int]
  OBVIOUS

\* What the constants are.
LEMMA Constants ==
  /\ DaySeconds \in Nat \ {0} /\ VestingDays \in Nat \ {0} /\ RecomputeInterval \in Nat \ {0}
  /\ FirstClock \in Nat /\ MaxClock \in Nat /\ DaySeconds <= FirstClock /\ FirstClock <= MaxClock
  /\ StorageInitial \in Nat /\ ValidatorInitial \in Nat /\ FoundationInitial \in Nat
  /\ RetrievalInitial \in Nat /\ PermanentFundCap \in Nat /\ MaxUsedBytes \in Nat
  /\ StorageRewardPerBlock \in Nat /\ ValidatorRewardPerBlock \in Nat
  /\ FoundationRewardPerBlock \in Nat /\ RetrievalRewardPerBlock \in Nat
  /\ Word \in Nat \ {0} /\ Scale \in Nat \ {0}
<1>1. /\ DaySeconds \in Nat \ {0} /\ VestingDays \in Nat \ {0} /\ RecomputeInterval \in Nat \ {0}
      /\ Word \in Nat \ {0} /\ Scale \in Nat \ {0}
  BY RewardsAssumption
<1>2. /\ FirstClock \in Nat /\ MaxClock \in Nat
      /\ DaySeconds <= FirstClock /\ FirstClock <= MaxClock
  BY RewardsAssumption
<1>3. /\ StorageInitial \in Nat /\ ValidatorInitial \in Nat /\ FoundationInitial \in Nat
      /\ RetrievalInitial \in Nat /\ PermanentFundCap \in Nat /\ MaxUsedBytes \in Nat
  BY RewardsAssumption
<1>4. /\ StorageRewardPerBlock \in Nat /\ ValidatorRewardPerBlock \in Nat
      /\ FoundationRewardPerBlock \in Nat /\ RetrievalRewardPerBlock \in Nat
  BY RewardsAssumption, SMTT(30)
<1> QED
  BY <1>1, <1>2, <1>3, <1>4

LEMMA Rates ==
  /\ PermanentFundInjectionBPS \in 0..10000 /\ BlockProductionRewardBPS \in 0..10000
  /\ CommissionBPS \in 0..10000
  BY RewardsAssumption

\* The sets that are summed over are finite.
LEMMA AllFinite ==
  /\ IsFiniteSet(Payee) /\ IsFiniteSet(Provider) /\ IsFiniteSet(Voter) /\ IsFiniteSet(Day)
  /\ \A S \in SUBSET Voter : IsFiniteSet(S)
  /\ \A S \in SUBSET Payee : IsFiniteSet(S)
<1>1. IsFiniteSet(DaySeconds..MaxClock)
  BY Constants, FS_Interval
<1>2. Day \subseteq DaySeconds..MaxClock
  BY DEF Day
<1>3. IsFiniteSet(Payee) /\ Voter \subseteq Payee /\ Provider \subseteq Payee
  BY RewardsAssumption
<1>4. IsFiniteSet(Voter) /\ IsFiniteSet(Provider)
  BY <1>3, FS_Subset
<1> QED
  BY <1>1, <1>2, <1>3, <1>4, FS_Subset

\* Every clock value of a run is in a day.
LEMMA DayOfClock ==
  ASSUME clock \in FirstClock..MaxClock
  PROVE  miningRewardVestingDayStart(clock) \in Day
<1> DEFINE q == clock \div DaySeconds
           d == miningRewardVestingDayStart(clock)
<1>1. clock \in Nat /\ DaySeconds \in Nat \ {0} /\ DaySeconds <= clock /\ MaxClock \in Nat
  BY Constants
<1>2. clock % DaySeconds < DaySeconds /\ clock % DaySeconds \in Nat /\ q \in Nat
      /\ d = DaySeconds * q
  BY <1>1, Division DEF miningRewardVestingDayStart
<1> HIDE DEF q
<1>3. q # 0
  BY <1>1, <1>2 DEF miningRewardVestingDayStart
<1>4. (DaySeconds * q) % DaySeconds = 0
  <2>1. \A k \in Nat, n \in Nat \ {0} : (n * k) % n = 0
    OBVIOUS
  <2> QED
    BY <1>1, <1>2, <2>1
<1>5. d \in DaySeconds..MaxClock
  <2>1. PICK k \in Nat : q = k + 1
    <3>1. q - 1 \in Nat /\ q = (q - 1) + 1
      BY <1>2, <1>3
    <3> QED
      BY <3>1
  <2>2. DaySeconds * q = DaySeconds * k + DaySeconds /\ DaySeconds * k \in Nat
    BY <1>1, <2>1
  <2> QED
    BY <1>1, <1>2, <2>2 DEF miningRewardVestingDayStart
<1> QED
  BY <1>2, <1>4, <1>5 DEF Day

-----------------------------------------------------------------------------
(***************************************************************************)
(* What holds of the State of the node                                     *)
(***************************************************************************)
Buckets == [Day -> [Total : Nat, Released : Nat]]

\* What the buckets of an account still hold.
Held(b) == [d \in Day |-> b[d].Total - b[d].Released]

Filled(b, pending) ==
  /\ \A d \in Day : b[d].Released <= b[d].Total
  /\ pending = SumOf(Held(b))

Vested(s) == \A a \in Payee : Filled(s.Bucket[a], s.Pending[a])

\* What is in the pools, the fund and the accounts.
Emitted(s) ==
  s.Storage + s.Validator + s.Foundation + s.Retrieval + s.Fund + s.unpaid
    + SumOf(s.Balance) + SumOf(s.Pending)

Genesis == StorageInitial + ValidatorInitial + FoundationInitial + RetrievalInitial

\* The credit of a miner at an index, in units of 1/Scale of a token and not rounded.
CreditOf(index, e) ==
  Scale * e.StorageRewardAccrued + (index - e.StorageRewardIndex) * storageRewardWeight(e)

Credits(s) == [m \in Provider |-> CreditOf(s.Index, s.Miners[m])]

Backed(s) ==
  /\ \A m \in Provider : s.Miners[m].StorageRewardIndex <= s.Index
  /\ SumOf(Credits(s)) + s.Remainder <= Scale * s.unpaid

Sound(s) ==
  /\ s \in RewardState
  /\ Vested(s)
  /\ Emitted(s) = Genesis
  /\ Backed(s)

RewardsInv == Sound(rw) /\ clock \in FirstClock..MaxClock

\* What a step does not change.
SamePools(r, s) ==
  /\ r.Storage = s.Storage /\ r.Validator = s.Validator
  /\ r.Foundation = s.Foundation /\ r.Retrieval = s.Retrieval
  /\ r.Fund = s.Fund /\ r.TokensReleased = s.TokensReleased

SameAccounts(r, s) == r.Balance = s.Balance /\ r.Pending = s.Pending /\ r.Bucket = s.Bucket

SameIndex(r, s) ==
  r.Index = s.Index /\ r.Remainder = s.Remainder /\ r.Miners = s.Miners /\ r.unpaid = s.unpaid

-----------------------------------------------------------------------------
(***************************************************************************)
(* Vesting                                                                 *)
(***************************************************************************)
LEMMA HeldSum ==
  ASSUME NEW b \in Buckets
  PROVE  Held(b) \in [Day -> Int] /\ SumOf(Held(b)) \in Int
<1>1. Held(b) \in [Day -> Int]
  BY DEF Buckets, Held
<1> QED
  BY <1>1, AllFinite, SumOfInt

\* One bucket changes.
LEMMA BucketChanges ==
  ASSUME NEW b \in Buckets, NEW p \in Nat, Filled(b, p), NEW day \in Day,
         NEW c \in Buckets, \A d \in Day \ {day} : c[d] = b[d],
         c[day].Released <= c[day].Total
  PROVE  Filled(c, p + (c[day].Total - c[day].Released) - (b[day].Total - b[day].Released))
<1>1. Held(b) \in [Day -> Int] /\ Held(c) \in [Day -> Int]
      /\ SumOf(Held(b)) \in Int /\ SumOf(Held(c)) \in Int
  BY HeldSum
<1>2. \A d \in Day \ {day} : Held(c)[d] = Held(b)[d]
  BY DEF Held
<1>3. Held(c)[day] = c[day].Total - c[day].Released /\ Held(b)[day] = b[day].Total - b[day].Released
  BY DEF Held
<1>4. SumOf(Held(c)) = SumOf(Held(b)) + (Held(c)[day] - Held(b)[day])
  BY <1>1, <1>2, AllFinite, SumOfUpdate
<1>5. /\ b[day].Total \in Nat /\ b[day].Released \in Nat
      /\ c[day].Total \in Nat /\ c[day].Released \in Nat
  BY DEF Buckets
<1>6. \A d \in Day : c[d].Released <= c[d].Total
  BY DEF Filled
<1>7. p = SumOf(Held(b))
  BY DEF Filled
<1> QED
  BY <1>1, <1>3, <1>4, <1>5, <1>6, <1>7 DEF Filled

\* vestMiningReward adds the amounts to what is pending, and nothing else.
LEMMA VestParts ==
  ASSUME NEW s \in RewardState, Vested(s), NEW amounts \in [Payee -> Nat],
         clock \in FirstClock..MaxClock, NEW r, r = vestMiningReward(s, amounts)
  PROVE  /\ r \in RewardState /\ Vested(r)
         /\ SumOf(r.Pending) = SumOf(s.Pending) + SumOf(amounts)
         /\ SamePools(r, s) /\ SameIndex(r, s) /\ r.Balance = s.Balance
<1> DEFINE day == miningRewardVestingDayStart(clock)
           B == [a \in Payee |-> [s.Bucket[a] EXCEPT ![day].Total = @ + amounts[a]]]
           P == [a \in Payee |-> s.Pending[a] + amounts[a]]
<1>1. day \in Day
  BY DayOfClock
<1>2. /\ s.Bucket \in [Payee -> Buckets] /\ s.Pending \in [Payee -> Nat]
  BY DEF RewardState, Buckets
<1>3. r = [s EXCEPT !.Bucket = B, !.Pending = P]
  BY DEF vestMiningReward
<1>4. ASSUME NEW a \in Payee
      PROVE  /\ B[a] \in Buckets /\ P[a] \in Nat
             /\ Filled(B[a], P[a])
  <2> HIDE DEF day
  <2> DEFINE b == s.Bucket[a]
             c == [b EXCEPT ![day].Total = @ + amounts[a]]
  <2>1. b \in Buckets /\ s.Pending[a] \in Nat /\ amounts[a] \in Nat /\ Filled(b, s.Pending[a])
    BY <1>2 DEF Vested
  <2>2. B[a] = c /\ P[a] = s.Pending[a] + amounts[a]
    OBVIOUS
  <2> HIDE DEF b, B, P
  <2>3. /\ c \in Buckets
        /\ c[day].Total = b[day].Total + amounts[a] /\ c[day].Released = b[day].Released
        /\ \A d \in Day \ {day} : c[d] = b[d]
    BY <1>1, <2>1 DEF Buckets
  <2>4. b[day].Released \in Nat /\ b[day].Total \in Nat /\ b[day].Released <= b[day].Total
    BY <1>1, <2>1 DEF Buckets, Filled
  <2> HIDE DEF c
  <2>5. Filled(c, s.Pending[a] + (c[day].Total - c[day].Released)
                    - (b[day].Total - b[day].Released))
    BY <1>1, <2>1, <2>3, <2>4, BucketChanges
  <2>6. s.Pending[a] + (c[day].Total - c[day].Released) - (b[day].Total - b[day].Released)
          = s.Pending[a] + amounts[a]
    BY <2>1, <2>3, <2>4
  <2> QED
    BY <2>1, <2>2, <2>3, <2>5, <2>6
<1>5. B \in [Payee -> Buckets] /\ P \in [Payee -> Nat]
  <2>1. B = [a \in Payee |-> B[a]] /\ P = [a \in Payee |-> P[a]]
    OBVIOUS
  <2> HIDE DEF B, P
  <2> QED
    BY <1>4, <2>1
<1> HIDE DEF B
<1>6. r \in RewardState /\ r.Bucket = B /\ r.Pending = P
  <2> HIDE DEF P
  <2> QED
    BY <1>3, <1>5 DEF RewardState, Buckets
<1>7. SamePools(r, s) /\ SameIndex(r, s) /\ r.Balance = s.Balance
  <2> HIDE DEF P
  <2> QED
    BY <1>3 DEF RewardState, SamePools, SameIndex
<1>8. SumOf(P) = SumOf(s.Pending) + SumOf(amounts)
  <2>1. \A a \in Payee : P[a] = s.Pending[a] + amounts[a]
    OBVIOUS
  <2>2. P \in [Payee -> Int] /\ s.Pending \in [Payee -> Int] /\ amounts \in [Payee -> Int]
    BY <1>2, <1>5
  <2> HIDE DEF P
  <2> QED
    BY <2>1, <2>2, AllFinite, SumOfAdd
<1>9. Vested(r)
  <2> HIDE DEF P
  <2> QED
    BY <1>4, <1>6 DEF Vested
<1> QED
  BY <1>6, <1>7, <1>8, <1>9

\* What a bucket pays out is no more than it holds.
LEMMA ReleasableBound ==
  ASSUME NEW b \in [Total : Nat, Released : Nat], NEW day \in Day, b.Released <= b.Total,
         clock \in FirstClock..MaxClock
  PROVE  Releasable(b, day) \in Nat /\ Releasable(b, day) <= b.Total - b.Released
<1> DEFINE days == Min({(clock - day) \div DaySeconds, VestingDays})
           target == IF days = VestingDays THEN b.Total ELSE (b.Total * days) \div VestingDays
<1>1. CASE clock <= day
  BY <1>1 DEF Releasable
<1>2. CASE ~(clock <= day)
  <2>1. clock - day \in Nat
    BY <1>2, Constants DEF Day
  <2>2. (clock - day) \div DaySeconds \in Nat
    BY <2>1, Constants, Division
  <2>3. days \in Nat /\ days <= VestingDays
    <3> DEFINE x == (clock - day) \div DaySeconds
               y == VestingDays
    <3>1. x \in Nat /\ y \in Nat /\ days = Min({x, y})
      BY <2>2, Constants
    <3> HIDE DEF days, x, y
    <3>2. days \in {x, y} /\ days <= x /\ days <= y
      BY <3>1, LeastOfTwo
    <3> QED
      BY <3>1, <3>2 DEF y
  <2> HIDE DEF days
  <2>4. target \in Nat /\ target <= b.Total
    BY <2>3, Constants, PartOf
  <2>5. Releasable(b, day) = Less(target, b.Released)
    BY <1>2 DEF Releasable, days
  <2> HIDE DEF target
  <2> QED
    BY <2>4, <2>5 DEF Less
<1> QED
  BY <1>1, <1>2

\* A bucket pays what it can from what is pending into the balance.
LEMMA ReleasedParts ==
  ASSUME NEW s \in RewardState, Vested(s), NEW day \in Day, NEW a \in Payee,
         clock \in FirstClock..MaxClock, NEW r, r = bucketReleased(day, a, s)
  PROVE  /\ r \in RewardState /\ Vested(r)
         /\ SumOf(r.Balance) + SumOf(r.Pending) = SumOf(s.Balance) + SumOf(s.Pending)
         /\ SamePools(r, s) /\ SameIndex(r, s)
<1> DEFINE b == s.Bucket[a][day]
           release == Min({Releasable(b, day), s.Pending[a]})
           left == [b EXCEPT !.Released = @ + release]
           now == IF left.Released >= left.Total THEN NoBucket ELSE left
           P == [s.Pending EXCEPT ![a] = s.Pending[a] - release]
           M == [s.Balance EXCEPT ![a] = s.Balance[a] + release]
           B == [s.Bucket EXCEPT ![a] = [s.Bucket[a] EXCEPT ![day] = now]]
<1>1. /\ s.Bucket \in [Payee -> Buckets] /\ s.Bucket[a] \in Buckets
      /\ s.Pending \in [Payee -> Nat] /\ s.Pending[a] \in Nat
      /\ s.Balance \in [Payee -> Nat] /\ s.Balance[a] \in Nat
      /\ b \in [Total : Nat, Released : Nat]
  BY DEF RewardState, Buckets
<1>2. Filled(s.Bucket[a], s.Pending[a]) /\ b.Released <= b.Total
  BY DEF Vested, Filled
<1>3. /\ release \in Nat /\ release <= s.Pending[a]
      /\ release <= b.Total - b.Released
  <2> HIDE DEF b
  <2>1. Releasable(b, day) \in Nat /\ Releasable(b, day) <= b.Total - b.Released
    BY <1>1, <1>2, ReleasableBound
  <2>2. release \in {Releasable(b, day), s.Pending[a]} /\ release <= Releasable(b, day)
        /\ release <= s.Pending[a]
    <3> DEFINE x == Releasable(b, day)
               y == s.Pending[a]
    <3>1. x \in Nat /\ y \in Nat /\ release = Min({x, y})
      BY <1>1, <2>1
    <3> HIDE DEF release, x, y
    <3>2. release \in {x, y} /\ release <= x /\ release <= y
      BY <3>1, LeastOfTwo
    <3> QED
      BY <3>2 DEF x, y
  <2> HIDE DEF release
  <2>3. b.Total \in Nat /\ b.Released \in Nat
    BY <1>1
  <2> QED
    BY <1>1, <2>1, <2>2, <2>3
<1>4. r = [s EXCEPT !.Pending = P, !.Balance = M, !.Bucket = B]
  BY DEF bucketReleased
<1> HIDE DEF release
<1>5. /\ now \in [Total : Nat, Released : Nat] /\ now.Released <= now.Total
      /\ now.Total - now.Released = (b.Total - b.Released) - release
  <2> HIDE DEF b
  <2>1. /\ left \in [Total : Nat, Released : Nat]
        /\ left.Total = b.Total /\ left.Released = b.Released + release
    BY <1>1, <1>3
  <2> HIDE DEF left
  <2>2. b.Total \in Nat /\ b.Released \in Nat
    BY <1>1
  <2>3. CASE left.Released >= left.Total
    <3>1. now = NoBucket
      BY <2>3
    <3>2. b.Released + release = b.Total
      BY <1>3, <2>1, <2>2, <2>3
    <3> HIDE DEF now
    <3> QED
      BY <1>3, <2>2, <3>1, <3>2 DEF NoBucket
  <2>4. CASE ~(left.Released >= left.Total)
    <3>1. now = left
      BY <2>4
    <3> HIDE DEF now
    <3> QED
      BY <1>3, <2>1, <2>2, <2>4, <3>1
  <2> QED
    BY <2>3, <2>4
<1> DEFINE c == [s.Bucket[a] EXCEPT ![day] = now]
<1>6. /\ c \in Buckets /\ c[day] = now /\ \A d \in Day \ {day} : c[d] = s.Bucket[a][d]
  <2> HIDE DEF now
  <2> QED
    BY <1>1, <1>5 DEF Buckets
<1>7. B = [s.Bucket EXCEPT ![a] = c]
  OBVIOUS
<1> HIDE DEF c, now
<1>8. Filled(c, s.Pending[a] - release)
  <2>1. Filled(c, s.Pending[a] + (c[day].Total - c[day].Released)
                    - (s.Bucket[a][day].Total - s.Bucket[a][day].Released))
    BY <1>1, <1>2, <1>5, <1>6, BucketChanges
  <2>2. c[day].Total - c[day].Released = (b.Total - b.Released) - release
    BY <1>5, <1>6
  <2>3. b.Total \in Nat /\ b.Released \in Nat
    BY <1>1
  <2>4. s.Pending[a] + (c[day].Total - c[day].Released) - (b.Total - b.Released)
          = s.Pending[a] - release
    BY <1>1, <1>3, <2>2, <2>3
  <2> QED
    BY <2>1, <2>4
<1> HIDE DEF b
<1>9. /\ P \in [Payee -> Nat] /\ M \in [Payee -> Nat] /\ B \in [Payee -> Buckets]
      /\ P[a] = s.Pending[a] - release /\ M[a] = s.Balance[a] + release /\ B[a] = c
      /\ \A x \in Payee \ {a} : P[x] = s.Pending[x] /\ M[x] = s.Balance[x] /\ B[x] = s.Bucket[x]
  <2> HIDE DEF B
  <2> QED
    BY <1>1, <1>3, <1>6, <1>7
<1> HIDE DEF P, M, B
<1>10. r \in RewardState /\ r.Bucket = B /\ r.Pending = P /\ r.Balance = M
  BY <1>4, <1>9, ZenonT(30) DEF RewardState, Buckets
<1>11. SamePools(r, s) /\ SameIndex(r, s)
  BY <1>4 DEF RewardState, SamePools, SameIndex
<1>12. Vested(r)
  <2> SUFFICES ASSUME NEW x \in Payee PROVE Filled(r.Bucket[x], r.Pending[x])
    BY DEF Vested
  <2>1. CASE x = a
    BY <1>8, <1>9, <1>10, <2>1
  <2>2. CASE x # a
    BY <1>9, <1>10, <2>2 DEF Vested
  <2> QED
    BY <2>1, <2>2
<1>13. /\ SumOf(P) = SumOf(s.Pending) + (P[a] - s.Pending[a])
       /\ SumOf(M) = SumOf(s.Balance) + (M[a] - s.Balance[a])
  <2>1. /\ P \in [Payee -> Int] /\ s.Pending \in [Payee -> Int]
        /\ M \in [Payee -> Int] /\ s.Balance \in [Payee -> Int]
    BY <1>1, <1>9
  <2> QED
    BY <1>9, <2>1, AllFinite, SumOfUpdate
<1>14. SumOf(s.Pending) \in Nat /\ SumOf(s.Balance) \in Nat
  BY <1>1, AllFinite, SumOfNat
<1> QED
  BY <1>1, <1>3, <1>9, <1>10, <1>11, <1>12, <1>13, <1>14

\* The credits depend on the index and the miners only.
LEMMA BackedSame ==
  ASSUME NEW s, NEW r, Backed(s), SameIndex(r, s)
  PROVE  Backed(r)
  BY DEF Backed, Credits, SameIndex

-----------------------------------------------------------------------------
(***************************************************************************)
(* Claims                                                                  *)
(***************************************************************************)
\* The states a claim goes through.
Claiming ==
  {t \in RewardState :
     /\ Vested(t)
     /\ SumOf(t.Balance) + SumOf(t.Pending) = SumOf(rw.Balance) + SumOf(rw.Pending)
     /\ SamePools(t, rw) /\ SameIndex(t, rw)}

\* The buckets that come in this order are paid one after the other.
Claims(g, order, a) ==
  g = [k \in 0..Cardinality(Day) |->
         IF k = 0 THEN rw ELSE bucketReleased(order[k], a, g[k - 1])]

\* A bucket paid leads from one of these states to another.
LEMMA ClaimingStep ==
  ASSUME RewardsInv, NEW t \in Claiming, NEW day \in Day, NEW a \in Payee
  PROVE  bucketReleased(day, a, t) \in Claiming
<1> DEFINE r == bucketReleased(day, a, t)
<1>1. /\ t \in RewardState /\ Vested(t) /\ SamePools(t, rw) /\ SameIndex(t, rw)
      /\ SumOf(t.Balance) + SumOf(t.Pending) = SumOf(rw.Balance) + SumOf(rw.Pending)
  BY DEF Claiming
<1>2. clock \in FirstClock..MaxClock
  BY DEF RewardsInv
<1>3. /\ r \in RewardState /\ Vested(r)
      /\ SumOf(r.Balance) + SumOf(r.Pending) = SumOf(t.Balance) + SumOf(t.Pending)
      /\ SamePools(r, t) /\ SameIndex(r, t)
  BY <1>1, <1>2, ReleasedParts
<1> HIDE DEF r
<1>4. SamePools(r, rw) /\ SameIndex(r, rw)
  BY <1>1, <1>3 DEF SamePools, SameIndex
<1> QED
  BY <1>1, <1>3, <1>4 DEF Claiming, r

\* The recursion is one: there is a function like this, and it stays in these states.
LEMMA ClaimUnfolds ==
  ASSUME RewardsInv, NEW order \in DayOrder, NEW a \in Payee
  PROVE  \E g : Claims(g, order, a) /\ \A k \in 0..Cardinality(Day) : g[k] \in Claiming
<1> DEFINE n == Cardinality(Day)
           F == [k \in 1..n |-> [t \in Claiming |-> bucketReleased(order[k], a, t)]]
<1>1. n \in Nat
  BY AllFinite, FS_CardinalityType
<1>2. order \in [1..n -> Day]
  BY DEF DayOrder, Bijection, Injection
<1>3. rw \in Claiming
  BY DEF RewardsInv, Sound, Claiming, SamePools, SameIndex
<1> HIDE DEF n
<1>4. StepsIn(F, n, Claiming)
  <2>1. ASSUME NEW k \in 1..n, NEW t \in Claiming PROVE bucketReleased(order[k], a, t) \in Claiming
    BY <1>2, ClaimingStep
  <2> QED
    BY <2>1 DEF StepsIn
<1>5. PICK g : Recurs(g, n, Claiming, rw, F)
  <2> HIDE DEF F
  <2> QED
    BY <1>1, <1>3, <1>4, Recursion
<1>6. /\ g \in [0..n -> Claiming] /\ g[0] = rw
      /\ \A k \in 1..n : g[k] = F[k][g[k - 1]]
  BY <1>5 DEF Recurs
<1>7. \A k \in 1..n : g[k] = bucketReleased(order[k], a, g[k - 1])
  <2> SUFFICES ASSUME NEW k \in 1..n PROVE g[k] = bucketReleased(order[k], a, g[k - 1])
    OBVIOUS
  <2>1. g[k - 1] \in Claiming
    BY <1>1, <1>6
  <2> QED
    BY <1>6, <2>1
<1> DEFINE h == [k \in 0..n |-> IF k = 0 THEN rw ELSE bucketReleased(order[k], a, g[k - 1])]
<1>8. g = h
  <2>1. \A k \in 0..n : g[k] = h[k]
    BY <1>1, <1>6, <1>7
  <2> QED
    BY <1>6, <2>1
<1>9. Claims(g, order, a)
  BY <1>8 DEF Claims, n
<1> QED
  BY <1>6, <1>9 DEF n

LEMMA ClaimStep ==
  ASSUME RewardsInv, NEW a \in Payee, ClaimMiningRewards(a)
  PROVE  RewardsInv'
<1>1. PICK order \in DayOrder :
        /\ rw' = (CHOOSE g : Claims(g, order, a))[Cardinality(Day)]
        /\ clock' = clock
  BY DEF ClaimMiningRewards, Claims
<1> DEFINE g == CHOOSE g : Claims(g, order, a)
<1>2. PICK f : Claims(f, order, a) /\ \A k \in 0..Cardinality(Day) : f[k] \in Claiming
  BY ClaimUnfolds
<1>3. Claims(g, order, a)
  BY <1>2
<1> DEFINE n == Cardinality(Day)
<1>4. n \in Nat
  BY AllFinite, FS_CardinalityType
<1> HIDE DEF g
<1>5. g[n] \in Claiming
  <2> DEFINE T == {k \in 0..n : g[k] \in Claiming}
  <2>0. order \in [1..n -> Day]
    BY DEF DayOrder, Bijection, Injection
  <2>1. \A k \in 0..n : g[k] = IF k = 0 THEN rw ELSE bucketReleased(order[k], a, g[k - 1])
    BY <1>3 DEF Claims
  <2>2. 0 \in T
    <3>1. rw \in Claiming
      BY DEF RewardsInv, Sound, Claiming, SamePools, SameIndex
    <3> QED
      BY <1>4, <2>1, <3>1
  <2>3. ASSUME NEW k \in 0..(n - 1), k \in T PROVE k + 1 \in T
    <3>1. k + 1 \in 1..n /\ (k + 1) - 1 = k /\ g[k] \in Claiming
      BY <1>4, <2>3
    <3>2. order[k + 1] \in Day
      BY <2>0, <3>1
    <3>3. bucketReleased(order[k + 1], a, g[k]) \in Claiming
      BY <3>1, <3>2, ClaimingStep
    <3>4. g[k + 1] = bucketReleased(order[k + 1], a, g[k])
      BY <1>4, <2>1, <3>1
    <3> QED
      BY <3>1, <3>3, <3>4
  <2> HIDE DEF T, n
  <2>4. \A k \in 0..n : k \in T
    BY <1>4, <2>2, <2>3, IntervalInduction
  <2> QED
    BY <1>4, <2>4 DEF T
<1>6. rw' \in Claiming
  BY <1>1, <1>5 DEF g
<1>7. Sound(rw')
  <2>1. /\ rw' \in RewardState /\ Vested(rw') /\ SamePools(rw', rw) /\ SameIndex(rw', rw)
        /\ SumOf(rw'.Balance) + SumOf(rw'.Pending) = SumOf(rw.Balance) + SumOf(rw.Pending)
    BY <1>6 DEF Claiming
  <2>2. Sound(rw)
    BY DEF RewardsInv
  <2>3. Backed(rw')
    BY <2>1, <2>2, BackedSame DEF Sound
  <2>4. Emitted(rw') = Emitted(rw)
    <3>1. /\ SumOf(rw.Balance) \in Nat /\ SumOf(rw.Pending) \in Nat
          /\ SumOf(rw'.Balance) \in Nat /\ SumOf(rw'.Pending) \in Nat
      BY <2>1, <2>2, AllFinite, SumOfNat DEF Sound, RewardState
    <3>2. /\ rw.Storage \in Nat /\ rw.Validator \in Nat /\ rw.Foundation \in Nat
          /\ rw.Retrieval \in Nat /\ rw.Fund \in Nat /\ rw.unpaid \in Nat
      BY <2>2 DEF Sound, RewardState
    <3> QED
      BY <2>1, <3>1, <3>2 DEF Emitted, SamePools, SameIndex
  <2> QED
    BY <2>1, <2>2, <2>3, <2>4 DEF Sound
<1> QED
  BY <1>1, <1>7 DEF RewardsInv

-----------------------------------------------------------------------------
(***************************************************************************)
(* Miners and the index                                                    *)
(***************************************************************************)
LEMMA WeightBound ==
  ASSUME NEW e \in Earner
  PROVE  storageRewardWeight(e) \in Nat /\ storageRewardWeight(e) <= MaxUsedBytes
<1>1. e.UsedBytes \in 0..MaxUsedBytes /\ e.EffectiveWeight \in 0..MaxUsedBytes
  BY DEF Earner
<1>2. MaxUsedBytes \in Nat
  BY Constants
<1> QED
  BY <1>1, <1>2 DEF storageRewardWeight

LEMMA CreditNat ==
  ASSUME NEW index \in Nat, NEW e \in Earner, e.StorageRewardIndex <= index
  PROVE  /\ CreditOf(index, e) \in Nat
         /\ Scale * e.StorageRewardAccrued \in Nat
         /\ Scale * e.StorageRewardAccrued <= CreditOf(index, e)
<1>1. e.StorageRewardAccrued \in Nat /\ e.StorageRewardIndex \in Nat
  BY DEF Earner
<1>2. storageRewardWeight(e) \in Nat
  BY WeightBound
<1>3. index - e.StorageRewardIndex \in Nat
  BY <1>1
<1>4. (index - e.StorageRewardIndex) * storageRewardWeight(e) \in Nat
  BY <1>2, <1>3
<1>5. Scale * e.StorageRewardAccrued \in Nat
  BY <1>1, Constants
<1> QED
  BY <1>4, <1>5 DEF CreditOf

\* A miner that was just credited has no more than what is booked, whatever its weight.
LEMMA CreditedNow ==
  ASSUME NEW index \in Nat, NEW e \in Earner, e.StorageRewardIndex = index
  PROVE  CreditOf(index, e) = Scale * e.StorageRewardAccrued
<1>1. e.StorageRewardAccrued \in Nat /\ Scale \in Nat
  BY Constants DEF Earner
<1>2. storageRewardWeight(e) \in Nat
  BY WeightBound
<1>3. (index - e.StorageRewardIndex) * storageRewardWeight(e) = 0
  BY <1>2
<1>4. Scale * e.StorageRewardAccrued \in Nat
  BY <1>1
<1> QED
  BY <1>3, <1>4 DEF CreditOf

\* Crediting a miner rounds down.
LEMMA AccruedParts ==
  ASSUME NEW s \in RewardState, NEW e \in Earner, e.StorageRewardIndex <= s.Index,
         NEW f, f = accrued(s, e)
  PROVE  /\ f \in Earner /\ f.StorageRewardIndex = s.Index
         /\ f.Status = e.Status /\ f.UsedBytes = e.UsedBytes
         /\ f.EffectiveWeight = e.EffectiveWeight
         /\ Scale * f.StorageRewardAccrued <= CreditOf(s.Index, e)
         /\ f.StorageRewardAccrued = e.StorageRewardAccrued + unsettledStorageReward(s, e)
         /\ unsettledStorageReward(s, e) \in Nat
<1> DEFINE u == unsettledStorageReward(s, e)
           w == storageRewardWeight(e)
           d == s.Index - e.StorageRewardIndex
<1>1. /\ e.StorageRewardAccrued \in Nat /\ e.StorageRewardIndex \in Nat
      /\ s.Index \in Nat /\ Scale \in Nat \ {0}
  BY Constants DEF Earner, RewardState
<1>2. w \in Nat /\ d \in Nat
  BY <1>1, WeightBound
<1>3. d * w \in Nat
  <2> HIDE DEF d, w
  <2> QED
    BY <1>2
<1>4. u = (d * w) \div Scale
  BY <1>1, <1>2 DEF unsettledStorageReward, Less
<1>5. u \in Nat /\ Scale * u <= d * w
  <2> DEFINE x == d * w
  <2>1. x \in Nat /\ u = x \div Scale
    BY <1>3, <1>4
  <2> HIDE DEF u, x
  <2>2. u \in Nat /\ Scale * u <= x
    BY <1>1, <2>1, Division
  <2> QED
    BY <2>2 DEF x
<1>6. f = [e EXCEPT !.StorageRewardAccrued = e.StorageRewardAccrued + u,
                    !.StorageRewardIndex = s.Index]
  BY DEF accrued
<1> HIDE DEF u, w, d
<1>7. /\ f \in Earner /\ f.StorageRewardIndex = s.Index
      /\ f.Status = e.Status /\ f.UsedBytes = e.UsedBytes
      /\ f.EffectiveWeight = e.EffectiveWeight
      /\ f.StorageRewardAccrued = e.StorageRewardAccrued + u
  <2> DEFINE x == e.StorageRewardAccrued + u
             y == s.Index
  <2>1. x \in Nat /\ y \in Nat
    BY <1>1, <1>5
  <2>2. f = [e EXCEPT !.StorageRewardAccrued = x, !.StorageRewardIndex = y]
    BY <1>6
  <2> HIDE DEF x, y
  <2>3. f \in Earner
    BY <2>1, <2>2 DEF Earner
  <2>4. /\ f.Status = e.Status /\ f.UsedBytes = e.UsedBytes
        /\ f.EffectiveWeight = e.EffectiveWeight
        /\ f.StorageRewardAccrued = x /\ f.StorageRewardIndex = y
    BY <2>1, <2>2 DEF Earner
  <2> QED
    BY <2>3, <2>4 DEF x, y
<1>8. Scale * f.StorageRewardAccrued <= CreditOf(s.Index, e)
  <2>1. Scale * (e.StorageRewardAccrued + u) = Scale * e.StorageRewardAccrued + Scale * u
        /\ Scale * e.StorageRewardAccrued \in Nat /\ Scale * u \in Nat
    BY <1>1, <1>5
  <2> QED
    BY <1>3, <1>5, <1>7, <2>1 DEF CreditOf, w, d
<1> QED
  BY <1>5, <1>7, <1>8 DEF u

\* The credit of a miner does not grow.
NoMoreCredit(s, e, f) ==
  /\ f \in Earner /\ f.StorageRewardIndex <= s.Index
  /\ CreditOf(s.Index, f) <= CreditOf(s.Index, e)

LEMMA AccruedNoMore ==
  ASSUME NEW s \in RewardState, NEW e \in Earner, e.StorageRewardIndex <= s.Index
  PROVE  NoMoreCredit(s, e, accrued(s, e))
<1> DEFINE f == accrued(s, e)
<1>1. /\ f \in Earner /\ f.StorageRewardIndex = s.Index
      /\ Scale * f.StorageRewardAccrued <= CreditOf(s.Index, e)
  BY AccruedParts
<1> HIDE DEF f
<1>2. s.Index \in Nat
  BY DEF RewardState
<1> QED
  BY <1>1, <1>2, CreditedNow DEF NoMoreCredit, f

\* A miner that was credited first may then have any status, bytes and weight.
LEMMA CreditedFirst ==
  ASSUME NEW s \in RewardState, NEW e \in Earner, e.StorageRewardIndex <= s.Index,
         NEW f \in Earner, f.StorageRewardIndex = s.Index,
         f.StorageRewardAccrued = accrued(s, e).StorageRewardAccrued
  PROVE  NoMoreCredit(s, e, f)
<1> DEFINE g == accrued(s, e)
<1>1. Scale * g.StorageRewardAccrued <= CreditOf(s.Index, e)
  BY AccruedParts
<1>2. f.StorageRewardAccrued = g.StorageRewardAccrued
  OBVIOUS
<1> HIDE DEF g
<1>3. s.Index \in Nat
  BY DEF RewardState
<1> QED
  BY <1>1, <1>2, <1>3, CreditedNow DEF NoMoreCredit

\* A miner may lose weight without being credited.
LEMMA LighterNoMore ==
  ASSUME NEW s \in RewardState, NEW e \in Earner, e.StorageRewardIndex <= s.Index,
         NEW f \in Earner, f.StorageRewardIndex = e.StorageRewardIndex,
         f.StorageRewardAccrued = e.StorageRewardAccrued,
         storageRewardWeight(f) <= storageRewardWeight(e)
  PROVE  NoMoreCredit(s, e, f)
<1> DEFINE w == storageRewardWeight(e)
           v == storageRewardWeight(f)
           d == s.Index - e.StorageRewardIndex
<1>1. w \in Nat /\ v \in Nat /\ v <= w
  BY WeightBound
<1>2. /\ e.StorageRewardAccrued \in Nat /\ e.StorageRewardIndex \in Nat
      /\ s.Index \in Nat /\ Scale \in Nat \ {0} /\ d \in Nat
  BY Constants DEF Earner, RewardState
<1>3. CreditOf(s.Index, e) = Scale * e.StorageRewardAccrued + d * w
      /\ CreditOf(s.Index, f) = Scale * e.StorageRewardAccrued + d * v
  BY DEF CreditOf
<1> HIDE DEF w, v, d
<1>4. d * v <= d * w /\ d * v \in Int /\ d * w \in Int
  BY <1>1, <1>2, TimesMonotone
<1>5. Scale * e.StorageRewardAccrued \in Nat
  BY <1>2
<1>6. CreditOf(s.Index, f) <= CreditOf(s.Index, e)
  BY <1>3, <1>4, <1>5
<1> QED
  BY <1>2, <1>6 DEF NoMoreCredit

\* What is credited in all.
LEMMA CreditsNat ==
  ASSUME NEW s \in RewardState, \A m \in Provider : s.Miners[m].StorageRewardIndex <= s.Index
  PROVE  Credits(s) \in [Provider -> Nat] /\ SumOf(Credits(s)) \in Nat
<1>1. s.Miners \in [Provider -> Earner] /\ s.Index \in Nat
  BY DEF RewardState
<1>2. Credits(s) \in [Provider -> Nat]
  BY <1>1, CreditNat DEF Credits
<1> QED
  BY <1>2, AllFinite, SumOfNat

\* Nothing changes but the records of miners, and when they were weighed last.
OnlyMiners(r, s) ==
  /\ r \in RewardState
  /\ SamePools(r, s) /\ SameAccounts(r, s)
  /\ r.Index = s.Index /\ r.Remainder = s.Remainder /\ r.unpaid = s.unpaid

\* The records of miners change and no credit grows.
LEMMA MinersChange ==
  ASSUME NEW s, Sound(s), NEW r, OnlyMiners(r, s),
         \A m \in Provider : NoMoreCredit(s, s.Miners[m], r.Miners[m])
  PROVE  Sound(r)
<1>1. /\ s \in RewardState /\ Vested(s) /\ Emitted(s) = Genesis
      /\ \A m \in Provider : s.Miners[m].StorageRewardIndex <= s.Index
      /\ SumOf(Credits(s)) + s.Remainder <= Scale * s.unpaid
  BY DEF Sound, Backed
<1>2. /\ r \in RewardState /\ SamePools(r, s) /\ SameAccounts(r, s)
      /\ r.Index = s.Index /\ r.Remainder = s.Remainder /\ r.unpaid = s.unpaid
  BY DEF OnlyMiners
<1>3. Vested(r) /\ Emitted(r) = Genesis
  BY <1>1, <1>2 DEF Vested, Emitted, SamePools, SameAccounts
<1>4. \A m \in Provider : r.Miners[m].StorageRewardIndex <= r.Index
  BY <1>2 DEF NoMoreCredit
<1>5. /\ Credits(s) \in [Provider -> Nat] /\ SumOf(Credits(s)) \in Nat
      /\ Credits(r) \in [Provider -> Nat] /\ SumOf(Credits(r)) \in Nat
  BY <1>1, <1>2, <1>4, CreditsNat
<1>6. \A m \in Provider : Credits(r)[m] <= Credits(s)[m]
  BY <1>2 DEF Credits, NoMoreCredit
<1>7. SumOf(Credits(r)) <= SumOf(Credits(s))
  <2>1. Credits(s) \in [Provider -> Int] /\ Credits(r) \in [Provider -> Int]
    BY <1>5, IntFunction, Zenon
  <2> QED
    BY <1>6, <2>1, AllFinite, SumOfLess
<1>8. s.Remainder \in Nat /\ Scale * s.unpaid \in Nat
  BY <1>1, Constants DEF RewardState
<1>9. Backed(r)
  BY <1>1, <1>2, <1>4, <1>5, <1>7, <1>8 DEF Backed
<1> QED
  BY <1>2, <1>3, <1>9 DEF Sound

\* One record is written.
Puts(r, s, m, e) == r = [s EXCEPT !.Miners = [s.Miners EXCEPT ![m] = e]]

LEMMA PutMiner ==
  ASSUME NEW s \in RewardState, NEW m \in Provider, NEW e \in Earner, NEW r, Puts(r, s, m, e)
  PROVE  /\ OnlyMiners(r, s) /\ r.LastRecompute = s.LastRecompute
         /\ r.Miners[m] = e
         /\ \A p \in Provider \ {m} : r.Miners[p] = s.Miners[p]
<1> DEFINE M == [s.Miners EXCEPT ![m] = e]
<1>1. /\ M \in [Provider -> Earner] /\ M[m] = e
      /\ \A p \in Provider \ {m} : M[p] = s.Miners[p]
  BY DEF RewardState
<1>2. r = [s EXCEPT !.Miners = M]
  BY DEF Puts
<1> HIDE DEF M
<1>3. r \in RewardState /\ r.Miners = M
  BY <1>1, <1>2 DEF RewardState
<1>4. SamePools(r, s) /\ SameAccounts(r, s) /\ r.LastRecompute = s.LastRecompute
      /\ r.Index = s.Index /\ r.Remainder = s.Remainder /\ r.unpaid = s.unpaid
  BY <1>2 DEF RewardState, SamePools, SameAccounts
<1> QED
  BY <1>1, <1>3, <1>4 DEF OnlyMiners

\* What is not touched has no more credit than it had.
LEMMA SameNoMore ==
  ASSUME NEW s \in RewardState, NEW e \in Earner, e.StorageRewardIndex <= s.Index
  PROVE  NoMoreCredit(s, e, e)
<1>1. CreditOf(s.Index, e) \in Nat
  BY CreditNat DEF RewardState
<1> QED
  BY <1>1 DEF NoMoreCredit

\* One record is written, and the miner has no more credit.
LEMMA MinerChange ==
  ASSUME NEW s, Sound(s), NEW m \in Provider, NEW e, NoMoreCredit(s, s.Miners[m], e),
         NEW r, Puts(r, s, m, e)
  PROVE  Sound(r)
<1>1. e \in Earner /\ s \in RewardState
      /\ \A p \in Provider : s.Miners[p] \in Earner /\ s.Miners[p].StorageRewardIndex <= s.Index
  BY DEF NoMoreCredit, Sound, Backed, RewardState
<1>2. /\ OnlyMiners(r, s) /\ r.Miners[m] = e
      /\ \A p \in Provider \ {m} : r.Miners[p] = s.Miners[p]
  BY <1>1, PutMiner
<1>3. \A p \in Provider : NoMoreCredit(s, s.Miners[p], r.Miners[p])
  BY <1>1, <1>2, SameNoMore
<1> QED
  BY <1>2, <1>3, MinersChange

\* What is known of the miners of a sound State.
LEMMA MinerTypes ==
  ASSUME NEW s, Sound(s), NEW m \in Provider
  PROVE  /\ s \in RewardState /\ s.Miners \in [Provider -> Earner]
         /\ s.Miners[m] \in Earner /\ s.Miners[m].StorageRewardIndex <= s.Index
         /\ s.Index \in Nat
  BY DEF Sound, Backed, RewardState

\* A miner is credited, and its record is then written again.
LEMMA AccruedThen ==
  ASSUME NEW s, Sound(s), NEW m \in Provider, NEW f \in Earner,
         f.StorageRewardIndex = s.Index,
         f.StorageRewardAccrued = accrued(s, s.Miners[m]).StorageRewardAccrued,
         NEW t, t = accrueStorageRewardForMiner(s, m),
         NEW r, Puts(r, t, m, f)
  PROVE  /\ Sound(r) /\ Sound(t) /\ t.Miners[m] = accrued(s, s.Miners[m])
         /\ OnlyMiners(r, s) /\ r.Miners[m] = f
         /\ \A p \in Provider \ {m} : r.Miners[p] = s.Miners[p]
<1> DEFINE g == accrued(s, s.Miners[m])
<1>1. /\ s \in RewardState /\ s.Miners \in [Provider -> Earner]
      /\ s.Miners[m] \in Earner /\ s.Miners[m].StorageRewardIndex <= s.Index
  BY MinerTypes
<1>2. NoMoreCredit(s, s.Miners[m], g)
  BY <1>1, AccruedNoMore
<1>3. Puts(t, s, m, g)
  BY DEF accrueStorageRewardForMiner, Puts
<1>4. NoMoreCredit(s, s.Miners[m], f)
  BY <1>1, CreditedFirst
<1> HIDE DEF g
<1>5. Sound(t)
  BY <1>2, <1>3, MinerChange
<1>6. /\ OnlyMiners(t, s) /\ t.Miners[m] = g
      /\ \A p \in Provider \ {m} : t.Miners[p] = s.Miners[p]
  BY <1>1, <1>2, <1>3, PutMiner DEF NoMoreCredit
<1>7. t \in RewardState
  BY <1>6 DEF OnlyMiners
<1>8. /\ OnlyMiners(r, t) /\ r.Miners[m] = f
      /\ \A p \in Provider \ {m} : r.Miners[p] = t.Miners[p]
  BY <1>7, PutMiner
<1>9. OnlyMiners(r, s)
  BY <1>6, <1>8 DEF OnlyMiners, SamePools, SameAccounts
<1>10. \A p \in Provider : NoMoreCredit(s, s.Miners[p], r.Miners[p])
  <2> SUFFICES ASSUME NEW p \in Provider PROVE NoMoreCredit(s, s.Miners[p], r.Miners[p])
    OBVIOUS
  <2>1. s.Miners[p] \in Earner /\ s.Miners[p].StorageRewardIndex <= s.Index
    BY MinerTypes
  <2>2. CASE p = m
    BY <1>4, <1>8, <2>2
  <2>3. CASE p # m
    BY <1>1, <1>6, <1>8, <2>1, <2>3, SameNoMore
  <2> QED
    BY <2>2, <2>3
<1> QED
  BY <1>5, <1>6, <1>8, <1>9, <1>10, MinersChange DEF g

-----------------------------------------------------------------------------
(***************************************************************************)
(* What miners do                                                          *)
(***************************************************************************)
LEMMA EnterStep ==
  ASSUME RewardsInv, NEW m \in Provider, EnterMiner(m)
  PROVE  RewardsInv'
<1>1. Sound(rw) /\ clock \in FirstClock..MaxClock /\ clock' = clock
  BY DEF RewardsInv, EnterMiner
<1>2. /\ rw \in RewardState /\ rw.Miners[m] \in Earner /\ rw.Index \in Nat
      /\ rw.Miners[m].StorageRewardIndex <= rw.Index
  BY <1>1, MinerTypes
<1>3. CASE /\ rw.Miners[m].Status = "none"
           /\ rw' = [rw EXCEPT !.Miners[m].Status = "active",
                               !.Miners[m].StorageRewardIndex = rw.Index]
  <2> DEFINE e == rw.Miners[m]
             f == [e EXCEPT !.Status = "active", !.StorageRewardIndex = rw.Index]
  <2>1. Puts(rw', rw, m, f)
    BY <1>2, <1>3 DEF RewardState, Puts
  <2>2. /\ f \in Earner /\ f.StorageRewardIndex = rw.Index
        /\ f.StorageRewardAccrued = e.StorageRewardAccrued
    BY <1>2 DEF Earner, EarnerStatus
  <2> HIDE DEF f
  <2>3. NoMoreCredit(rw, e, f)
    BY <1>2, <2>2, CreditNat, CreditedNow DEF NoMoreCredit
  <2> QED
    BY <1>1, <2>1, <2>3, MinerChange DEF RewardsInv
<1>4. CASE rw' = [accrueStorageRewardForMiner(rw, m) EXCEPT !.Miners[m].Status = "active"]
  <2> DEFINE t == accrueStorageRewardForMiner(rw, m)
             g == accrued(rw, rw.Miners[m])
             f == [g EXCEPT !.Status = "active"]
  <2>1. g \in Earner /\ g.StorageRewardIndex = rw.Index
    BY <1>2, AccruedParts
  <2>2. t.Miners[m] = g
    BY <1>2 DEF accrueStorageRewardForMiner, RewardState
  <2> HIDE DEF g
  <2>3. Puts(rw', t, m, f)
    BY <1>4, <2>2 DEF Puts
  <2>4. /\ f \in Earner /\ f.StorageRewardIndex = rw.Index
        /\ f.StorageRewardAccrued = g.StorageRewardAccrued
    BY <2>1 DEF Earner, EarnerStatus
  <2> HIDE DEF f, t
  <2> QED
    BY <1>1, <2>3, <2>4, AccruedThen DEF RewardsInv, g, t
<1> QED
  BY <1>3, <1>4 DEF EnterMiner

LEMMA LeaveStep ==
  ASSUME RewardsInv, NEW m \in Provider, LeaveMiner(m)
  PROVE  RewardsInv'
<1>1. Sound(rw) /\ clock \in FirstClock..MaxClock /\ clock' = clock
  BY DEF RewardsInv, LeaveMiner
<1>2. /\ rw \in RewardState /\ rw.Miners[m] \in Earner
      /\ rw.Miners[m].StorageRewardIndex <= rw.Index
  BY <1>1, MinerTypes
<1> DEFINE t == accrueStorageRewardForMiner(rw, m)
           g == accrued(rw, rw.Miners[m])
           f == [g EXCEPT !.Status = "exiting"]
<1>3. g \in Earner /\ g.StorageRewardIndex = rw.Index
  BY <1>2, AccruedParts
<1>4. t.Miners[m] = g
  BY <1>2 DEF accrueStorageRewardForMiner, RewardState
<1> HIDE DEF g
<1>5. Puts(rw', t, m, f)
  BY <1>4 DEF LeaveMiner, Puts
<1>6. /\ f \in Earner /\ f.StorageRewardIndex = rw.Index
      /\ f.StorageRewardAccrued = g.StorageRewardAccrued
  BY <1>3 DEF Earner, EarnerStatus
<1> HIDE DEF f, t
<1> QED
  BY <1>1, <1>5, <1>6, AccruedThen DEF RewardsInv, g, t

\* Bytes that go leave no more weight.
LEMMA FewerBytes ==
  ASSUME NEW s, Sound(s), NEW m \in Provider, s.Miners[m].UsedBytes > 0,
         NEW r, r = [s EXCEPT !.Miners[m].UsedBytes = @ - 1]
  PROVE  Sound(r)
<1> DEFINE e == s.Miners[m]
           x == e.UsedBytes - 1
           f == [e EXCEPT !.UsedBytes = x]
<1>1. s \in RewardState /\ e \in Earner /\ e.StorageRewardIndex <= s.Index
  BY MinerTypes
<1>2. r = [s EXCEPT !.Miners = [s.Miners EXCEPT ![m] = [s.Miners[m] EXCEPT !.UsedBytes = @ - 1]]]
  OBVIOUS
<1>3. Puts(r, s, m, f)
  BY <1>2, Zenon DEF Puts
<1>4. /\ e.UsedBytes \in 0..MaxUsedBytes /\ e.EffectiveWeight \in 0..MaxUsedBytes
      /\ MaxUsedBytes \in Nat /\ x \in 0..MaxUsedBytes /\ x <= e.UsedBytes
  BY <1>1, Constants DEF Earner
<1> HIDE DEF x
<1>5. /\ f \in Earner /\ f.StorageRewardIndex = e.StorageRewardIndex
      /\ f.StorageRewardAccrued = e.StorageRewardAccrued
      /\ f.Status = e.Status /\ f.EffectiveWeight = e.EffectiveWeight /\ f.UsedBytes = x
  BY <1>1, <1>4 DEF Earner
<1> HIDE DEF f, e
<1>6. storageRewardWeight(f) <= storageRewardWeight(e)
  BY <1>4, <1>5 DEF storageRewardWeight
<1>7. NoMoreCredit(s, e, f)
  BY <1>1, <1>5, <1>6, LighterNoMore
<1> QED
  BY <1>3, <1>7, MinerChange DEF e

LEMMA DeleteReceiptStep ==
  ASSUME RewardsInv, NEW m \in Provider, DeleteReceipt(m)
  PROVE  RewardsInv'
<1>1. Sound(rw')
  BY FewerBytes DEF RewardsInv, DeleteReceipt
<1> QED
  BY <1>1 DEF RewardsInv, DeleteReceipt

LEMMA BatchCommitStep ==
  ASSUME RewardsInv, NEW m \in Provider, BatchCommitReceipt(m)
  PROVE  RewardsInv'
<1>1. Sound(rw) /\ clock \in FirstClock..MaxClock /\ clock' = clock
  BY Zenon DEF RewardsInv, BatchCommitReceipt
<1>2. /\ rw \in RewardState /\ rw.Miners[m] \in Earner
      /\ rw.Miners[m].StorageRewardIndex <= rw.Index
  BY <1>1, MinerTypes
<1> DEFINE t == accrueStorageRewardForMiner(rw, m)
           g == accrued(rw, rw.Miners[m])
           x == rw.Miners[m].UsedBytes + 1
           f == [g EXCEPT !.UsedBytes = x]
           s == [t EXCEPT !.Miners[m].UsedBytes = @ + 1]
<1>3. g \in Earner /\ g.StorageRewardIndex = rw.Index /\ g.UsedBytes = rw.Miners[m].UsedBytes
  BY <1>2, AccruedParts
<1>4. t.Miners[m] = g
  BY <1>2 DEF accrueStorageRewardForMiner, RewardState
<1>5. x \in 0..MaxUsedBytes
  <2>1. rw.Miners[m].UsedBytes \in 0..MaxUsedBytes /\ rw.Miners[m].UsedBytes < MaxUsedBytes
    BY <1>2, Zenon DEF BatchCommitReceipt, Earner
  <2> HIDE DEF g, t
  <2> QED
    BY <2>1, Constants
<1> HIDE DEF g
<1>6. s = [t EXCEPT !.Miners = [t.Miners EXCEPT ![m] = [t.Miners[m] EXCEPT !.UsedBytes = @ + 1]]]
  OBVIOUS
<1>7. s = [t EXCEPT !.Miners = [t.Miners EXCEPT ![m] = f]]
  BY <1>3, <1>4, <1>6
<1> HIDE DEF x
<1>8. /\ f \in Earner /\ f.StorageRewardIndex = rw.Index
      /\ f.StorageRewardAccrued = g.StorageRewardAccrued
  BY <1>3, <1>5 DEF Earner
<1> HIDE DEF f
<1>9. Puts(s, t, m, f)
  <2> HIDE DEF s, t
  <2> QED
    BY <1>7 DEF Puts
<1> HIDE DEF t
<1>10. /\ rw' = s \/ \E o \in Provider \ {m} :
              /\ rw.Miners[o].UsedBytes > 0
              /\ rw' = [s EXCEPT !.Miners[o].UsedBytes = @ - 1]
  BY Zenon DEF BatchCommitReceipt, t
<1> HIDE DEF s
<1>11. Sound(s) /\ \A p \in Provider \ {m} : s.Miners[p] = rw.Miners[p]
  BY <1>1, <1>8, <1>9, AccruedThen DEF g, t
<1>12. Sound(rw')
  BY <1>10, <1>11, FewerBytes
<1> QED
  BY <1>1, <1>12 DEF RewardsInv

\* A lower status leaves no more weight.
LEMMA LowerStatus ==
  ASSUME NEW s, Sound(s), NEW m \in Provider, NEW new \in Lowered(s.Miners[m].Status),
         NEW r, r = [s EXCEPT !.Miners[m].Status = new]
  PROVE  Sound(r)
<1> DEFINE e == s.Miners[m]
           f == [e EXCEPT !.Status = new]
<1>1. s \in RewardState /\ e \in Earner /\ e.StorageRewardIndex <= s.Index
  BY MinerTypes
<1>2. Puts(r, s, m, f)
  BY DEF Puts
<1>3. new \in EarnerStatus /\ e.Status \in {"active", "degraded"}
      /\ (e.Status = "degraded" => new # "degraded") /\ new \in {"degraded", "jailed", "exiting"}
  BY DEF Lowered, EarnerStatus
<1>4. /\ f \in Earner /\ f.StorageRewardIndex = e.StorageRewardIndex
      /\ f.StorageRewardAccrued = e.StorageRewardAccrued
      /\ f.UsedBytes = e.UsedBytes /\ f.EffectiveWeight = e.EffectiveWeight /\ f.Status = new
  BY <1>1, <1>3 DEF Earner
<1>5. e.UsedBytes \in Nat /\ e.EffectiveWeight \in Nat
  BY <1>1, Constants DEF Earner
<1> HIDE DEF f, e
<1>6. storageRewardWeight(f) <= storageRewardWeight(e)
  BY <1>3, <1>4, <1>5 DEF storageRewardWeight
<1>7. NoMoreCredit(s, e, f)
  BY <1>1, <1>4, <1>6, LighterNoMore
<1> QED
  BY <1>2, <1>7, MinerChange DEF e

\* The miners in C are credited.
CreditedIn(s, C) ==
  [p \in Provider |-> IF p \in C THEN accrued(s, s.Miners[p]) ELSE s.Miners[p]]

LEMMA CreditedSound ==
  ASSUME NEW s, Sound(s), NEW C, NEW r, r = [s EXCEPT !.Miners = CreditedIn(s, C)]
  PROVE  Sound(r)
<1> DEFINE M == CreditedIn(s, C)
<1>1. s \in RewardState
  BY DEF Sound
<1>2. \A p \in Provider : NoMoreCredit(s, s.Miners[p], M[p])
  <2> SUFFICES ASSUME NEW p \in Provider PROVE NoMoreCredit(s, s.Miners[p], M[p])
    OBVIOUS
  <2>1. s.Miners[p] \in Earner /\ s.Miners[p].StorageRewardIndex <= s.Index
    BY MinerTypes
  <2>2. NoMoreCredit(s, s.Miners[p], accrued(s, s.Miners[p])) /\ NoMoreCredit(s, s.Miners[p], s.Miners[p])
    BY <1>1, <2>1, AccruedNoMore, SameNoMore
  <2>3. M[p] = IF p \in C THEN accrued(s, s.Miners[p]) ELSE s.Miners[p]
    BY DEF CreditedIn
  <2> QED
    BY <2>2, <2>3
<1>3. M \in [Provider -> Earner]
  <2>1. \A p \in Provider : M[p] \in Earner
    BY <1>2 DEF NoMoreCredit
  <2>2. M = [p \in Provider |-> M[p]]
    BY DEF CreditedIn
  <2> HIDE DEF M
  <2> QED
    BY <2>1, <2>2
<1> HIDE DEF M
<1>4. r = [s EXCEPT !.Miners = M]
  BY DEF M
<1>5. r \in RewardState /\ r.Miners = M
  BY <1>1, <1>3, <1>4 DEF RewardState
<1>6. /\ SamePools(r, s) /\ SameAccounts(r, s)
      /\ r.Index = s.Index /\ r.Remainder = s.Remainder /\ r.unpaid = s.unpaid
  BY <1>1, <1>4 DEF RewardState, SamePools, SameAccounts
<1>7. OnlyMiners(r, s)
  BY <1>5, <1>6 DEF OnlyMiners
<1> QED
  BY <1>2, <1>5, <1>7, MinersChange

LEMMA EpochStep ==
  ASSUME RewardsInv, EpochEnds
  PROVE  RewardsInv'
<1>1. Sound(rw) /\ clock \in FirstClock..MaxClock
  BY DEF RewardsInv
<1>2. PICK stale :
        /\ \/ rw' = checkDHTObligations(rw, stale)
           \/ \E m \in Provider : \E new \in Lowered(rw.Miners[m].Status) :
                rw' = checkDHTObligations([rw EXCEPT !.Miners[m].Status = new], stale)
        /\ clock' = clock
  BY DEF EpochEnds
<1>3. ASSUME NEW s, Sound(s) PROVE Sound(checkDHTObligations(s, stale))
  <2> DEFINE C == {p \in stale : s.Miners[p].Status # "exiting"}
             M == [p \in Provider |-> IF p \in stale /\ s.Miners[p].Status # "exiting"
                                      THEN accrued(s, s.Miners[p]) ELSE s.Miners[p]]
  <2>1. M = CreditedIn(s, C)
    BY DEF CreditedIn
  <2>2. checkDHTObligations(s, stale) = [s EXCEPT !.Miners = M]
    BY DEF checkDHTObligations
  <2> HIDE DEF C, M
  <2>3. checkDHTObligations(s, stale) = [s EXCEPT !.Miners = CreditedIn(s, C)]
    BY <2>1, <2>2
  <2> QED
    BY <1>3, <2>3, CreditedSound
<1>4. Sound(rw')
  BY <1>1, <1>2, <1>3, LowerStatus
<1> QED
  BY <1>1, <1>2, <1>4 DEF RewardsInv

\* The amounts a State holds.
LEMMA MoneyNat ==
  ASSUME NEW s \in RewardState
  PROVE  /\ s.Storage \in Nat /\ s.Validator \in Nat /\ s.Foundation \in Nat
         /\ s.Retrieval \in Nat /\ s.Fund \in Nat /\ s.unpaid \in Nat
         /\ s.TokensReleased \in Nat /\ s.Index \in Nat /\ s.Remainder \in Nat
         /\ s.Balance \in [Payee -> Nat] /\ SumOf(s.Balance) \in Nat
         /\ s.Pending \in [Payee -> Nat] /\ SumOf(s.Pending) \in Nat
<1>1. s.Balance \in [Payee -> Nat] /\ s.Pending \in [Payee -> Nat]
  BY DEF RewardState
<1>2. SumOf(s.Balance) \in Nat /\ SumOf(s.Pending) \in Nat
  BY <1>1, AllFinite, SumOfNat
<1> QED
  BY <1>1, <1>2 DEF RewardState

\* An amount for one account.
LEMMA OnlySum ==
  ASSUME NEW a \in Payee, NEW x \in Nat
  PROVE  Only(a, x) \in [Payee -> Nat] /\ SumOf(Only(a, x)) = x
<1> DEFINE z == [b \in Payee |-> 0]
<1>1. /\ Only(a, x) \in [Payee -> Nat] /\ Only(a, x) \in [Payee -> Int] /\ z \in [Payee -> Int]
      /\ Only(a, x)[a] = x /\ z[a] = 0
      /\ \A b \in Payee \ {a} : Only(a, x)[b] = z[b]
  BY DEF Only
<1>2. SumOf(z) = 0
  <2>1. \A b \in Payee : z[b] = 0
    OBVIOUS
  <2> HIDE DEF z
  <2> QED
    BY <1>1, <2>1, AllFinite, SumOfZero
<1> HIDE DEF z
<1>3. SumOf(Only(a, x)) = SumOf(z) + (x - 0)
  BY <1>1, AllFinite, SumOfUpdate
<1> QED
  BY <1>1, <1>2, <1>3

\* The miner is credited, and what is booked starts to vest.
LEMMA SettledSound ==
  ASSUME NEW s, Sound(s), NEW m \in Provider, clock \in FirstClock..MaxClock,
         NEW r, r = settleStorageRewardForMiner(s, m)
  PROVE  /\ Sound(r) /\ r.Miners[m].StorageRewardIndex = r.Index
         /\ r.Fund = s.Fund
<1> DEFINE t == accrueStorageRewardForMiner(s, m)
           g == accrued(s, s.Miners[m])
           amount == t.Miners[m].StorageRewardAccrued
           v == vestMiningReward(t, Only(m, amount))
           f == [v.Miners[m] EXCEPT !.StorageRewardAccrued = 0]
           left == v.unpaid - amount
           M == [v.Miners EXCEPT ![m] = f]
<1>1. /\ s \in RewardState /\ s.Miners[m] \in Earner
      /\ s.Miners[m].StorageRewardIndex <= s.Index
  BY MinerTypes
<1>2. g \in Earner /\ g.StorageRewardIndex = s.Index /\ g.StorageRewardAccrued \in Nat
  BY <1>1, AccruedParts DEF Earner
<1>3. NoMoreCredit(s, s.Miners[m], g) /\ Puts(t, s, m, g)
  BY <1>1, AccruedNoMore DEF accrueStorageRewardForMiner, Puts
<1>4. Sound(t) /\ OnlyMiners(t, s) /\ t.Miners[m] = g
  <2> HIDE DEF t, g
  <2> QED
    BY <1>1, <1>2, <1>3, MinerChange, PutMiner
<1>5. r = [v EXCEPT !.Miners[m].StorageRewardAccrued = 0, !.unpaid = @ - amount]
  BY DEF settleStorageRewardForMiner
<1>6. r = [v EXCEPT !.Miners = M, !.unpaid = left]
  BY <1>5
<1> HIDE DEF t, g
<1>7. /\ t \in RewardState /\ Vested(t) /\ Emitted(t) = Genesis
      /\ amount \in Nat /\ amount = g.StorageRewardAccrued
      /\ \A p \in Provider : t.Miners[p].StorageRewardIndex <= t.Index
      /\ SumOf(Credits(t)) + t.Remainder <= Scale * t.unpaid
  BY <1>2, <1>4 DEF Sound, Backed
<1> HIDE DEF amount
<1>8. /\ Only(m, amount) \in [Payee -> Nat] /\ SumOf(Only(m, amount)) = amount
  <2>1. m \in Payee
    BY RewardsAssumption
  <2> QED
    BY <1>7, <2>1, OnlySum
<1>9. /\ v \in RewardState /\ Vested(v)
      /\ SumOf(v.Pending) = SumOf(t.Pending) + amount
      /\ SamePools(v, t) /\ SameIndex(v, t) /\ v.Balance = t.Balance
  BY <1>7, <1>8, VestParts
<1> HIDE DEF v
<1>10. v.Miners[m] = g /\ t.Index = s.Index
  BY <1>4, <1>9 DEF SameIndex, OnlyMiners
<1>11. /\ f \in Earner /\ f.StorageRewardAccrued = 0 /\ f.StorageRewardIndex = t.Index
  BY <1>2, <1>10 DEF Earner
<1>12. /\ M \in [Provider -> Earner] /\ M[m] = f
       /\ \A p \in Provider \ {m} : M[p] = t.Miners[p]
  <2>1. v.Miners = t.Miners /\ v.Miners \in [Provider -> Earner]
    BY <1>9 DEF SameIndex, RewardState
  <2> HIDE DEF f
  <2> QED
    BY <1>11, <2>1
<1> HIDE DEF f, M
\* What is booked for the miner is in its credit, and so in what was released.
<1>13. /\ Credits(t) \in [Provider -> Nat] /\ SumOf(Credits(t)) \in Nat
       /\ Credits(t)[m] = Scale * amount /\ Scale * amount \in Nat
       /\ Scale * amount <= SumOf(Credits(t))
  <2>1. Credits(t) \in [Provider -> Nat] /\ SumOf(Credits(t)) \in Nat
    BY <1>7, CreditsNat
  <2>2. Credits(t)[m] = Scale * amount
    <3>1. t.Index \in Nat
      BY <1>7 DEF RewardState
    <3> QED
      BY <1>2, <1>4, <1>7, <1>10, <3>1, CreditedNow DEF Credits
  <2>3. Credits(t)[m] <= SumOf(Credits(t))
    BY <2>1, AllFinite, SumOfNat
  <2>4. Scale * amount \in Nat
    BY <1>7, Constants
  <2> QED
    BY <2>1, <2>2, <2>3, <2>4
<1>14. /\ t.unpaid \in Nat /\ t.Remainder \in Nat /\ Scale * t.unpaid \in Nat
       /\ amount <= t.unpaid
  <2>1. t.unpaid \in Nat /\ t.Remainder \in Nat /\ Scale \in Nat \ {0}
    <3>1. t.unpaid \in Nat /\ t.Remainder \in Nat
      BY <1>7, MoneyNat
    <3> QED
      BY <3>1, Constants
  <2>2. Scale * t.unpaid \in Nat
    BY <2>1
  <2>3. Scale * amount <= Scale * t.unpaid
    BY <1>7, <1>13, <2>1, <2>2
  <2> QED
    BY <1>7, <2>1, <2>2, <2>3, Cancel
<1>15. left \in Nat /\ left = t.unpaid - amount
  BY <1>7, <1>9, <1>14 DEF SameIndex
<1> HIDE DEF left
<1>16. /\ r \in RewardState /\ r.Miners = M /\ r.unpaid = left
  BY <1>6, <1>9, <1>12, <1>15, ZenonT(30) DEF RewardState
<1>17. /\ SamePools(r, v) /\ SameAccounts(r, v) /\ r.Index = v.Index /\ r.Remainder = v.Remainder
  BY <1>6, <1>9 DEF RewardState, SamePools, SameAccounts
<1>18. Vested(r)
  BY <1>9, <1>17 DEF Vested, SameAccounts
<1>19. Emitted(r) = Genesis
  <2>1. Emitted(r) = Emitted(t)
    <3>1. /\ t.Storage \in Nat /\ t.Validator \in Nat /\ t.Foundation \in Nat
          /\ t.Retrieval \in Nat /\ t.Fund \in Nat
          /\ SumOf(t.Balance) \in Nat /\ SumOf(t.Pending) \in Nat
      BY <1>7, MoneyNat
    <3> QED
      BY <1>7, <1>9, <1>14, <1>15, <1>16, <1>17, <3>1 DEF Emitted, SamePools, SameAccounts
  <2> QED
    BY <1>7, <2>1
<1>20. \A p \in Provider : r.Miners[p].StorageRewardIndex <= r.Index
  <2>1. t.Index \in Nat /\ r.Index = t.Index
    BY <1>7, <1>9, <1>17, MoneyNat DEF SameIndex
  <2> QED
    BY <1>7, <1>11, <1>12, <1>16, <2>1
<1>21. SumOf(Credits(r)) = SumOf(Credits(t)) - Scale * amount /\ SumOf(Credits(r)) \in Nat
  <2>1. Credits(r) \in [Provider -> Nat] /\ SumOf(Credits(r)) \in Nat
    BY <1>16, <1>20, CreditsNat
  <2>2. r.Index = t.Index /\ t.Index \in Nat
    BY <1>7, <1>9, <1>17, MoneyNat DEF SameIndex
  <2>3. Credits(r)[m] = 0
    <3>1. CreditOf(t.Index, f) = Scale * 0
      BY <1>11, <2>2, CreditedNow
    <3>2. Scale * 0 = 0
      BY Constants
    <3> QED
      BY <1>12, <1>16, <2>2, <3>1, <3>2 DEF Credits
  <2>4. \A p \in Provider \ {m} : Credits(r)[p] = Credits(t)[p]
    BY <1>12, <1>16, <2>2 DEF Credits
  <2>5. SumOf(Credits(r)) = SumOf(Credits(t)) + (Credits(r)[m] - Credits(t)[m])
    <3>1. Credits(r) \in [Provider -> Int] /\ Credits(t) \in [Provider -> Int]
      BY <1>13, <2>1
    <3> QED
      BY <2>4, <3>1, AllFinite, SumOfUpdate
  <2> QED
    BY <1>13, <2>1, <2>3, <2>5
<1>22. Backed(r)
  <2>1. Scale * left = Scale * t.unpaid - Scale * amount
    BY <1>7, <1>14, <1>15, Constants
  <2>2. r.Remainder = t.Remainder
    BY <1>9, <1>17 DEF SameIndex
  <2>3. SumOf(Credits(r)) + r.Remainder <= Scale * r.unpaid
    BY <1>7, <1>13, <1>14, <1>16, <1>21, <2>1, <2>2
  <2> QED
    BY <1>20, <2>3 DEF Backed
<1>23. Sound(r)
  BY <1>16, <1>18, <1>19, <1>22 DEF Sound
<1>24. r.Miners[m].StorageRewardIndex = r.Index
  BY <1>9, <1>11, <1>12, <1>16, <1>17 DEF SameIndex
<1>25. r.Fund = s.Fund
  BY <1>4, <1>9, <1>17 DEF SamePools, OnlyMiners
<1> QED
  BY <1>23, <1>24, <1>25

\* A proof is paid, and then the miner is active again.
LEMMA ProofSettledSound ==
  ASSUME Sound(rw), NEW m \in Provider, clock \in FirstClock..MaxClock,
         NEW r, r = proofSettled(m)
  PROVE  Sound(r) /\ r.Fund = rw.Fund
<1> DEFINE s == settleStorageRewardForMiner(rw, m)
           f == [s.Miners[m] EXCEPT !.Status = "active"]
<1>1. Sound(s) /\ s.Miners[m].StorageRewardIndex = s.Index /\ s.Fund = rw.Fund
  BY SettledSound
<1>2. Puts(r, s, m, f)
  BY DEF proofSettled, Puts
<1> HIDE DEF s
<1>3. /\ s \in RewardState /\ s.Miners[m] \in Earner /\ s.Index \in Nat
      /\ s.Miners[m].StorageRewardIndex <= s.Index
  BY <1>1, MinerTypes
<1>4. /\ f \in Earner /\ f.StorageRewardIndex = s.Index
      /\ f.StorageRewardAccrued = s.Miners[m].StorageRewardAccrued
  BY <1>1, <1>3 DEF Earner, EarnerStatus
<1> HIDE DEF f
<1>5. CreditOf(s.Index, f) = Scale * s.Miners[m].StorageRewardAccrued
  BY <1>3, <1>4, CreditedNow
<1>6. CreditOf(s.Index, s.Miners[m]) = Scale * s.Miners[m].StorageRewardAccrued
  BY <1>1, <1>3, CreditedNow
<1>7. Scale * s.Miners[m].StorageRewardAccrued \in Nat
  BY <1>3, CreditNat
<1>8. NoMoreCredit(s, s.Miners[m], f)
  BY <1>3, <1>4, <1>5, <1>6, <1>7 DEF NoMoreCredit
<1>9. Sound(r)
  BY <1>1, <1>2, <1>8, MinerChange
<1>10. r.Fund = s.Fund
  BY <1>2, <1>3, <1>4, PutMiner DEF OnlyMiners, SamePools
<1> QED
  BY <1>1, <1>9, <1>10

\* What the fund pays for a proof starts to vest.
LEMMA SubsidySound ==
  ASSUME NEW s, Sound(s), NEW m \in Payee, NEW x \in Nat, x <= s.Fund,
         clock \in FirstClock..MaxClock,
         NEW r, r = [vestMiningReward(s, Only(m, x)) EXCEPT !.Fund = @ - x]
  PROVE  Sound(r)
<1> DEFINE v == vestMiningReward(s, Only(m, x))
           fund == v.Fund - x
<1>1. s \in RewardState /\ Vested(s) /\ Emitted(s) = Genesis /\ Backed(s)
  BY DEF Sound
<1>2. Only(m, x) \in [Payee -> Nat] /\ SumOf(Only(m, x)) = x
  BY OnlySum
<1>3. /\ v \in RewardState /\ Vested(v) /\ SumOf(v.Pending) = SumOf(s.Pending) + x
      /\ SamePools(v, s) /\ SameIndex(v, s) /\ v.Balance = s.Balance
  BY <1>1, <1>2, VestParts
<1>4. r = [v EXCEPT !.Fund = fund]
  OBVIOUS
<1> HIDE DEF v
<1>5. fund \in Nat /\ fund = s.Fund - x
  BY <1>1, <1>3, MoneyNat DEF SamePools
<1> HIDE DEF fund
<1>6. r \in RewardState /\ r.Fund = fund
  BY <1>3, <1>4, <1>5 DEF RewardState
<1>7. /\ r.Storage = v.Storage /\ r.Validator = v.Validator /\ r.Foundation = v.Foundation
      /\ r.Retrieval = v.Retrieval /\ SameAccounts(r, v) /\ SameIndex(r, v)
  BY <1>3, <1>4 DEF RewardState, SameAccounts, SameIndex
<1>8. Vested(r)
  BY <1>3, <1>7 DEF Vested, SameAccounts
<1>9. Backed(r)
  <2>1. SameIndex(r, s)
    BY <1>3, <1>7 DEF SameIndex
  <2> QED
    BY <1>1, <2>1, BackedSame
<1>10. Emitted(r) = Emitted(s)
  <2>1. /\ s.Storage \in Nat /\ s.Validator \in Nat /\ s.Foundation \in Nat
        /\ s.Retrieval \in Nat /\ s.Fund \in Nat /\ s.unpaid \in Nat
        /\ SumOf(s.Balance) \in Nat /\ SumOf(s.Pending) \in Nat
    BY <1>1, MoneyNat
  <2> QED
    BY <1>3, <1>5, <1>6, <1>7, <2>1 DEF Emitted, SamePools, SameAccounts, SameIndex
<1> QED
  BY <1>1, <1>6, <1>8, <1>9, <1>10 DEF Sound

LEMMA ProveStep ==
  ASSUME RewardsInv, NEW m \in Provider, ProveStorage(m)
  PROVE  RewardsInv'
<1>1. Sound(rw) /\ clock \in FirstClock..MaxClock /\ clock' = clock
  BY DEF RewardsInv, ProveStorage
<1> DEFINE s == proofSettled(m)
<1>2. Sound(s) /\ s.Fund = rw.Fund
  BY <1>1, ProofSettledSound
<1>3. PICK x \in 0..Min({MaxSubsidy, rw.Fund}) :
        rw' = [vestMiningReward(s, Only(m, x)) EXCEPT !.Fund = @ - x]
  BY DEF ProveStorage
<1> HIDE DEF s
<1>4. x \in Nat /\ x <= s.Fund
  <2> DEFINE y == MaxSubsidy
             z == rw.Fund
             k == Min({y, z})
  <2>1. y \in Nat /\ z \in Nat /\ x \in 0..k /\ k = Min({y, z})
    BY <1>1, RewardsAssumption DEF Sound, RewardState
  <2> HIDE DEF y, z, k
  <2>2. k \in Nat /\ k <= z
    BY <2>1, LeastNat
  <2>3. x \in Nat /\ x <= z
    BY <2>1, <2>2
  <2>4. s.Fund = z
    BY <1>2, Zenon DEF z
  <2> QED
    BY <2>3, <2>4, Zenon
<1>5. m \in Payee
  BY RewardsAssumption
<1>6. Sound(rw')
  BY <1>1, <1>2, <1>3, <1>4, <1>5, SubsidySound
<1> QED
  BY <1>1, <1>6 DEF RewardsInv

-----------------------------------------------------------------------------
(***************************************************************************)
(* What a share leaves                                                     *)
(***************************************************************************)
\* Numbers in proportion to weights, rounded down, add up to no more than the amount.
LEMMA Proportions ==
  ASSUME NEW S, IsFiniteSet(S), NEW amount \in Nat, NEW w \in [S -> Nat], NEW T \in Nat \ {0},
         SumOf(w) <= T, NEW x \in [S -> Nat], \A y \in S : T * x[y] <= amount * w[y]
  PROVE  SumOf(x) <= amount
<1> DEFINE tx == [y \in S |-> T * x[y]]
           aw == [y \in S |-> amount * w[y]]
<1>1. tx \in [S -> Int] /\ aw \in [S -> Int] /\ x \in [S -> Int] /\ w \in [S -> Int]
  BY TimesMonotone
<1>2. \A y \in S : tx[y] <= aw[y] /\ tx[y] = T * x[y] /\ aw[y] = amount * w[y]
  OBVIOUS
<1> HIDE DEF tx, aw
<1>3. SumOf(tx) <= SumOf(aw)
  BY <1>1, <1>2, SumOfLess
<1>4. SumOf(tx) = T * SumOf(x) /\ SumOf(aw) = amount * SumOf(w)
  <2>1. SumOf(tx) = T * SumOf(x)
    BY <1>1, <1>2, SumOfTimes
  <2>2. SumOf(aw) = amount * SumOf(w)
    BY <1>1, <1>2, SumOfTimes
  <2> QED
    BY <2>1, <2>2
<1>5. SumOf(x) \in Nat /\ SumOf(w) \in Nat
  BY SumOfNat
<1>6. amount * SumOf(w) <= amount * T
  BY <1>5, TimesMonotone
<1>7. T * SumOf(x) <= T * amount
  <2>1. amount * T = T * amount /\ T * amount \in Nat
    OBVIOUS
  <2>2. T * SumOf(x) \in Nat /\ amount * SumOf(w) \in Nat
    BY <1>5
  <2> QED
    BY <1>3, <1>4, <1>6, <2>1, <2>2
<1> QED
  BY <1>5, <1>7, Cancel

\* Zeroes more do not change a sum.
LEMMA SumOfExtended ==
  ASSUME NEW P, IsFiniteSet(P), NEW D \in SUBSET P, NEW f \in [D -> Nat], NEW g \in [P -> Nat],
         \A y \in D : g[y] = f[y], \A y \in P \ D : g[y] = 0
  PROVE  SumOf(g) = SumOf(f)
<1>1. IsFiniteSet(D) /\ IsFiniteSet(P \ D) /\ D \cap (P \ D) = {} /\ P = D \cup (P \ D)
  BY FS_Subset
<1>2. \A y \in D \cup (P \ D) : g[y] \in Int
  OBVIOUS
<1>3. SumFunctionOnSet(g, D \cup (P \ D)) = SumFunctionOnSet(g, D) + SumFunctionOnSet(g, P \ D)
  BY <1>1, <1>2, SumUnion
<1>4. SumFunctionOnSet(g, P \ D) = 0
  BY <1>1, SumZero
<1>5. SumFunctionOnSet(g, D) = SumFunctionOnSet(f, D)
  <2>1. \A y \in D : g[y] \in Int /\ g[y] = f[y]
    OBVIOUS
  <2> QED
    BY <1>1, <2>1, SumEqual
<1>6. SumFunctionOnSet(f, D) \in Int
  BY <1>1, SumInt
<1>7. SumFunctionOnSet(g, P) = SumFunctionOnSet(f, D)
  <2>1. SumFunctionOnSet(g, D \cup (P \ D)) = SumFunctionOnSet(f, D)
    BY <1>3, <1>4, <1>5, <1>6
  <2> QED
    BY <1>1, <2>1, Zenon
<1>8. DOMAIN g = P /\ DOMAIN f = D
  OBVIOUS
<1> QED
  BY <1>7, <1>8 DEF SumOf

\* A part in 10000 of an amount.
LEMMA BasisPoints ==
  ASSUME NEW x \in Nat, NEW bps \in 0..10000
  PROVE  (x * bps) \div 10000 \in Nat /\ (x * bps) \div 10000 <= x
<1> DEFINE n == x * bps
<1>1. n \in Nat /\ n <= x * 10000
  BY TimesMonotone
<1> HIDE DEF n
<1>2. n \div 10000 \in Nat /\ n \div 10000 <= x
  BY <1>1
<1> QED
  BY <1>2 DEF n

LEMMA VoterTypes ==
  ASSUME NEW v \in Voter
  PROVE  /\ v \in Payee /\ SelfStake[v] \in Nat \ {0}
         /\ Delegation[v] \in [Payee -> Nat] /\ DelegatedStake(v) \in Nat
         /\ \A a \in Payee : Delegation[v][a] <= DelegatedStake(v)
         /\ VoterPower(v) \in Nat \ {0} /\ SelfStake[v] <= VoterPower(v)
<1>1. /\ v \in Payee /\ SelfStake[v] \in Nat \ {0} /\ Delegation[v] \in [Payee -> Nat]
  BY RewardsAssumption
<1>2. /\ DelegatedStake(v) \in Nat /\ \A a \in Payee : Delegation[v][a] <= DelegatedStake(v)
  BY <1>1, AllFinite, SumOfNat DEF DelegatedStake
<1> QED
  BY <1>1, <1>2 DEF VoterPower

\* Who takes what is left.
IsTail(v, tail) == IF Delegators(v) = {} THEN tail = v ELSE tail \in Delegators(v)

\* A validator and its delegators get the whole amount.
LEMMA RewardSum ==
  ASSUME NEW v \in Voter, NEW x \in Nat, NEW tail, IsTail(v, tail),
         NEW R, R = distributeValidatorReward(v, x, tail)
  PROVE  R \in [Payee -> Nat] /\ SumOf(R) = x
<1> DEFINE D == Delegators(v)
           T == DelegatedStake(v)
           big == (x * CommissionBPS) \div 10000 + (x * SelfStake[v]) \div VoterPower(v)
           own == Min({big, x})
           rest == x - own
           share(a) == (rest * Delegation[v][a]) \div T
           shares == [b \in D \ {tail} |-> share(b)]
           most == SumOf(shares)
<1>1. /\ v \in Payee /\ SelfStake[v] \in Nat \ {0}
      /\ Delegation[v] \in [Payee -> Nat] /\ T \in Nat
      /\ \A a \in Payee : Delegation[v][a] <= T
      /\ VoterPower(v) \in Nat \ {0} /\ SelfStake[v] <= VoterPower(v)
  BY VoterTypes
<1>2. own \in Nat /\ own <= x
  <2>1. big \in Nat
    <3>1. (x * CommissionBPS) \div 10000 \in Nat
      <4> DEFINE n == x * CommissionBPS
      <4>1. n \in Nat
        BY Rates
      <4> HIDE DEF n
      <4>2. n \div 10000 \in Nat
        BY <4>1
      <4> QED
        BY <4>2 DEF n
    <3>2. (x * SelfStake[v]) \div VoterPower(v) \in Nat
      BY <1>1, PartOf
    <3> QED
      BY <3>1, <3>2
  <2>2. own = Min({big, x})
    OBVIOUS
  <2> HIDE DEF big, own
  <2>3. own \in {big, x} /\ own <= x
    BY <2>1, <2>2, LeastOfTwo
  <2> QED
    BY <2>1, <2>3
<1>3. R = [a \in Payee |->
             (IF a = v THEN own + (IF D = {} THEN rest ELSE 0) ELSE 0)
               + (IF a \notin D THEN 0 ELSE IF a = tail THEN rest - most ELSE share(a))]
  BY DEF distributeValidatorReward
<1> HIDE DEF own
<1>4. rest \in Nat /\ own + rest = x
  BY <1>2
<1> HIDE DEF rest, D
<1>5. CASE D = {}
  <2>1. \A a \in Payee : R[a] = IF a = v THEN x ELSE 0
    BY <1>2, <1>3, <1>4, <1>5
  <2>2. R = Only(v, x)
    BY <1>3, <2>1 DEF Only
  <2> QED
    BY <1>1, <2>2, OnlySum
<1>6. CASE D # {}
  <2>1. tail \in D /\ D \subseteq Payee /\ tail \in Payee /\ Delegation[v][tail] > 0
    BY <1>6 DEF IsTail, D, Delegators
  <2>2. T \in Nat \ {0}
    BY <1>1, <2>1
  <2>3. \A a \in Payee : share(a) \in Nat /\ T * share(a) <= rest * Delegation[v][a]
    <3> SUFFICES ASSUME NEW a \in Payee
                 PROVE  share(a) \in Nat /\ T * share(a) <= rest * Delegation[v][a]
      OBVIOUS
    <3> DEFINE n == rest * Delegation[v][a]
    <3>1. n \in Nat
      BY <1>1, <1>4
    <3> HIDE DEF n
    <3>2. n \div T \in Nat /\ T * (n \div T) <= n
      BY <2>2, <3>1, Division
    <3> QED
      BY <3>2 DEF n
  <2> DEFINE w == [b \in D \ {tail} |-> Delegation[v][b]]
             C == [a \in Payee |-> IF a \in D \ {tail} THEN share(a) ELSE 0]
             W == [a \in Payee |-> IF a \in D \ {tail} THEN Delegation[v][a] ELSE 0]
  <2> HIDE DEF share, T
  <2>4. /\ D \ {tail} \in SUBSET Payee /\ IsFiniteSet(D \ {tail})
        /\ shares \in [D \ {tail} -> Nat] /\ w \in [D \ {tail} -> Nat]
        /\ C \in [Payee -> Nat] /\ W \in [Payee -> Nat]
    <3>1. D \ {tail} \in SUBSET Payee
      BY <2>1
    <3>2. IsFiniteSet(D \ {tail})
      BY <3>1, AllFinite
    <3> QED
      BY <1>1, <2>1, <2>3, <3>1, <3>2
  <2>5. /\ \A y \in D \ {tail} : C[y] = shares[y] /\ W[y] = w[y]
        /\ \A y \in Payee \ (D \ {tail}) : C[y] = 0 /\ W[y] = 0
    BY <2>1
  <2>6. \A y \in D \ {tail} : T * shares[y] <= rest * w[y]
    BY <2>1, <2>3
  <2>7. \A y \in Payee : W[y] <= Delegation[v][y]
    BY <1>1
  <2>8. \A a \in Payee : R[a] = Only(v, own)[a] + (C[a] + Only(tail, rest - most)[a])
    <3> SUFFICES ASSUME NEW a \in Payee
                 PROVE  R[a] = Only(v, own)[a] + (C[a] + Only(tail, rest - most)[a])
      OBVIOUS
    <3> DEFINE k == IF a \notin D THEN 0 ELSE IF a = tail THEN rest - most ELSE share(a)
    <3>1. R[a] = (IF a = v THEN own + 0 ELSE 0) + k
      BY <1>3, <1>6
    <3>2. Only(v, own)[a] = IF a = v THEN own ELSE 0
      BY DEF Only
    <3>3. Only(tail, rest - most)[a] = IF a = tail THEN rest - most ELSE 0
      BY DEF Only
    <3>4. C[a] = IF a \in D \ {tail} THEN share(a) ELSE 0
      OBVIOUS
    <3>5. share(a) \in Nat /\ most \in Int
      <4>1. most \in Nat
        BY <2>4, SumOfNat
      <4> QED
        BY <2>3, <4>1
    <3> HIDE DEF most, C
    <3>6. k = C[a] + Only(tail, rest - most)[a]
      BY <1>4, <2>1, <3>3, <3>4, <3>5
    <3> HIDE DEF k
    <3> QED
      BY <1>2, <3>1, <3>2, <3>6
  <2> HIDE DEF shares, w, C, W
  <2>9. SumOf(C) = most /\ SumOf(W) = SumOf(w)
    BY <2>4, <2>5, AllFinite, SumOfExtended
  <2>10. SumOf(w) <= T
    <3>1. W \in [Payee -> Int] /\ Delegation[v] \in [Payee -> Int]
      BY <1>1, <2>4
    <3>2. SumOf(W) <= SumOf(Delegation[v])
      BY <2>7, <3>1, AllFinite, SumOfLess
    <3> QED
      BY <2>9, <3>2 DEF T, DelegatedStake
  <2>11. most \in Nat /\ most <= rest
    BY <1>4, <2>2, <2>4, <2>6, <2>10, SumOfNat, Proportions
  <2> HIDE DEF most
  <2> DEFINE A == Only(v, own)
             B == Only(tail, rest - most)
             CB == [a \in Payee |-> C[a] + B[a]]
  <2>12. rest - most \in Nat
    BY <1>4, <2>11
  <2>13. /\ A \in [Payee -> Nat] /\ SumOf(A) = own
         /\ B \in [Payee -> Nat] /\ SumOf(B) = rest - most
    BY <1>1, <1>2, <2>1, <2>12, OnlySum
  <2> HIDE DEF A, B
  <2>14. /\ CB \in [Payee -> Nat] /\ \A a \in Payee : CB[a] = C[a] + B[a]
    BY <2>4, <2>13
  <2>15. R \in [Payee -> Nat] /\ \A a \in Payee : R[a] = A[a] + CB[a]
    <3>1. \A a \in Payee : R[a] = A[a] + CB[a]
      BY <2>8, <2>14 DEF A, B
    <3>2. R = [a \in Payee |-> R[a]]
      BY <1>3
    <3>3. \A a \in Payee : R[a] \in Nat
      BY <2>13, <2>14, <3>1
    <3> QED
      BY <3>1, <3>2, <3>3
  <2> HIDE DEF CB
  <2>16. SumOf(CB) = SumOf(C) + SumOf(B)
    <3>1. CB \in [Payee -> Int] /\ C \in [Payee -> Int] /\ B \in [Payee -> Int]
      BY <2>4, <2>13, <2>14
    <3> QED
      BY <2>14, <3>1, AllFinite, SumOfAdd
  <2>17. SumOf(R) = SumOf(A) + SumOf(CB)
    <3>1. CB \in [Payee -> Int] /\ A \in [Payee -> Int] /\ R \in [Payee -> Int]
      BY <2>13, <2>14, <2>15
    <3> QED
      BY <2>15, <3>1, AllFinite, SumOfAdd
  <2> QED
    BY <1>2, <1>4, <2>9, <2>11, <2>13, <2>15, <2>16, <2>17
<1> QED
  BY <1>5, <1>6

-----------------------------------------------------------------------------
(***************************************************************************)
(* The releases of a block                                                 *)
(***************************************************************************)
\* The shares of the consensus set.
SharesIn(S, amount) == [v \in S |-> ShareOf(v, S, amount)]

\* They are no more than the amount, even when a product wraps around.
LEMMA ShareSum ==
  ASSUME NEW S \in SUBSET Voter, S # {}, NEW amount \in Nat
  PROVE  SharesIn(S, amount) \in [S -> Nat] /\ SumOf(SharesIn(S, amount)) <= amount
<1> DEFINE w == [u \in S |-> VoterPower(u)]
           T == SumOf(w)
           x == SharesIn(S, amount)
<1>1. IsFiniteSet(S)
  BY AllFinite
<1>2. \A u \in S : VoterPower(u) \in Nat \ {0}
  BY VoterTypes
<1>3. w \in [S -> Nat] /\ \A u \in S : w[u] = VoterPower(u)
  BY <1>2
<1> HIDE DEF w
<1>4. T \in Nat \ {0}
  <2>1. T \in Nat /\ \A u \in S : w[u] <= T
    BY <1>1, <1>3, SumOfNat
  <2>2. PICK u \in S : TRUE
    OBVIOUS
  <2> HIDE DEF T
  <2> QED
    BY <1>2, <1>3, <2>1, <2>2
<1>5. \A v \in S : x[v] = ((amount * VoterPower(v)) % Word) \div T
  BY DEF ShareOf, SharesIn, T, w
<1>6. ASSUME NEW v \in S PROVE x[v] \in Nat /\ T * x[v] <= amount * w[v]
  <2> DEFINE n == amount * VoterPower(v)
             k == n % Word
  <2>1. n \in Nat
    BY <1>2
  <2> HIDE DEF n, T, x
  <2>2. k \in Nat /\ k <= n
    <3>1. Word \in Nat \ {0}
      BY Constants
    <3>2. n = Word * (n \div Word) + k /\ n \div Word \in Nat /\ k \in Nat
      BY <2>1, <3>1, Division
    <3>3. Word * (n \div Word) \in Nat
      BY <3>1, <3>2
    <3> HIDE DEF k
    <3> QED
      BY <3>2, <3>3
  <2>3. x[v] = k \div T
    BY <1>5 DEF n
  <2> HIDE DEF k
  <2>4. k \div T \in Nat /\ T * (k \div T) <= k
    BY <1>4, <2>2, Division
  <2>5. T * (k \div T) \in Nat
    BY <1>4, <2>4
  <2>6. T * x[v] <= n
    BY <2>1, <2>2, <2>3, <2>4, <2>5
  <2> QED
    BY <1>3, <2>3, <2>4, <2>6 DEF n
<1>7. x \in [S -> Nat]
  <2>1. x = [v \in S |-> x[v]]
    BY DEF SharesIn
  <2> HIDE DEF x
  <2> QED
    BY <1>6, <2>1
<1> HIDE DEF x
<1>8. T <= T
  BY <1>4
<1> HIDE DEF T
<1>9. SumOf(x) <= amount
  <2>1. SumOf(w) <= T
    BY <1>8 DEF T
  <2> QED
    BY <1>1, <1>3, <1>4, <1>6, <1>7, <2>1, Proportions
<1> QED
  BY <1>7, <1>9 DEF x

\* What each validator of the consensus set gives, by account.
RewardsIn(S, amount, tail) ==
  [v \in S |-> distributeValidatorReward(v, ShareOf(v, S, amount), tail[v])]

\* What each account gets of them.
PaidIn(S, amount, tail) ==
  [a \in Payee |-> SumOf([v \in S |->
     distributeValidatorReward(v, ShareOf(v, S, amount), tail[v])[a]])]

\* The accounts get what is distributed.
LEMMA PaidSum ==
  ASSUME NEW S \in SUBSET Voter, S # {}, NEW amount \in Nat,
         NEW tail, \A v \in S : IsTail(v, tail[v])
  PROVE  /\ PaidIn(S, amount, tail) \in [Payee -> Nat]
         /\ SumOf(PaidIn(S, amount, tail)) = SumOf(SharesIn(S, amount))
<1> DEFINE f == RewardsIn(S, amount, tail)
           x == SharesIn(S, amount)
           paid == PaidIn(S, amount, tail)
           column(a) == [v \in S |-> f[v][a]]
<1>1. IsFiniteSet(S) /\ IsFiniteSet(Payee) /\ x \in [S -> Nat]
  BY AllFinite, ShareSum
<1>2. \A v \in S : f[v] \in [Payee -> Nat] /\ SumOf(f[v]) = x[v]
  <2> SUFFICES ASSUME NEW v \in S PROVE f[v] \in [Payee -> Nat] /\ SumOf(f[v]) = x[v]
    OBVIOUS
  <2>1. f[v] = distributeValidatorReward(v, x[v], tail[v])
    BY DEF RewardsIn, SharesIn
  <2>2. x[v] \in Nat /\ v \in Voter /\ IsTail(v, tail[v])
    BY <1>1
  <2> HIDE DEF f, x
  <2> QED
    BY <2>1, <2>2, RewardSum
<1>3. \A a \in Payee : paid[a] = SumFunctionOnSet(column(a), S)
  <2> SUFFICES ASSUME NEW a \in Payee PROVE paid[a] = SumFunctionOnSet(column(a), S)
    OBVIOUS
  <2>1. column(a) = [v \in S |-> distributeValidatorReward(v, ShareOf(v, S, amount), tail[v])[a]]
    BY DEF RewardsIn
  <2>2. paid[a] = SumOf(column(a))
    BY <2>1 DEF PaidIn
  <2>3. DOMAIN column(a) = S
    OBVIOUS
  <2> QED
    BY <2>2, <2>3 DEF SumOf
<1> HIDE DEF f, x
<1>4. \A a \in Payee : SumFunctionOnSet(column(a), S) \in Nat
  <2> SUFFICES ASSUME NEW a \in Payee PROVE SumFunctionOnSet(column(a), S) \in Nat
    OBVIOUS
  <2>1. \A v \in S : column(a)[v] \in Nat
    BY <1>2
  <2> HIDE DEF column
  <2> QED
    BY <1>1, <2>1, SumNat
<1>5. paid = [a \in Payee |-> SumFunctionOnSet(column(a), S)]
  <2>1. paid = [a \in Payee |-> paid[a]]
    BY DEF PaidIn
  <2> HIDE DEF paid, column
  <2> QED
    BY <1>3, <2>1
<1>6. x = [v \in S |-> SumFunctionOnSet([a \in Payee |-> f[v][a]], Payee)]
  <2> SUFFICES ASSUME NEW v \in S
               PROVE  x[v] = SumFunctionOnSet([a \in Payee |-> f[v][a]], Payee)
    BY <1>1
  <2>1. f[v] = [a \in Payee |-> f[v][a]] /\ DOMAIN f[v] = Payee
    BY <1>2
  <2>2. SumOf(f[v]) = SumFunctionOnSet(f[v], Payee)
    BY <2>1 DEF SumOf
  <2> QED
    BY <1>2, <2>1, <2>2
<1>7. SumFunctionOnSet(RowSums(f, S, Payee), S) = SumFunctionOnSet(ColumnSums(f, S, Payee), Payee)
  <2>1. \A v \in S, a \in Payee : f[v][a] \in Int
    BY <1>2
  <2> QED
    BY <1>1, <2>1, SumSwap
<1>8. DOMAIN paid = Payee /\ DOMAIN x = S
  BY <1>1 DEF PaidIn
<1>9. SumOf(paid) = SumOf(x)
  <2>1. x = RowSums(f, S, Payee)
    BY <1>6 DEF RowSums
  <2>2. paid = ColumnSums(f, S, Payee)
    BY <1>5 DEF ColumnSums
  <2>3. SumFunctionOnSet(x, S) = SumFunctionOnSet(paid, Payee)
    BY <1>7, <2>1, <2>2
  <2> QED
    BY <1>8, <2>3 DEF SumOf
<1>10. paid \in [Payee -> Nat]
  <2> HIDE DEF paid, column
  <2> QED
    BY <1>4, <1>5
<1> QED
  BY <1>9, <1>10 DEF x

\* What is distributed vests and what is not returns to the pool.
LEMMA DistributedParts ==
  ASSUME NEW s \in RewardState, Vested(s), NEW S \in SUBSET Voter, S # {}, NEW amount \in Nat,
         NEW tail, \A v \in S : IsTail(v, tail[v]), clock \in FirstClock..MaxClock,
         NEW r, r = distributeValidatorPoolRewards(s, S, amount, tail)
  PROVE  /\ r \in RewardState /\ Vested(r)
         /\ r.Validator + SumOf(r.Pending) = s.Validator + SumOf(s.Pending) + amount
         /\ SameIndex(r, s) /\ r.Storage = s.Storage /\ r.Foundation = s.Foundation
         /\ r.Retrieval = s.Retrieval /\ r.Fund = s.Fund /\ r.Balance = s.Balance
<1> DEFINE paid == PaidIn(S, amount, tail)
           distributed == SumOf(SharesIn(S, amount))
           v == vestMiningReward(s, paid)
           pool == v.Validator + (amount - distributed)
<1>1. /\ paid \in [Payee -> Nat] /\ SumOf(paid) = distributed
      /\ distributed \in Nat /\ distributed <= amount
  <2>1. SharesIn(S, amount) \in [S -> Nat] /\ SumOf(SharesIn(S, amount)) <= amount
    BY ShareSum
  <2>2. SumOf(SharesIn(S, amount)) \in Nat
    BY <2>1, AllFinite, SumOfNat
  <2> QED
    BY <2>1, <2>2, PaidSum
<1>2. r = [v EXCEPT !.Validator = pool]
  BY DEF distributeValidatorPoolRewards, PaidIn, SharesIn
<1> HIDE DEF paid, distributed
<1>3. /\ v \in RewardState /\ Vested(v) /\ SumOf(v.Pending) = SumOf(s.Pending) + distributed
      /\ SamePools(v, s) /\ SameIndex(v, s) /\ v.Balance = s.Balance
  BY <1>1, VestParts
<1> HIDE DEF v
<1>4. pool \in Nat /\ pool = s.Validator + (amount - distributed)
  BY <1>1, <1>3, MoneyNat DEF SamePools
<1> HIDE DEF pool
<1>5. r \in RewardState /\ r.Validator = pool
  BY <1>2, <1>3, <1>4 DEF RewardState
<1>6. /\ r.Storage = v.Storage /\ r.Foundation = v.Foundation /\ r.Retrieval = v.Retrieval
      /\ r.Fund = v.Fund /\ SameAccounts(r, v) /\ SameIndex(r, v)
  BY <1>2, <1>3 DEF RewardState, SameAccounts, SameIndex
<1>7. Vested(r) /\ SameIndex(r, s)
  BY <1>3, <1>6 DEF Vested, SameAccounts, SameIndex
<1>8. r.Validator + SumOf(r.Pending) = s.Validator + SumOf(s.Pending) + amount
  <2>1. s.Validator \in Nat /\ SumOf(s.Pending) \in Nat
    BY MoneyNat
  <2> QED
    BY <1>1, <1>3, <1>4, <1>5, <1>6, <2>1 DEF SameAccounts
<1> QED
  BY <1>3, <1>5, <1>6, <1>7, <1>8 DEF SamePools, SameAccounts

\* What the fund takes of a release is no more than the release.
LEMMA InjectionBound ==
  ASSUME NEW s \in RewardState, NEW gross \in Nat
  PROVE  /\ permanentFundInjectionAmount(s, gross) \in Nat
         /\ permanentFundInjectionAmount(s, gross) <= gross
<1> DEFINE n == gross * PermanentFundInjectionBPS
           x == n \div 10000
           y == Less(PermanentFundCap, s.Fund)
           k == permanentFundInjectionAmount(s, gross)
<1>1. n \in Nat /\ n <= gross * 10000
  <2>1. PermanentFundInjectionBPS \in Nat /\ PermanentFundInjectionBPS <= 10000
    BY Rates
  <2> QED
    BY <2>1, TimesMonotone
<1>2. k = Min({x, y})
  BY DEF permanentFundInjectionAmount
<1> HIDE DEF n, k
<1>3. x \in Nat /\ x <= gross
  BY <1>1
<1>4. y \in Nat
  <2>1. PermanentFundCap \in Nat
    BY Constants
  <2>2. s.Fund \in Nat
    BY MoneyNat
  <2> QED
    BY <2>1, <2>2, LessNat, Zenon
<1> HIDE DEF x, y
<1>5. k \in Nat /\ k <= x
  BY <1>2, <1>3, <1>4, LeastNat
<1> QED
  BY <1>3, <1>5 DEF k

\* Validators are paid out of their pool.
LEMMA ValidatorReleaseSound ==
  ASSUME NEW s, Sound(s), NEW producer \in Voter, NEW S \in SUBSET Voter,
         NEW tail, \A v \in S : IsTail(v, tail[v]), clock \in FirstClock..MaxClock,
         NEW r, r = releaseValidatorPerBlock(s, producer, S, tail)
  PROVE  Sound(r)
<1> DEFINE gross == Min({ValidatorRewardPerBlock, s.Validator})
           fund == permanentFundInjectionAmount(s, gross)
           payout == gross - fund
           n == payout * BlockProductionRewardBPS
           direct == n \div 10000
           t == [s EXCEPT !.Validator = @ - gross, !.Fund = @ + fund,
                          !.TokensReleased = @ + gross,
                          !.Balance[producer] = @ + direct]
<1>1. CASE s.Validator = 0 \/ S = {}
  BY <1>1 DEF releaseValidatorPerBlock
<1>2. CASE ~(s.Validator = 0 \/ S = {})
  <2>1. s \in RewardState /\ Vested(s) /\ Emitted(s) = Genesis /\ Backed(s)
    BY DEF Sound
  <2>2. r = distributeValidatorPoolRewards(t, S, payout - direct, tail)
    BY <1>2 DEF releaseValidatorPerBlock
  <2>3. gross \in Nat /\ gross <= s.Validator
    <3>1. ValidatorRewardPerBlock \in Nat /\ s.Validator \in Nat
      <4>1. ValidatorRewardPerBlock \in Nat
        BY Constants
      <4>2. s.Validator \in Nat
        BY <2>1, MoneyNat
      <4> QED
        BY <4>1, <4>2
    <3>2. gross = Min({ValidatorRewardPerBlock, s.Validator})
      OBVIOUS
    <3> HIDE DEF gross
    <3> QED
      BY <3>1, <3>2, LeastNat
  <2> HIDE DEF gross
  <2>4. fund \in Nat /\ fund <= gross
    BY <2>1, <2>3, InjectionBound
  <2> HIDE DEF fund
  <2>5. payout \in Nat
    BY <2>3, <2>4
  <2>6. n \in Nat /\ n <= payout * 10000
    <3>1. BlockProductionRewardBPS \in Nat /\ BlockProductionRewardBPS <= 10000
      BY Rates
    <3> HIDE DEF payout
    <3> QED
      BY <2>5, <3>1, TimesMonotone
  <2> HIDE DEF n
  <2>7. direct \in Nat /\ direct <= payout
    <3> HIDE DEF payout
    <3> QED
      BY <2>5, <2>6
  <2> HIDE DEF direct
  <2> DEFINE a == s.Validator - gross
             b == s.Fund + fund
             c == s.TokensReleased + gross
             M == [s.Balance EXCEPT ![producer] = s.Balance[producer] + direct]
  <2>8. /\ s.Storage \in Nat /\ s.Validator \in Nat /\ s.Foundation \in Nat
        /\ s.Retrieval \in Nat /\ s.Fund \in Nat /\ s.unpaid \in Nat
        /\ s.TokensReleased \in Nat
        /\ s.Balance \in [Payee -> Nat] /\ SumOf(s.Balance) \in Nat /\ SumOf(s.Pending) \in Nat
        /\ producer \in Payee
    BY <2>1, MoneyNat, VoterTypes
  <2>9. a \in Nat /\ b \in Nat /\ c \in Nat
    BY <2>3, <2>4, <2>8
  <2>10. /\ M \in [Payee -> Nat] /\ M[producer] = s.Balance[producer] + direct
         /\ \A x \in Payee \ {producer} : M[x] = s.Balance[x]
         /\ s.Balance[producer] \in Nat
    BY <2>7, <2>8
  <2>11. t = [[s EXCEPT !.Validator = a, !.Fund = b] EXCEPT !.TokensReleased = c, !.Balance = M]
    OBVIOUS
  <2> HIDE DEF a, b, c, M, t
  <2>12. SumOf(M) = SumOf(s.Balance) + direct
    <3>1. M \in [Payee -> Int] /\ s.Balance \in [Payee -> Int]
      BY <2>8, <2>10
    <3>2. SumOf(M) = SumOf(s.Balance) + (M[producer] - s.Balance[producer])
      BY <2>8, <2>10, <3>1, AllFinite, SumOfUpdate
    <3> QED
      BY <2>7, <2>8, <2>10, <3>2
  <2> DEFINE u == [s EXCEPT !.Validator = a, !.Fund = b]
  <2>13. /\ u \in RewardState /\ u.Validator = a /\ u.Fund = b
         /\ u.Storage = s.Storage /\ u.Foundation = s.Foundation /\ u.Retrieval = s.Retrieval
         /\ SameAccounts(u, s) /\ SameIndex(u, s)
    BY <2>1, <2>9 DEF RewardState, SameAccounts, SameIndex
  <2>14. t = [u EXCEPT !.TokensReleased = c, !.Balance = M]
    BY <2>11
  <2> HIDE DEF u
  <2>15. /\ t \in RewardState /\ t.Balance = M /\ t.Validator = u.Validator /\ t.Fund = u.Fund
         /\ t.Storage = u.Storage /\ t.Foundation = u.Foundation /\ t.Retrieval = u.Retrieval
         /\ t.Pending = u.Pending /\ t.Bucket = u.Bucket /\ SameIndex(t, u)
    BY <2>9, <2>10, <2>13, <2>14 DEF RewardState, SameIndex
  <2>16. Vested(t)
    BY <2>1, <2>13, <2>15 DEF Vested, SameAccounts
  <2>17. /\ r \in RewardState /\ Vested(r)
         /\ r.Validator + SumOf(r.Pending) = t.Validator + SumOf(t.Pending) + (payout - direct)
         /\ SameIndex(r, t) /\ r.Storage = t.Storage /\ r.Foundation = t.Foundation
         /\ r.Retrieval = t.Retrieval /\ r.Fund = t.Fund /\ r.Balance = t.Balance
    <3> DEFINE amount == payout - direct
    <3>1. amount \in Nat /\ r = distributeValidatorPoolRewards(t, S, amount, tail) /\ S # {}
      BY <1>2, <2>2, <2>5, <2>7
    <3> HIDE DEF amount
    <3>2. /\ r \in RewardState /\ Vested(r)
          /\ r.Validator + SumOf(r.Pending) = t.Validator + SumOf(t.Pending) + amount
          /\ SameIndex(r, t) /\ r.Storage = t.Storage /\ r.Foundation = t.Foundation
          /\ r.Retrieval = t.Retrieval /\ r.Fund = t.Fund /\ r.Balance = t.Balance
      BY <2>15, <2>16, <3>1, DistributedParts
    <3> QED
      BY <3>2 DEF amount
  <2>18. Backed(r)
    <3>1. SameIndex(r, s)
      BY <2>13, <2>15, <2>17 DEF SameIndex
    <3> QED
      BY <2>1, <3>1, BackedSame
  <2>19. Emitted(r) = Emitted(s)
    <3>1. /\ r.Storage = s.Storage /\ r.Foundation = s.Foundation /\ r.Retrieval = s.Retrieval
          /\ r.Fund = s.Fund + fund /\ r.unpaid = s.unpaid
          /\ SumOf(r.Balance) = SumOf(s.Balance) + direct
      BY <2>12, <2>13, <2>15, <2>17 DEF SameIndex, b
    <3>2. r.Validator + SumOf(r.Pending)
            = (s.Validator - gross) + SumOf(s.Pending) + ((gross - fund) - direct)
      BY <2>13, <2>15, <2>17 DEF SameAccounts, a
    <3>3. r.Validator \in Nat /\ SumOf(r.Pending) \in Nat
      BY <2>17, MoneyNat
    <3> DEFINE rest == s.Storage + s.Foundation + s.Retrieval + s.unpaid
    <3>4. /\ Emitted(s) = rest + s.Validator + s.Fund + SumOf(s.Balance) + SumOf(s.Pending)
          /\ Emitted(r) = rest + (s.Fund + fund) + (SumOf(s.Balance) + direct)
                            + (r.Validator + SumOf(r.Pending))
          /\ rest \in Nat
      BY <2>4, <2>7, <2>8, <3>1, <3>3 DEF Emitted
    <3> HIDE DEF rest
    <3> QED
      BY <2>3, <2>4, <2>7, <2>8, <3>2, <3>4
  <2> QED
    BY <2>1, <2>17, <2>18, <2>19 DEF Sound
<1> QED
  BY <1>1, <1>2

\* All miners together weigh no more than one unit of the index is divided into.
LEMMA TotalWeightBound ==
  ASSUME NEW s \in RewardState
  PROVE  TotalWeight(s) \in Nat /\ TotalWeight(s) <= Scale
<1> DEFINE w == [m \in Provider |-> storageRewardWeight(s.Miners[m])]
<1>1. \A m \in Provider : s.Miners[m] \in Earner
  BY DEF RewardState
<1>2. w \in [Provider -> Nat] /\ \A m \in Provider : w[m] <= MaxUsedBytes
  BY <1>1, WeightBound
<1>3. TotalWeight(s) = SumOf(w)
  BY DEF TotalWeight
<1> HIDE DEF w
<1>4. SumOf(w) \in Nat
  BY <1>2, AllFinite, SumOfNat
<1>5. SumOf(w) <= Cardinality(Provider) * MaxUsedBytes
  <2>1. w \in [Provider -> Int] /\ MaxUsedBytes \in Nat
    BY <1>2, Constants
  <2> QED
    BY <1>2, <2>1, AllFinite, SumOfBounded
<1>6. Cardinality(Provider) \in Nat /\ MaxUsedBytes \in Nat
  BY AllFinite, FS_CardinalityType, Constants
<1>7. Scale >= Cardinality(Provider) * MaxUsedBytes /\ Scale \in Nat
  BY RewardsAssumption
<1>8. Cardinality(Provider) * MaxUsedBytes \in Nat
  BY <1>6
<1> QED
  BY <1>3, <1>4, <1>5, <1>7, <1>8

\* When the index grows by q, every miner is credited q times its weight.
LEMMA CreditsGrow ==
  ASSUME NEW s \in RewardState, NEW r \in RewardState, NEW q \in Nat,
         \A m \in Provider : s.Miners[m].StorageRewardIndex <= s.Index,
         r.Miners = s.Miners, r.Index = s.Index + q
  PROVE  /\ SumOf(Credits(r)) = SumOf(Credits(s)) + q * TotalWeight(s)
         /\ \A m \in Provider : r.Miners[m].StorageRewardIndex <= r.Index
<1> DEFINE w == [m \in Provider |-> storageRewardWeight(s.Miners[m])]
           g == [m \in Provider |-> q * w[m]]
<1>1. /\ s.Miners \in [Provider -> Earner] /\ s.Index \in Nat
      /\ \A m \in Provider : s.Miners[m].StorageRewardIndex \in Nat
  BY DEF RewardState, Earner
<1>2. \A m \in Provider : r.Miners[m].StorageRewardIndex <= r.Index
  BY <1>1
<1>3. w \in [Provider -> Nat]
  BY <1>1, WeightBound
<1>4. Credits(s) \in [Provider -> Nat] /\ Credits(r) \in [Provider -> Nat]
  BY <1>2, CreditsNat
<1>5. g \in [Provider -> Int] /\ \A m \in Provider : g[m] = q * w[m]
  <2> HIDE DEF w
  <2> QED
    BY <1>3
<1>6. ASSUME NEW m \in Provider PROVE Credits(r)[m] = Credits(s)[m] + g[m]
  <2> DEFINE e == s.Miners[m]
             a == Scale * e.StorageRewardAccrued
             k == storageRewardWeight(e)
             i == e.StorageRewardIndex
  <2>1. /\ Credits(s)[m] = a + (s.Index - i) * k
        /\ Credits(r)[m] = a + ((s.Index + q) - i) * k
        /\ g[m] = q * k
    BY <1>5 DEF Credits, CreditOf
  <2>2. a \in Nat /\ k \in Nat /\ i \in Nat /\ s.Index \in Nat
    <3>1. e \in Earner
      BY <1>1
    <3>2. e.StorageRewardAccrued \in Nat /\ Scale \in Nat
      BY <3>1, Constants DEF Earner
    <3>3. k \in Nat
      BY <3>1, WeightBound
    <3> HIDE DEF e
    <3>4. a \in Nat
      BY <3>2
    <3> QED
      BY <1>1, <3>3, <3>4 DEF e
  <2> HIDE DEF a, k, i, g
  <2>3. ((s.Index + q) - i) * k = (s.Index - i) * k + q * k
    BY <2>2
  <2>4. (s.Index - i) * k \in Int /\ q * k \in Int
    BY <2>2
  <2> QED
    BY <2>1, <2>2, <2>3, <2>4
<1> HIDE DEF g
<1>7. SumOf(Credits(r)) = SumOf(Credits(s)) + SumOf(g)
  <2>1. Credits(s) \in [Provider -> Int] /\ Credits(r) \in [Provider -> Int]
    BY <1>4
  <2> QED
    BY <1>5, <1>6, <2>1, AllFinite, SumOfAdd
<1>8. SumOf(g) = q * SumOf(w)
  <2>1. w \in [Provider -> Int] /\ q \in Int
    BY <1>3
  <2> HIDE DEF w
  <2> QED
    BY <1>5, <2>1, AllFinite, SumOfTimes
<1> QED
  BY <1>2, <1>7, <1>8 DEF TotalWeight

\* Miners are paid out of their pool, through the index.
LEMMA StorageReleaseSound ==
  ASSUME NEW s, Sound(s), NEW r, r = releaseStoragePerBlock(s)
  PROVE  Sound(r)
<1> DEFINE gross == Min({StorageRewardPerBlock, s.Storage})
           fund == permanentFundInjectionAmount(s, gross)
           net == gross - fund
           numerator == net * Scale + s.Remainder
           W == TotalWeight(s)
<1>1. /\ s \in RewardState /\ Vested(s) /\ Emitted(s) = Genesis
      /\ \A m \in Provider : s.Miners[m].StorageRewardIndex <= s.Index
      /\ SumOf(Credits(s)) + s.Remainder <= Scale * s.unpaid
  BY DEF Sound, Backed
<1>2. gross \in Nat /\ gross <= s.Storage
  <2>1. StorageRewardPerBlock \in Nat /\ s.Storage \in Nat
    <3>1. StorageRewardPerBlock \in Nat
      BY Constants
    <3>2. s.Storage \in Nat
      BY <1>1, MoneyNat
    <3> QED
      BY <3>1, <3>2
  <2>2. gross = Min({StorageRewardPerBlock, s.Storage})
    OBVIOUS
  <2> HIDE DEF gross
  <2> QED
    BY <2>1, <2>2, LeastNat
<1>3. fund \in Nat /\ fund <= gross
  <2> HIDE DEF gross
  <2> QED
    BY <1>1, <1>2, InjectionBound
<1>4. W \in Nat /\ W <= Scale /\ Scale \in Nat \ {0}
  BY <1>1, TotalWeightBound, Constants
<1>5. r = IF s.Storage = 0 \/ W = 0 THEN s
          ELSE IF numerator < W THEN [s EXCEPT !.Remainder = numerator]
          ELSE [s EXCEPT !.Index = @ + (numerator \div W),
                         !.Remainder = numerator % W,
                         !.Storage = @ - gross, !.Fund = @ + fund,
                         !.TokensReleased = @ + gross,
                         !.unpaid = @ + net]
  BY DEF releaseStoragePerBlock
<1> HIDE DEF gross, fund, W
<1>6. net \in Nat /\ net <= gross
  BY <1>2, <1>3
<1>7. /\ s.Storage \in Nat /\ s.Validator \in Nat /\ s.Foundation \in Nat
      /\ s.Retrieval \in Nat /\ s.Fund \in Nat /\ s.unpaid \in Nat
      /\ s.TokensReleased \in Nat /\ s.Index \in Nat /\ s.Remainder \in Nat
      /\ SumOf(s.Balance) \in Nat /\ SumOf(s.Pending) \in Nat
  BY <1>1, MoneyNat
<1> DEFINE ns == net * Scale
<1>8. ns \in Nat /\ numerator = ns + s.Remainder /\ numerator \in Nat
  <2> HIDE DEF net
  <2> QED
    BY <1>4, <1>6, <1>7
<1>9. net = 0 \/ ns >= Scale
  <2> HIDE DEF net
  <2>1. \A k \in Nat : k * Scale \in Nat
    BY <1>4
  <2>2. CASE net # 0
    <3>1. PICK k \in Nat : net = k + 1
      <4>1. net - 1 \in Nat /\ net = (net - 1) + 1
        BY <1>6, <2>2
      <4> QED
        BY <4>1
    <3>2. ns = k * Scale + Scale /\ k * Scale \in Nat
      BY <1>4, <2>1, <3>1
    <3> QED
      BY <1>4, <3>2
  <2> QED
    BY <2>2
<1>10. ns = Scale * net /\ (net = 0 => ns = 0)
  <2> HIDE DEF net
  <2> QED
    BY <1>4, <1>6
<1> HIDE DEF ns, numerator
<1>11. CASE s.Storage = 0 \/ W = 0
  BY <1>5, <1>11
<1>12. CASE ~(s.Storage = 0 \/ W = 0) /\ numerator < W
  <2>1. numerator = s.Remainder
    BY <1>4, <1>7, <1>8, <1>9, <1>10, <1>12
  <2>2. r = [s EXCEPT !.Remainder = s.Remainder]
    BY <1>5, <1>12, <2>1
  <2>3. r = s
    BY <1>1, <2>2 DEF RewardState
  <2> QED
    BY <2>3
<1>13. CASE ~(s.Storage = 0 \/ W = 0) /\ ~(numerator < W)
  <2> DEFINE q == numerator \div W
             left == numerator % W
             i == s.Index + q
             a == s.Storage - gross
             b == s.Fund + fund
             c == s.TokensReleased + gross
             u == s.unpaid + net
  <2>1. r = [[[s EXCEPT !.Index = i, !.Remainder = left] EXCEPT !.Storage = a, !.Fund = b]
               EXCEPT !.TokensReleased = c, !.unpaid = u]
    BY <1>5, <1>13
  <2>2. q \in Nat /\ left \in Nat /\ numerator = W * q + left
    <3>1. W \in Nat \ {0}
      BY <1>4, <1>13
    <3> QED
      BY <1>8, <3>1, Division
  <2> HIDE DEF q, left
  <2>3. i \in Nat /\ a \in Nat /\ b \in Nat /\ c \in Nat /\ u \in Nat
    <3> HIDE DEF net
    <3> QED
      BY <1>2, <1>3, <1>6, <1>7, <2>2
  <2> HIDE DEF i, a, b, c, u
  <2> DEFINE x == [s EXCEPT !.Index = i, !.Remainder = left]
             y == [x EXCEPT !.Storage = a, !.Fund = b]
  <2>4. /\ x \in RewardState /\ x.Index = i /\ x.Remainder = left
        /\ SamePools(x, s) /\ SameAccounts(x, s) /\ x.Miners = s.Miners /\ x.unpaid = s.unpaid
    BY <1>1, <2>2, <2>3 DEF RewardState, SamePools, SameAccounts
  <2>5. y = [x EXCEPT !.Storage = a, !.Fund = b]
    OBVIOUS
  <2>6. r = [y EXCEPT !.TokensReleased = c, !.unpaid = u]
    BY <2>1
  <2> HIDE DEF x, y
  <2>7. /\ y \in RewardState /\ y.Storage = a /\ y.Fund = b
        /\ y.Validator = x.Validator /\ y.Foundation = x.Foundation
        /\ y.Retrieval = x.Retrieval /\ SameAccounts(y, x) /\ SameIndex(y, x)
    BY <2>3, <2>4, <2>5 DEF RewardState, SameAccounts, SameIndex
  <2>8. /\ r \in RewardState /\ r.unpaid = u /\ r.Storage = y.Storage /\ r.Fund = y.Fund
        /\ r.Validator = y.Validator /\ r.Foundation = y.Foundation
        /\ r.Retrieval = y.Retrieval /\ SameAccounts(r, y)
        /\ r.Index = y.Index /\ r.Remainder = y.Remainder /\ r.Miners = y.Miners
    BY <2>3, <2>6, <2>7 DEF RewardState, SameAccounts
  <2>9. /\ r.Storage = a /\ r.Fund = b /\ r.Validator = s.Validator
        /\ r.Foundation = s.Foundation /\ r.Retrieval = s.Retrieval
        /\ r.Index = i /\ r.Remainder = left /\ r.Miners = s.Miners /\ SameAccounts(r, s)
    BY <2>4, <2>7, <2>8 DEF SamePools, SameAccounts, SameIndex
  <2>10. Vested(r)
    BY <1>1, <2>9 DEF Vested, SameAccounts
  <2>11. Emitted(r) = Emitted(s)
    <3> DEFINE rest == s.Validator + s.Foundation + s.Retrieval
                         + SumOf(s.Balance) + SumOf(s.Pending)
    <3>1. rest \in Nat
      BY <1>7
    <3>2. Emitted(s) = rest + s.Storage + s.Fund + s.unpaid
      BY <1>7 DEF Emitted
    <3>3. Emitted(r) = rest + a + b + u
      BY <1>7, <2>3, <2>8, <2>9 DEF Emitted, SameAccounts
    <3> HIDE DEF rest
    <3> QED
      BY <1>2, <1>3, <1>7, <3>1, <3>2, <3>3 DEF a, b, u, net
  <2>12. /\ SumOf(Credits(r)) = SumOf(Credits(s)) + q * W
         /\ \A m \in Provider : r.Miners[m].StorageRewardIndex <= r.Index
    BY <1>1, <2>2, <2>8, <2>9, CreditsGrow DEF i, W
  <2>13. SumOf(Credits(s)) \in Nat
    BY <1>1, CreditsNat
  <2>14. SumOf(Credits(r)) + r.Remainder <= Scale * r.unpaid
    <3>1. q * W = W * q /\ W * q \in Nat
      BY <1>4, <2>2
    <3>2. Scale * u = Scale * s.unpaid + Scale * net /\ Scale * s.unpaid \in Nat
      <4> HIDE DEF net
      <4> QED
        BY <1>4, <1>6, <1>7 DEF u
    <3>3. W * q + left = Scale * net + s.Remainder /\ Scale * net \in Nat
      BY <1>8, <1>10, <2>2
    <3> DEFINE wq == W * q
               sn == Scale * net
               su == Scale * s.unpaid
               C == SumOf(Credits(s))
    <3>4. /\ wq + left = sn + s.Remainder /\ sn \in Nat /\ wq \in Nat /\ su \in Nat
          /\ Scale * u = su + sn /\ C + s.Remainder <= su /\ C \in Nat
          /\ SumOf(Credits(r)) = C + wq
      BY <1>1, <2>12, <2>13, <3>1, <3>2, <3>3
    <3> HIDE DEF wq, sn, su, C
    <3>5. C + wq + left <= su + sn
      BY <1>7, <2>2, <3>4
    <3> QED
      BY <2>8, <2>9, <3>4, <3>5
  <2>15. Backed(r)
    BY <2>12, <2>14 DEF Backed
  <2> QED
    BY <1>1, <2>8, <2>10, <2>11, <2>15 DEF Sound
<1> QED
  BY <1>11, <1>12, <1>13

\* What comes out of a pool into a balance is in it.
LEMMA BalancePaid ==
  ASSUME NEW s \in RewardState, NEW a \in Payee, NEW x \in Nat
  PROVE  LET M == [s.Balance EXCEPT ![a] = s.Balance[a] + x]
         IN  M \in [Payee -> Nat] /\ SumOf(M) = SumOf(s.Balance) + x
<1> DEFINE f == s.Balance
           M == [f EXCEPT ![a] = f[a] + x]
<1>1. f \in [Payee -> Nat] /\ f[a] \in Nat /\ SumOf(f) \in Nat
  BY MoneyNat
<1> HIDE DEF f
<1>2. /\ M \in [Payee -> Nat] /\ M[a] = f[a] + x
      /\ \A b \in Payee \ {a} : M[b] = f[b]
  BY <1>1
<1> HIDE DEF M
<1>3. M \in [Payee -> Int] /\ f \in [Payee -> Int]
  BY <1>1, <1>2
<1>4. SumOf(M) = SumOf(f) + (M[a] - f[a])
  BY <1>2, <1>3, AllFinite, SumOfUpdate
<1>5. SumOf(M) = SumOf(f) + x
  BY <1>1, <1>2, <1>4
<1> QED
  BY <1>2, <1>5 DEF f, M

LEMMA FoundationReleaseSound ==
  ASSUME NEW s, Sound(s), NEW r, r = releaseFoundationPerBlock(s)
  PROVE  Sound(r)
<1> DEFINE x == Min({FoundationRewardPerBlock, s.Foundation})
           to == FoundationAddress
           p == s.Foundation - x
           c == s.TokensReleased + x
           M == [s.Balance EXCEPT ![to] = s.Balance[to] + x]
<1>1. s \in RewardState /\ Vested(s) /\ Emitted(s) = Genesis /\ Backed(s)
  BY DEF Sound
<1>2. CASE FoundationAddress = Unset
  BY <1>2 DEF releaseFoundationPerBlock
<1>3. CASE FoundationAddress # Unset
  <2>1. to \in Payee
    BY <1>3, RewardsAssumption
  <2>2. r = [[s EXCEPT !.Foundation = p, !.TokensReleased = c] EXCEPT !.Balance = M]
    BY <1>3 DEF releaseFoundationPerBlock
  <2>3. x \in Nat /\ x <= s.Foundation
    <3>1. FoundationRewardPerBlock \in Nat /\ s.Foundation \in Nat
      <4>1. FoundationRewardPerBlock \in Nat
        BY Constants
      <4>2. s.Foundation \in Nat
        BY <1>1, MoneyNat
      <4> QED
        BY <4>1, <4>2
    <3>2. x = Min({FoundationRewardPerBlock, s.Foundation})
      OBVIOUS
    <3> HIDE DEF x
    <3> QED
      BY <3>1, <3>2, LeastNat
  <2> HIDE DEF x, to
  <2>4. M \in [Payee -> Nat] /\ SumOf(M) = SumOf(s.Balance) + x
    BY <1>1, <2>1, <2>3, BalancePaid
  <2> HIDE DEF M
  <2>5. /\ s.Storage \in Nat /\ s.Validator \in Nat /\ s.Foundation \in Nat
        /\ s.Retrieval \in Nat /\ s.Fund \in Nat /\ s.unpaid \in Nat /\ s.TokensReleased \in Nat
        /\ SumOf(s.Balance) \in Nat /\ SumOf(s.Pending) \in Nat
    BY <1>1, MoneyNat
  <2>6. p \in Nat /\ c \in Nat
    BY <2>3, <2>5
  <2> HIDE DEF p, c
  <2> DEFINE t == [s EXCEPT !.Foundation = p, !.TokensReleased = c]
  <2>7. /\ t \in RewardState /\ t.Foundation = p /\ t.Storage = s.Storage
        /\ t.Validator = s.Validator /\ t.Retrieval = s.Retrieval /\ t.Fund = s.Fund
        /\ SameAccounts(t, s) /\ SameIndex(t, s)
    BY <1>1, <2>6 DEF RewardState, SameAccounts, SameIndex
  <2>8. r = [t EXCEPT !.Balance = M]
    BY <2>2
  <2> HIDE DEF t
  <2>9. /\ r \in RewardState /\ r.Balance = M /\ SamePools(r, t) /\ SameIndex(r, t)
        /\ r.Pending = t.Pending /\ r.Bucket = t.Bucket
    BY <2>4, <2>7, <2>8 DEF RewardState, SamePools, SameIndex
  <2>10. Vested(r) /\ SameIndex(r, s)
    BY <1>1, <2>7, <2>9 DEF Vested, SameAccounts, SameIndex
  <2>11. Emitted(r) = Emitted(s)
    <3> DEFINE rest == s.Storage + s.Validator + s.Retrieval + s.Fund + s.unpaid
                         + SumOf(s.Pending)
    <3>1. rest \in Nat /\ Emitted(s) = rest + s.Foundation + SumOf(s.Balance)
      BY <2>5 DEF Emitted
    <3>2. Emitted(r) = rest + p + SumOf(M)
      BY <2>3, <2>4, <2>5, <2>6, <2>7, <2>9 DEF Emitted, SamePools, SameAccounts, SameIndex
    <3> HIDE DEF rest
    <3> QED
      BY <2>3, <2>4, <2>5, <3>1, <3>2 DEF p
  <2>12. Backed(r)
    BY <1>1, <2>10, BackedSame
  <2> QED
    BY <1>1, <2>9, <2>10, <2>11, <2>12 DEF Sound
<1> QED
  BY <1>2, <1>3

LEMMA RetrievalReleaseSound ==
  ASSUME NEW s, Sound(s), NEW r, r = releaseRetrievalPerBlock(s)
  PROVE  Sound(r)
<1> DEFINE x == Min({RetrievalRewardPerBlock, s.Retrieval})
           to == RetrievalAddress
           p == s.Retrieval - x
           c == s.TokensReleased + x
           M == [s.Balance EXCEPT ![to] = s.Balance[to] + x]
<1>1. s \in RewardState /\ Vested(s) /\ Emitted(s) = Genesis /\ Backed(s)
  BY DEF Sound
<1>2. CASE RetrievalAddress = Unset
  BY <1>2 DEF releaseRetrievalPerBlock
<1>3. CASE RetrievalAddress # Unset
  <2>1. to \in Payee
    BY <1>3, RewardsAssumption
  <2>2. r = [[s EXCEPT !.Retrieval = p, !.TokensReleased = c] EXCEPT !.Balance = M]
    BY <1>3 DEF releaseRetrievalPerBlock
  <2>3. x \in Nat /\ x <= s.Retrieval
    <3>1. RetrievalRewardPerBlock \in Nat /\ s.Retrieval \in Nat
      <4>1. RetrievalRewardPerBlock \in Nat
        BY Constants
      <4>2. s.Retrieval \in Nat
        BY <1>1, MoneyNat
      <4> QED
        BY <4>1, <4>2
    <3>2. x = Min({RetrievalRewardPerBlock, s.Retrieval})
      OBVIOUS
    <3> HIDE DEF x
    <3> QED
      BY <3>1, <3>2, LeastNat
  <2> HIDE DEF x, to
  <2>4. M \in [Payee -> Nat] /\ SumOf(M) = SumOf(s.Balance) + x
    BY <1>1, <2>1, <2>3, BalancePaid
  <2> HIDE DEF M
  <2>5. /\ s.Storage \in Nat /\ s.Validator \in Nat /\ s.Foundation \in Nat
        /\ s.Retrieval \in Nat /\ s.Fund \in Nat /\ s.unpaid \in Nat /\ s.TokensReleased \in Nat
        /\ SumOf(s.Balance) \in Nat /\ SumOf(s.Pending) \in Nat
    BY <1>1, MoneyNat
  <2>6. p \in Nat /\ c \in Nat
    BY <2>3, <2>5
  <2> HIDE DEF p, c
  <2> DEFINE t == [s EXCEPT !.Retrieval = p, !.TokensReleased = c]
  <2>7. /\ t \in RewardState /\ t.Retrieval = p /\ t.Storage = s.Storage
        /\ t.Validator = s.Validator /\ t.Foundation = s.Foundation /\ t.Fund = s.Fund
        /\ SameAccounts(t, s) /\ SameIndex(t, s)
    BY <1>1, <2>6 DEF RewardState, SameAccounts, SameIndex
  <2>8. r = [t EXCEPT !.Balance = M]
    BY <2>2
  <2> HIDE DEF t
  <2>9. /\ r \in RewardState /\ r.Balance = M /\ SamePools(r, t) /\ SameIndex(r, t)
        /\ r.Pending = t.Pending /\ r.Bucket = t.Bucket
    BY <2>4, <2>7, <2>8 DEF RewardState, SamePools, SameIndex
  <2>10. Vested(r) /\ SameIndex(r, s)
    BY <1>1, <2>7, <2>9 DEF Vested, SameAccounts, SameIndex
  <2>11. Emitted(r) = Emitted(s)
    <3> DEFINE rest == s.Storage + s.Validator + s.Foundation + s.Fund + s.unpaid
                         + SumOf(s.Pending)
    <3>1. rest \in Nat /\ Emitted(s) = rest + s.Retrieval + SumOf(s.Balance)
      BY <2>5 DEF Emitted
    <3>2. Emitted(r) = rest + p + SumOf(M)
      BY <2>3, <2>4, <2>5, <2>6, <2>7, <2>9 DEF Emitted, SamePools, SameAccounts, SameIndex
    <3> HIDE DEF rest
    <3> QED
      BY <2>3, <2>4, <2>5, <3>1, <3>2 DEF p
  <2>12. Backed(r)
    BY <1>1, <2>10, BackedSame
  <2> QED
    BY <1>1, <2>9, <2>10, <2>11, <2>12 DEF Sound
<1> QED
  BY <1>2, <1>3

\* New weights are taken after everybody was credited at the old one.
LEMMA RecomputedSound ==
  ASSUME NEW s, Sound(s), clock \in Nat, NEW r \in RecomputeAllMinerWeights(s)
  PROVE  Sound(r)
<1>1. /\ s \in RewardState /\ s.Index \in Nat
      /\ \A m \in Provider : s.Miners[m] \in Earner
      /\ \A m \in Provider : s.Miners[m].StorageRewardIndex <= s.Index
  BY DEF Sound, Backed, RewardState
<1>2. PICK w \in [Provider -> 0..MaxUsedBytes] :
        r = [s EXCEPT !.Miners =
               [m \in Provider |-> [accrued(s, s.Miners[m]) EXCEPT !.EffectiveWeight = w[m]]],
                      !.LastRecompute = clock]
  BY Zenon DEF RecomputeAllMinerWeights
<1> DEFINE N(m) == [accrued(s, s.Miners[m]) EXCEPT !.EffectiveWeight = w[m]]
           M == [m \in Provider |-> N(m)]
<1>3. r = [s EXCEPT !.Miners = M, !.LastRecompute = clock]
  BY <1>2
<1>4. ASSUME NEW m \in Provider PROVE NoMoreCredit(s, s.Miners[m], N(m)) /\ N(m) \in Earner
  <2> DEFINE e == s.Miners[m]
             g == accrued(s, e)
             k == w[m]
             f == [g EXCEPT !.EffectiveWeight = k]
  <2>1. e \in Earner /\ e.StorageRewardIndex <= s.Index
    BY <1>1
  <2>2. k \in 0..MaxUsedBytes
    BY <1>2
  <2>3. N(m) = f
    OBVIOUS
  <2> HIDE DEF e, k, N
  <2>4. g \in Earner /\ g.StorageRewardIndex = s.Index
    BY <1>1, <2>1, AccruedParts
  <2>5. g.StorageRewardAccrued = accrued(s, e).StorageRewardAccrued
    OBVIOUS
  <2> HIDE DEF g
  <2>6. /\ f \in Earner /\ f.StorageRewardIndex = g.StorageRewardIndex
        /\ f.StorageRewardAccrued = g.StorageRewardAccrued
    BY <2>2, <2>4 DEF Earner
  <2> HIDE DEF f
  <2>7. NoMoreCredit(s, e, f)
    BY <1>1, <2>1, <2>4, <2>5, <2>6, CreditedFirst
  <2> QED
    BY <2>3, <2>6, <2>7 DEF e
<1> HIDE DEF N
<1>5. M \in [Provider -> Earner] /\ \A m \in Provider : M[m] = N(m)
  BY <1>4
<1> HIDE DEF M
<1>6. /\ r \in RewardState /\ r.Miners = M /\ SamePools(r, s) /\ SameAccounts(r, s)
      /\ r.Index = s.Index /\ r.Remainder = s.Remainder /\ r.unpaid = s.unpaid
  BY <1>1, <1>3, <1>5 DEF RewardState, SamePools, SameAccounts
<1>7. OnlyMiners(r, s)
  BY <1>6 DEF OnlyMiners
<1> QED
  BY <1>4, <1>5, <1>6, <1>7, MinersChange

LEMMA BlockStep ==
  ASSUME RewardsInv, NEW producer \in Voter, NEW S \in SUBSET Voter, RewardBlock(producer, S)
  PROVE  RewardsInv'
<1>1. Sound(rw) /\ clock \in FirstClock..MaxClock /\ clock \in Nat
  BY Constants DEF RewardsInv
<1>2. PICK s \in (IF RecomputeDue(rw) THEN RecomputeAllMinerWeights(rw) ELSE {rw}),
           tail \in [S -> Payee] :
        /\ \A v \in S : IsTail(v, tail[v])
        /\ \E v \in {releaseValidatorPerBlock(s, producer, S, tail)} :
             \E t \in {releaseStoragePerBlock(v)} :
               rw' = releaseRetrievalPerBlock(releaseFoundationPerBlock(t))
        /\ clock' = clock
  BY DEF RewardBlock, IsTail
<1>3. Sound(s)
  BY <1>1, <1>2, RecomputedSound
<1>4. PICK v : /\ v = releaseValidatorPerBlock(s, producer, S, tail)
               /\ \E t \in {releaseStoragePerBlock(v)} :
                    rw' = releaseRetrievalPerBlock(releaseFoundationPerBlock(t))
  BY <1>2
<1>5. Sound(v)
  BY <1>1, <1>2, <1>3, <1>4, ValidatorReleaseSound
<1>6. PICK t : t = releaseStoragePerBlock(v)
               /\ rw' = releaseRetrievalPerBlock(releaseFoundationPerBlock(t))
  BY <1>4
<1>7. Sound(t)
  BY <1>5, <1>6, StorageReleaseSound
<1>8. Sound(releaseFoundationPerBlock(t))
  BY <1>7, FoundationReleaseSound
<1>9. Sound(rw')
  BY <1>6, <1>8, RetrievalReleaseSound
<1> QED
  BY <1>1, <1>2, <1>9 DEF RewardsInv

-----------------------------------------------------------------------------
(***************************************************************************)
(* The invariant and what follows from it                                  *)
(***************************************************************************)
LEMMA InitSound ==
  ASSUME RewardsInit
  PROVE  RewardsInv
<1> DEFINE zeroes == [a \in Payee |-> 0]
           empty == [d \in Day |-> NoBucket]
           none == [a \in Payee |-> empty]
           miners == [m \in Provider |-> NoEarner]
<1>1. rw = [Storage |-> StorageInitial, Validator |-> ValidatorInitial,
            Foundation |-> FoundationInitial, Retrieval |-> RetrievalInitial,
            Fund |-> 0, TokensReleased |-> 0, Balance |-> zeroes, Pending |-> zeroes,
            Bucket |-> none, Index |-> 0, Remainder |-> 0, Miners |-> miners,
            LastRecompute |-> 0, unpaid |-> 0]
  BY DEF RewardsInit
<1>2. clock \in FirstClock..MaxClock
  BY Constants DEF RewardsInit
<1>3. zeroes \in [Payee -> Nat] /\ SumOf(zeroes) = 0
  <2>1. zeroes \in [Payee -> Nat] /\ zeroes \in [Payee -> Int] /\ \A a \in Payee : zeroes[a] = 0
    OBVIOUS
  <2> HIDE DEF zeroes
  <2> QED
    BY <2>1, AllFinite, SumOfZero
<1>4. empty \in Buckets /\ Filled(empty, 0)
  <2>1. \A d \in Day : empty[d].Total = 0 /\ empty[d].Released = 0
    BY DEF NoBucket
  <2>2. empty \in Buckets
    BY DEF NoBucket, Buckets
  <2> HIDE DEF empty
  <2>3. Held(empty) \in [Day -> Int] /\ \A d \in Day : Held(empty)[d] = 0
    BY <2>1, <2>2, HeldSum DEF Held
  <2>4. SumOf(Held(empty)) = 0
    BY <2>3, AllFinite, SumOfZero
  <2> QED
    BY <2>1, <2>2, <2>4 DEF Filled
<1>5. /\ miners \in [Provider -> Earner]
      /\ \A m \in Provider : miners[m].StorageRewardIndex = 0
      /\ \A m \in Provider : CreditOf(0, miners[m]) = 0
  <2>1. NoEarner \in Earner /\ NoEarner.StorageRewardIndex = 0
    BY Constants DEF NoEarner, Earner, EarnerStatus
  <2>2. CreditOf(0, NoEarner) = 0
    <3>1. NoEarner.StorageRewardAccrued = 0 /\ NoEarner.Status = "none"
      BY DEF NoEarner
    <3>2. storageRewardWeight(NoEarner) = 0
      BY <3>1 DEF storageRewardWeight
    <3>3. Scale \in Nat
      BY Constants
    <3> QED
      BY <2>1, <3>1, <3>2, <3>3 DEF CreditOf
  <2> QED
    BY <2>1, <2>2
<1> HIDE DEF zeroes, empty, miners
<1>6. none \in [Payee -> Buckets] /\ \A a \in Payee : none[a] = empty
  BY <1>4
<1> HIDE DEF none
<1>7. /\ StorageInitial \in Nat /\ ValidatorInitial \in Nat /\ FoundationInitial \in Nat
      /\ RetrievalInitial \in Nat /\ Scale \in Nat
  BY Constants
<1>8. rw \in RewardState
  BY <1>1, <1>3, <1>5, <1>6, <1>7 DEF RewardState, Buckets
<1>9. Vested(rw)
  <2>1. \A a \in Payee : zeroes[a] = 0
    BY DEF zeroes
  <2> QED
    BY <1>1, <1>4, <1>6, <2>1 DEF Vested
<1>10. Emitted(rw) = Genesis
  BY <1>1, <1>3, <1>7 DEF Emitted, Genesis
<1>11. Backed(rw)
  <2>1. \A m \in Provider : rw.Miners[m].StorageRewardIndex <= rw.Index
    BY <1>1, <1>5
  <2>2. \A m \in Provider : Credits(rw)[m] = 0
    BY <1>1, <1>5 DEF Credits
  <2>3. Credits(rw) \in [Provider -> Int]
    <3>1. Credits(rw) \in [Provider -> Nat]
      BY <1>8, <2>1, CreditsNat
    <3> QED
      BY <3>1
  <2>4. SumOf(Credits(rw)) = 0
    BY <2>2, <2>3, AllFinite, SumOfZero
  <2> QED
    BY <1>1, <1>7, <2>1, <2>4 DEF Backed
<1> QED
  BY <1>2, <1>8, <1>9, <1>10, <1>11 DEF RewardsInv, Sound

LEMMA StepSound ==
  ASSUME RewardsInv, [RewardsNext]_rewardVars
  PROVE  RewardsInv'
<1>1. CASE UNCHANGED rewardVars
  BY <1>1 DEF RewardsInv, Sound, Vested, Emitted, Backed, Credits, rewardVars
<1>2. CASE IndexStep
  <2>1. CASE \E m \in Provider : \/ EnterMiner(m) \/ LeaveMiner(m) \/ BatchCommitReceipt(m)
                                 \/ DeleteReceipt(m) \/ ProveStorage(m)
    BY <2>1, EnterStep, LeaveStep, BatchCommitStep, DeleteReceiptStep, ProveStep
  <2>2. CASE EpochEnds
    BY <2>2, EpochStep
  <2> QED
    BY <1>2, <2>1, <2>2 DEF IndexStep
<1>3. CASE \E v \in Voter, S \in SUBSET Voter : RewardBlock(v, S)
  BY <1>3, BlockStep
<1>4. CASE \E a \in Payee : ClaimMiningRewards(a)
  BY <1>4, ClaimStep
<1>5. CASE RewardTick
  <2>1. rw' = rw /\ clock' = clock + 1 /\ clock < MaxClock
    BY <1>5 DEF RewardTick
  <2>2. clock' \in FirstClock..MaxClock
    BY <2>1, Constants DEF RewardsInv
  <2>3. Sound(rw')
    BY <2>1 DEF RewardsInv
  <2> QED
    BY <2>2, <2>3 DEF RewardsInv
<1> QED
  BY <1>1, <1>2, <1>3, <1>4, <1>5 DEF RewardsNext

\* The State of the node is sound after every step: the invariant the proofs rest on.
THEOREM RewardsInvHolds == RewardsSpec => []RewardsInv
<1> QED
  BY InitSound, StepSound, PTL DEF RewardsSpec

\* EmissionAccounted: whatever divisions round and 64-bit products lose, in whatever
\* order an account's buckets are claimed, every token that left a pool is with an
\* account, in its buckets, in the fund or released to the index.
THEOREM EmissionHolds == RewardsSpec => []EmissionAccounted
<1>1. ASSUME RewardsInv PROVE EmissionAccounted
  <2>1. /\ rw \in RewardState /\ Vested(rw) /\ Emitted(rw) = Genesis
        /\ clock \in FirstClock..MaxClock
    BY <1>1 DEF RewardsInv, Sound
  <2>2. PendingMatchesBuckets
    BY <2>1 DEF PendingMatchesBuckets, Vested, Filled, Held
  <2> QED
    BY <2>1, <2>2 DEF EmissionAccounted, RewardsTypeOK, Emitted, Genesis
<1> QED
  BY <1>1, RewardsInvHolds, PTL

\* StorageRewardsBacked: what miners are credited, booked or still to be computed, is
\* within what was released to the index, whatever happened to weights and statuses.
THEOREM RewardsBacked == RewardsSpec => []StorageRewardsBacked
<1>1. ASSUME RewardsInv PROVE StorageRewardsBacked
  <2> DEFINE f == [m \in Provider |-> rw.Miners[m].StorageRewardAccrued
                                        + unsettledStorageReward(rw, rw.Miners[m])]
             g == [m \in Provider |-> Scale * f[m]]
  <2>1. /\ rw \in RewardState /\ Scale \in Nat \ {0}
        /\ \A m \in Provider : rw.Miners[m] \in Earner
        /\ \A m \in Provider : rw.Miners[m].StorageRewardIndex <= rw.Index
        /\ SumOf(Credits(rw)) + rw.Remainder <= Scale * rw.unpaid
    <3>1. rw \in RewardState /\ Backed(rw)
      BY <1>1 DEF RewardsInv, Sound
    <3>2. \A m \in Provider : rw.Miners[m] \in Earner
      BY <3>1 DEF RewardState
    <3> QED
      BY <3>1, <3>2, Constants DEF Backed
  <2>2. ASSUME NEW m \in Provider PROVE f[m] \in Nat /\ Scale * f[m] <= Credits(rw)[m]
    <3> DEFINE e == rw.Miners[m]
               u == accrued(rw, e)
    <3>1. e \in Earner /\ e.StorageRewardIndex <= rw.Index
      BY <2>1
    <3>2. f[m] = e.StorageRewardAccrued + unsettledStorageReward(rw, e)
      OBVIOUS
    <3>3. Credits(rw)[m] = CreditOf(rw.Index, e)
      BY DEF Credits
    <3> HIDE DEF e, f
    <3>4. /\ u \in Earner /\ Scale * u.StorageRewardAccrued <= CreditOf(rw.Index, e)
          /\ u.StorageRewardAccrued = e.StorageRewardAccrued + unsettledStorageReward(rw, e)
      BY <2>1, <3>1, AccruedParts
    <3> HIDE DEF u
    <3>5. u.StorageRewardAccrued \in Nat
      BY <3>4 DEF Earner
    <3> QED
      BY <3>2, <3>3, <3>4, <3>5
  <2>3. f \in [Provider -> Int]
    <3>1. f = [m \in Provider |-> f[m]]
      OBVIOUS
    <3> HIDE DEF f
    <3> QED
      BY <2>2, <3>1
  <2>4. StorageRewardsBacked <=> SumOf(f) <= rw.unpaid
    BY DEF StorageRewardsBacked
  <2> HIDE DEF f
  <2>5. g \in [Provider -> Int] /\ \A m \in Provider : g[m] = Scale * f[m]
    BY <2>1, <2>3
  <2> HIDE DEF g
  <2>6. SumOf(g) = Scale * SumOf(f)
    <3>1. Scale \in Int
      BY <2>1
    <3> QED
      BY <2>3, <2>5, <3>1, AllFinite, SumOfTimes
  <2>7. SumOf(g) <= SumOf(Credits(rw))
    <3>1. Credits(rw) \in [Provider -> Nat]
      BY <2>1, CreditsNat
    <3>2. Credits(rw) \in [Provider -> Int]
      BY <3>1
    <3>3. \A m \in Provider : g[m] <= Credits(rw)[m]
      BY <2>2, <2>5
    <3> QED
      BY <2>5, <3>2, <3>3, AllFinite, SumOfLess
  <2>8. /\ SumOf(f) \in Int /\ SumOf(Credits(rw)) \in Nat /\ rw.Remainder \in Nat
        /\ rw.unpaid \in Nat
    BY <2>1, <2>3, AllFinite, SumOfInt, CreditsNat, MoneyNat
  <2>9. Scale * SumOf(f) <= Scale * rw.unpaid
    <3>1. SumOf(g) \in Int /\ Scale * rw.unpaid \in Int
      BY <2>1, <2>5, <2>8, AllFinite, SumOfInt
    <3> QED
      BY <2>1, <2>6, <2>7, <2>8, <3>1
  <2>10. SumOf(f) <= rw.unpaid
    <3>1. SumOf(f) \in Int /\ rw.unpaid \in Int /\ Scale \in Nat \ {0}
      BY <2>1, <2>8
    <3> QED
      BY <2>9, <3>1, Cancel, Zenon
  <2> QED
    BY <2>4, <2>10
<1> QED
  BY <1>1, RewardsInvHolds, PTL
-----------------------------------------------------------------------------
(***************************************************************************)
(* What a host call does to a node's state                                 *)
(***************************************************************************)
LEMMA ContractsFinite == IsFiniteSet(Contract) /\ IsFiniteSet(Account) /\ Contract \subseteq Account
<1>1. IsFiniteSet(0..MaxWasmNonce)
  BY WasmHostAssumption, FS_Interval
<1>2. IsFiniteSet(User \X (0..MaxWasmNonce))
  BY <1>1, WasmHostAssumption, FS_Product
<1>3. Contract = User \X (0..MaxWasmNonce)
  BY DEF Contract, generateContractAddress
<1>4. IsFiniteSet(User \cup Contract)
  BY <1>2, <1>3, WasmHostAssumption, FS_Union
<1> QED
  BY <1>2, <1>3, <1>4 DEF Account

\* The state on the way: names may be any numbers.
HostState ==
  [balance: [Account -> Nat], contracts: [Contract -> WasmContract],
   codes: [Code -> Nat], kv: [Contract -> [Key -> Val \cup {None}]],
   crons: [Contract -> Seq(WasmCronJob)], subs: [Contract -> SUBSET Contract],
   pending: Seq(WasmPendingEvent), nonce: Nat,
   intents: SUBSET [ID: Nat, User: Contract, LockedFee: Nat],
   escrows: SUBSET [ID: Nat, User: Contract, LockedFee: Nat, Status: {"none", "terminated"}],
   collections: SUBSET [ID: Nat, User: Contract], records: SUBSET [ID: Nat, Collection: Nat]]

\* One of a name.
Unique(S) == \A x, y \in S : x.ID = y.ID => x = y

Names(S) == {x.ID : x \in S}

\* What a contract makes is named by a nonce that is used up.
Orderly(s) ==
  /\ s \in HostState
  /\ IsFiniteSet(s.intents) /\ IsFiniteSet(s.escrows)
  /\ Unique(s.intents) /\ Unique(s.escrows)
  /\ \A x \in s.intents \cup s.escrows \cup s.collections : x.ID < s.nonce
  /\ \A x \in s.records : x.ID < s.nonce /\ x.Collection < s.nonce

Fees(S) == SumFunctionOnSet([x \in S |-> x.LockedFee], S)

Balances(s) == SumFunctionOnSet([c \in Contract |-> s.contracts[c].Balance], Contract)

Worth(s) == SumFunctionOnSet(s.balance, Account) + Balances(s) + Fees(s.intents) + Fees(s.escrows)

\* t follows s by what c may do.
Appended(old, new, c) ==
  /\ Len(old) <= Len(new)
  /\ \A k \in 1..Len(old) : new[k] = old[k]
  /\ \A k \in (Len(old) + 1)..Len(new) : new[k].EmitterAddress = c

OthersKept(s, t, c) ==
  \A d \in Contract \ {c} : /\ t.contracts[d] = s.contracts[d] /\ t.kv[d] = s.kv[d]
                            /\ t.crons[d] = s.crons[d] /\ t.subs[d] = s.subs[d]

SameIdentity(s, t, c) ==
  /\ t.contracts[c].Status = s.contracts[c].Status
  /\ t.contracts[c].CodeHash = s.contracts[c].CodeHash
  /\ t.contracts[c].Admin = s.contracts[c].Admin

Effect(s, t, c) ==
  /\ Orderly(t)
  /\ t.codes = s.codes /\ s.nonce <= t.nonce
  /\ OthersKept(s, t, c) /\ SameIdentity(s, t, c)
  /\ s.intents \subseteq t.intents /\ s.collections \subseteq t.collections
  /\ s.records \subseteq t.records
  /\ Appended(s.pending, t.pending, c)
  /\ Names(t.escrows) = Names(s.escrows)
  /\ Worth(t) = Worth(s)

LEMMA EffectNone ==
  ASSUME NEW s, Orderly(s), NEW c \in Contract
  PROVE  Effect(s, s, c)
BY DEF Effect, Orderly, HostState, OthersKept, SameIdentity, Appended

LEMMA EffectThen ==
  ASSUME NEW r, NEW s, NEW t, NEW c \in Contract, Orderly(r), Effect(r, s, c), Effect(s, t, c)
  PROVE  Effect(r, t, c)
<1>1. r.nonce \in Nat /\ s.nonce \in Nat /\ t.nonce \in Nat
  BY DEF Effect, Orderly, HostState
<1>2. OthersKept(r, t, c) /\ SameIdentity(r, t, c)
  BY DEF Effect, OthersKept, SameIdentity
<1>3. Appended(r.pending, t.pending, c)
  <2>1. r.pending \in Seq(WasmPendingEvent) /\ s.pending \in Seq(WasmPendingEvent) /\ t.pending \in Seq(WasmPendingEvent)
    BY DEF Effect, Orderly, HostState
  <2>2. Len(r.pending) \in Nat /\ Len(s.pending) \in Nat /\ Len(t.pending) \in Nat
    BY <2>1
  <2>3. Appended(r.pending, s.pending, c) /\ Appended(s.pending, t.pending, c)
    BY DEF Effect
  <2> DEFINE l == Len(r.pending)
             m == Len(s.pending)
             n == Len(t.pending)
  <2>4. l \in Nat /\ m \in Nat /\ n \in Nat /\ l <= m /\ m <= n
    BY <2>2, <2>3 DEF Appended
  <2>5. \A k \in 1..l : t.pending[k] = r.pending[k]
    <3> SUFFICES ASSUME NEW k \in 1..l PROVE t.pending[k] = r.pending[k]
      OBVIOUS
    <3>1. k \in 1..m
      BY <2>4
    <3> QED
      BY <2>3, <3>1 DEF Appended
  <2>6. \A k \in (l + 1)..n : t.pending[k].EmitterAddress = c
    <3> SUFFICES ASSUME NEW k \in (l + 1)..n PROVE t.pending[k].EmitterAddress = c
      OBVIOUS
    <3>1. CASE k <= m
      <4>1. k \in (l + 1)..m /\ k \in 1..m
        BY <2>4, <3>1
      <4> QED
        BY <2>3, <4>1 DEF Appended
    <3>2. CASE ~(k <= m)
      <4>1. k \in (m + 1)..n
        BY <2>4, <3>2
      <4> QED
        BY <2>3, <4>1 DEF Appended
    <3> QED
      BY <3>1, <3>2
  <2> QED
    BY <2>4, <2>5, <2>6 DEF Appended
<1>4. /\ r.intents \subseteq t.intents /\ r.collections \subseteq t.collections
      /\ r.records \subseteq t.records
  BY DEF Effect
<1>5. /\ Orderly(t) /\ t.codes = r.codes /\ r.nonce <= t.nonce /\ Worth(t) = Worth(r)
      /\ Names(t.escrows) = Names(r.escrows)
  BY <1>1 DEF Effect
<1> QED
  BY <1>2, <1>3, <1>4, <1>5 DEF Effect

-----------------------------------------------------------------------------
(* Lists. *)
LEMMA FilteredMeans ==
  ASSUME NEW T, NEW list \in Seq(T), NEW S
  PROVE  Filtered(list, S) \in Seq(T \cap S)
<1> DEFINE n == Len(list)
           R == Seq(T \cap S)
           F == [k \in 1..n |-> [r \in R |-> IF list[k] \in S THEN Append(r, list[k]) ELSE r]]
           Def(g) == g = [k \in 0..n |-> IF k = 0 THEN <<>>
                            ELSE IF list[k] \in S THEN Append(g[k - 1], list[k]) ELSE g[k - 1]]
           f == CHOOSE g : Def(g)
<1>1. n \in Nat /\ <<>> \in R
  OBVIOUS
<1>2. StepsIn(F, n, R)
  <2> SUFFICES ASSUME NEW k \in 1..n, NEW r \in R
               PROVE  (IF list[k] \in S THEN Append(r, list[k]) ELSE r) \in R
    BY DEF StepsIn
  <2>1. list[k] \in T
    OBVIOUS
  <2> QED
    BY <2>1
<1> HIDE DEF F
<1>3. PICK g : Recurs(g, n, R, <<>>, F)
  BY <1>1, <1>2, Recursion
<1>4. g \in [0..n -> R] /\ g[0] = <<>>
  BY <1>3 DEF Recurs
<1>5. ASSUME NEW k \in 0..n
      PROVE  g[k] = IF k = 0 THEN <<>>
                    ELSE IF list[k] \in S THEN Append(g[k - 1], list[k]) ELSE g[k - 1]
  <2>1. CASE k = 0
    BY <2>1, <1>4
  <2>2. CASE k # 0
    <3>1. k \in 1..n /\ k - 1 \in 0..n
      BY <1>1, <2>2
    <3>2. g[k] = F[k][g[k - 1]] /\ g[k - 1] \in R
      BY <1>3, <1>4, <3>1 DEF Recurs
    <3> QED
      BY <2>2, <3>1, <3>2 DEF F
  <2> QED
    BY <2>1, <2>2
<1>6. Def(g)
  BY <1>4, <1>5
<1>7. Def(f)
  BY <1>6
<1>8. Filtered(list, S) = f[n]
  BY DEF Filtered
<1> HIDE DEF f
<1>9. \A k \in 0..n : f[k] \in R
  <2> DEFINE K == {k \in 0..n : f[k] \in R}
  <2>1. 0 \in K
    BY <1>1, <1>7
  <2>2. ASSUME NEW k \in 0..(n - 1), k \in K PROVE k + 1 \in K
    <3>1. k + 1 \in 0..n /\ k + 1 # 0 /\ (k + 1) - 1 = k
      BY <1>1
    <3>2. f[k + 1] = IF list[k + 1] \in S THEN Append(f[k], list[k + 1]) ELSE f[k]
      BY <1>7, <3>1
    <3>3. k + 1 \in 1..n
      BY <1>1
    <3>4. list[k + 1] \in T /\ f[k] \in R
      BY <2>2, <3>3
    <3>5. f[k + 1] \in R
      <4>1. CASE list[k + 1] \in S
        <5>1. list[k + 1] \in T \cap S
          BY <3>4, <4>1
        <5> QED
          BY <3>2, <3>4, <4>1, <5>1
      <4>2. CASE list[k + 1] \notin S
        BY <3>2, <3>4, <4>2
      <4> QED
        BY <4>1, <4>2
    <3> QED
      BY <3>1, <3>5
  <2> HIDE DEF K
  <2>3. \A k \in 0..n : k \in K
    BY <1>1, <2>1, <2>2, IntervalInduction
  <2> QED
    BY <2>3 DEF K
<1> QED
  BY <1>1, <1>8, <1>9

-----------------------------------------------------------------------------
(* The host functions. *)
\* What only changes what a contract keeps for itself.
LEMMA OwnEffect ==
  ASSUME NEW s, Orderly(s), NEW c \in Contract, NEW t, t \in HostState, OthersKept(s, t, c),
         t.contracts = s.contracts, t.balance = s.balance, t.codes = s.codes,
         t.nonce = s.nonce, t.pending = s.pending, t.intents = s.intents,
         t.escrows = s.escrows, t.collections = s.collections, t.records = s.records
  PROVE  Effect(s, t, c)
<1>1. Orderly(t)
  BY DEF Orderly
<1>2. Worth(t) = Worth(s)
  BY DEF Worth, Balances
<1>3. s.nonce \in Nat /\ Len(s.pending) \in Nat
  BY DEF Orderly, HostState
<1>4. Appended(s.pending, t.pending, c)
  BY <1>3 DEF Appended
<1> QED
  BY <1>1, <1>2, <1>3, <1>4 DEF Effect, SameIdentity

LEMMA KvEffect ==
  ASSUME NEW s, Orderly(s), NEW c \in Contract, NEW k \in Key, NEW v \in Val \cup {None}
  PROVE  Effect(s, [s EXCEPT !.kv[c][k] = v], c)
<1> DEFINE t == [s EXCEPT !.kv[c][k] = v]
<1>1. t \in HostState /\ OthersKept(s, t, c)
  BY DEF Orderly, HostState, OthersKept
<1>2. /\ t.contracts = s.contracts /\ t.balance = s.balance /\ t.codes = s.codes
      /\ t.nonce = s.nonce /\ t.pending = s.pending /\ t.intents = s.intents
      /\ t.escrows = s.escrows /\ t.collections = s.collections /\ t.records = s.records
  BY DEF Orderly, HostState
<1> HIDE DEF t
<1>3. Effect(s, t, c)
  BY <1>1, <1>2, OwnEffect
<1> QED
  BY <1>3 DEF t

LEMMA SubsEffect ==
  ASSUME NEW s, Orderly(s), NEW c \in Contract, NEW S \in SUBSET Contract
  PROVE  Effect(s, [s EXCEPT !.subs[c] = S], c)
<1> DEFINE t == [s EXCEPT !.subs[c] = S]
<1>1. t \in HostState /\ OthersKept(s, t, c)
  BY DEF Orderly, HostState, OthersKept
<1>2. /\ t.contracts = s.contracts /\ t.balance = s.balance /\ t.codes = s.codes
      /\ t.nonce = s.nonce /\ t.pending = s.pending /\ t.intents = s.intents
      /\ t.escrows = s.escrows /\ t.collections = s.collections /\ t.records = s.records
  BY DEF Orderly, HostState
<1> HIDE DEF t
<1>3. Effect(s, t, c)
  BY <1>1, <1>2, OwnEffect
<1> QED
  BY <1>3 DEF t

LEMMA CronEffect ==
  ASSUME NEW s, Orderly(s), NEW c \in Contract, NEW jobs \in Seq(WasmCronJob)
  PROVE  Effect(s, [s EXCEPT !.crons[c] = jobs], c)
<1> DEFINE t == [s EXCEPT !.crons[c] = jobs]
<1>1. t \in HostState /\ OthersKept(s, t, c)
  BY DEF Orderly, HostState, OthersKept
<1>2. /\ t.contracts = s.contracts /\ t.balance = s.balance /\ t.codes = s.codes
      /\ t.nonce = s.nonce /\ t.pending = s.pending /\ t.intents = s.intents
      /\ t.escrows = s.escrows /\ t.collections = s.collections /\ t.records = s.records
  BY DEF Orderly, HostState
<1> HIDE DEF t
<1>3. Effect(s, t, c)
  BY <1>1, <1>2, OwnEffect
<1> QED
  BY <1>3 DEF t

LEMMA KeyEffect ==
  ASSUME NEW s, Orderly(s), NEW c \in Contract, NEW k \in Key, NEW v \in Val
  PROVE  Effect(s, kv_set(s, c, k, v), c) /\ Effect(s, kv_delete(s, c, k), c)
BY KvEffect, EffectNone DEF kv_set, kv_delete, When

LEMMA SubscribeEffect ==
  ASSUME NEW s, Orderly(s), NEW c \in Contract, NEW emitter \in Contract
  PROVE  Effect(s, subscribe_event(s, c, emitter), c)
<1> DEFINE S == s.subs[c] \cup {emitter}
<1>1. S \in SUBSET Contract
  BY DEF Orderly, HostState
<1>2. [s EXCEPT !.subs[c] = @ \cup {emitter}] = [s EXCEPT !.subs[c] = S]
  BY DEF Orderly, HostState
<1> HIDE DEF S
<1> QED
  BY <1>1, <1>2, SubsEffect, EffectNone DEF subscribe_event, When

LEMMA RegisterEffect ==
  ASSUME NEW s, Orderly(s), NEW c \in Contract, NEW m \in Method, NEW time \in Nat
  PROVE  Effect(s, registerWasmCron(s, c, m, time), c)
<1> DEFINE job == [MethodName |-> m, NextDueAt |-> time + Interval, Enabled |-> TRUE, FailureCount |-> 0]
           jobs == Append(s.crons[c], job)
<1>1. job \in WasmCronJob
  BY WasmHostAssumption DEF WasmCronJob
<1>2. s.crons[c] \in Seq(WasmCronJob)
  BY DEF Orderly, HostState
<1> HIDE DEF job
<1>3. jobs \in Seq(WasmCronJob)
  BY <1>1, <1>2
<1>4. registerWasmCron(s, c, m, time) = s
        \/ registerWasmCron(s, c, m, time) = [s EXCEPT !.crons[c] = jobs]
  BY DEF registerWasmCron, When, job
<1> HIDE DEF jobs
<1> QED
  BY <1>3, <1>4, CronEffect, EffectNone

LEMMA UnregisterEffect ==
  ASSUME NEW s, Orderly(s), NEW c \in Contract, NEW m \in Method
  PROVE  Effect(s, unregister_cron(s, c, m), c)
<1> DEFINE S == {j \in WasmCronJob : j.MethodName # m}
           jobs == Filtered(s.crons[c], S)
<1>1. s.crons[c] \in Seq(WasmCronJob)
  BY DEF Orderly, HostState
<1>2. jobs \in Seq(WasmCronJob)
  <2>1. jobs \in Seq(WasmCronJob \cap S)
    BY <1>1, FilteredMeans
  <2> QED
    BY <2>1
<1>3. unregister_cron(s, c, m) = [s EXCEPT !.crons[c] = jobs]
  BY DEF unregister_cron
<1> HIDE DEF jobs
<1> QED
  BY <1>2, <1>3, CronEffect

LEMMA EmitEffect ==
  ASSUME NEW s, Orderly(s), NEW c \in Contract, NEW h \in Nat, NEW emitted \in Nat
  PROVE  Effect(s, emit_event(s, c, h, emitted), c)
<1> DEFINE listeners == {d \in Contract : c \in s.subs[d]}
           event == [EmitterAddress |-> c, DeliveryBlock |-> h + 1, Subscribers |-> listeners]
           list == Append(s.pending, event)
           t == [s EXCEPT !.pending = list]
<1>1. event \in WasmPendingEvent /\ event.EmitterAddress = c
  BY DEF WasmPendingEvent
<1>2. s.pending \in Seq(WasmPendingEvent)
  BY DEF Orderly, HostState
<1> HIDE DEF event
<1>3. list \in Seq(WasmPendingEvent) /\ Appended(s.pending, list, c)
  BY <1>1, <1>2 DEF Appended
<1>4. emit_event(s, c, h, emitted) = s \/ emit_event(s, c, h, emitted) = t
  BY DEF emit_event, enqueueWasmEvent, When, event
<1> HIDE DEF list
<1>5. t \in HostState /\ t.pending = list
  BY <1>3 DEF Orderly, HostState
<1>6. /\ t.contracts = s.contracts /\ t.balance = s.balance /\ t.codes = s.codes
      /\ t.nonce = s.nonce /\ t.kv = s.kv /\ t.crons = s.crons /\ t.subs = s.subs
      /\ t.intents = s.intents /\ t.escrows = s.escrows
      /\ t.collections = s.collections /\ t.records = s.records
  BY DEF Orderly, HostState
<1> HIDE DEF t
<1>7. Orderly(t) /\ Worth(t) = Worth(s)
  BY <1>5, <1>6 DEF Orderly, Worth, Balances
<1>8. OthersKept(s, t, c) /\ SameIdentity(s, t, c) /\ s.nonce \in Nat
  BY <1>6 DEF OthersKept, SameIdentity, Orderly, HostState
<1>9. Effect(s, t, c)
  BY <1>3, <1>5, <1>6, <1>7, <1>8 DEF Effect
<1> QED
  BY <1>4, <1>9, EffectNone

\* What a contract pays goes somewhere.
LEMMA PaidBalances ==
  ASSUME NEW s \in HostState, NEW t \in HostState, NEW c \in Contract, NEW n \in Nat,
         OthersKept(s, t, c), t.contracts[c].Balance = s.contracts[c].Balance - n
  PROVE  Balances(t) = Balances(s) - n /\ Balances(s) \in Int
<1> DEFINE f == [d \in Contract |-> s.contracts[d].Balance]
           g == [d \in Contract |-> t.contracts[d].Balance]
<1>1. \A d \in Contract : f[d] \in Int /\ g[d] \in Int
  BY DEF HostState, WasmContract
<1>2. \A d \in Contract \ {c} : g[d] = f[d]
  BY DEF OthersKept
<1>3. g[c] - f[c] = -n
  BY <1>1
<1> HIDE DEF f, g
<1>4. SumFunctionOnSet(g, Contract) = SumFunctionOnSet(f, Contract) + (g[c] - f[c])
  BY <1>1, <1>2, ContractsFinite, SumUpdate
<1>5. SumFunctionOnSet(f, Contract) \in Int
  BY <1>1, ContractsFinite, SumInt
<1>6. SumFunctionOnSet(g, Contract) = SumFunctionOnSet(f, Contract) - n
  BY <1>3, <1>4, <1>5
<1> QED
  BY <1>5, <1>6 DEF Balances, f, g

\* What the sums of a state are.
LEMMA WorthParts ==
  ASSUME NEW s, Orderly(s)
  PROVE  /\ SumFunctionOnSet(s.balance, Account) \in Int /\ Balances(s) \in Int
         /\ Fees(s.intents) \in Int /\ Fees(s.escrows) \in Int
<1>1. \A a \in Account : s.balance[a] \in Int
  BY DEF Orderly, HostState
<1>2. \A c \in Contract : [d \in Contract |-> s.contracts[d].Balance][c] \in Int
  BY DEF Orderly, HostState, WasmContract
<1>3. \A x \in s.intents : [y \in s.intents |-> y.LockedFee][x] \in Int
  BY DEF Orderly, HostState
<1>4. \A x \in s.escrows : [y \in s.escrows |-> y.LockedFee][x] \in Int
  BY DEF Orderly, HostState
<1>5. IsFiniteSet(s.intents) /\ IsFiniteSet(s.escrows)
  BY DEF Orderly
<1> QED
  BY <1>1, <1>2, <1>3, <1>4, <1>5, ContractsFinite, SumInt DEF Balances, Fees

LEMMA TransferEffect ==
  ASSUME NEW s, Orderly(s), NEW c \in Contract, NEW to \in Account, NEW amount \in Nat
  PROVE  Effect(s, exec_transfer(s, c, to, amount), c)
<1> DEFINE t == [s EXCEPT !.contracts[c].Balance = @ - amount, !.balance[to] = @ + amount]
<1>1. \/ exec_transfer(s, c, to, amount) = s
      \/ exec_transfer(s, c, to, amount) = t /\ amount <= s.contracts[c].Balance
  BY DEF exec_transfer, When
<1>2. ASSUME amount <= s.contracts[c].Balance PROVE Effect(s, t, c)
  <2>1. s \in HostState /\ s.contracts \in [Contract -> WasmContract] /\ s.balance \in [Account -> Nat]
    BY DEF Orderly, HostState
  <2>2. t.contracts = [s.contracts EXCEPT ![c].Balance = @ - amount]
    BY <2>1 DEF HostState
  <2>3. t.balance = [s.balance EXCEPT ![to] = @ + amount]
    BY <2>1 DEF HostState
  <2>4. t.contracts \in [Contract -> WasmContract]
    <3>1. s.contracts[c] \in WasmContract
      BY <2>1
    <3>2. s.contracts[c].Balance - amount \in Nat
      BY <1>2, <3>1 DEF WasmContract
    <3>3. [s.contracts[c] EXCEPT !.Balance = @ - amount] \in WasmContract
      BY <3>1, <3>2 DEF WasmContract
    <3> QED
      BY <2>1, <2>2, <3>3
  <2>5. t.balance \in [Account -> Nat]
    BY <2>1, <2>3
  <2>6. /\ t.codes = s.codes /\ t.nonce = s.nonce /\ t.kv = s.kv /\ t.crons = s.crons
        /\ t.subs = s.subs /\ t.pending = s.pending /\ t.intents = s.intents
        /\ t.escrows = s.escrows /\ t.collections = s.collections /\ t.records = s.records
    BY <2>1 DEF HostState
  <2>7. t \in HostState
    BY <2>1, <2>4, <2>5 DEF HostState
  <2> HIDE DEF t
  <2>8. Orderly(t)
    BY <2>6, <2>7 DEF Orderly
  <2>9. OthersKept(s, t, c) /\ SameIdentity(s, t, c)
    BY <2>1, <2>2, <2>6 DEF OthersKept, SameIdentity, WasmContract
  <2>10. Worth(t) = Worth(s)
    <3>1. t.contracts[c].Balance = s.contracts[c].Balance - amount
      BY <2>1, <2>2 DEF WasmContract
    <3>2. Balances(t) = Balances(s) - amount
      BY <2>1, <2>7, <2>9, <3>1, PaidBalances
    <3>3. \A a \in Account : s.balance[a] \in Int /\ t.balance[a] \in Int
      BY <2>1, <2>5
    <3>4. \A a \in Account \ {to} : t.balance[a] = s.balance[a]
      BY <2>1, <2>3
    <3>5. t.balance[to] - s.balance[to] = amount
      BY <2>1, <2>3
    <3>6. SumFunctionOnSet(t.balance, Account)
            = SumFunctionOnSet(s.balance, Account) + (t.balance[to] - s.balance[to])
      BY <3>3, <3>4, ContractsFinite, SumUpdate
    <3>7. /\ SumFunctionOnSet(s.balance, Account) \in Int /\ Balances(s) \in Int
          /\ Fees(s.intents) \in Int /\ Fees(s.escrows) \in Int
      BY WorthParts
    <3> QED
      BY <2>6, <3>2, <3>5, <3>6, <3>7 DEF Worth
  <2>11. s.nonce \in Nat /\ s.pending \in Seq(WasmPendingEvent)
    BY <2>1 DEF HostState
  <2>12. Appended(s.pending, t.pending, c)
    BY <2>6, <2>11 DEF Appended
  <2> QED
    BY <2>6, <2>8, <2>9, <2>10, <2>11, <2>12 DEF Effect
<1> HIDE DEF t
<1> QED
  BY <1>1, <1>2, EffectNone

LEMMA FeesWith ==
  ASSUME NEW S, IsFiniteSet(S), \A y \in S : y.LockedFee \in Int,
         NEW x, x \notin S, x.LockedFee \in Int
  PROVE  Fees(S \cup {x}) = Fees(S) + x.LockedFee /\ Fees(S) \in Int
<1> DEFINE T == S \cup {x}
           f == [y \in S |-> y.LockedFee]
           g == [y \in T |-> y.LockedFee]
<1>1. IsFiniteSet(T) /\ x \in T /\ T \ {x} = S
  BY FS_AddElement
<1>2. \A y \in T : g[y] \in Int
  OBVIOUS
<1>3. \A y \in S : f[y] \in Int /\ f[y] = g[y]
  OBVIOUS
<1>4. g[x] = x.LockedFee
  OBVIOUS
<1> HIDE DEF f, g
<1>5. SumFunctionOnSet(g, T) = g[x] + SumFunctionOnSet(g, T \ {x})
  BY <1>1, <1>2, SumSplit
<1>6. SumFunctionOnSet(f, S) = SumFunctionOnSet(g, S)
  BY <1>3, SumEqual
<1>7. SumFunctionOnSet(f, S) \in Int
  BY <1>3, SumInt
<1>8. SumFunctionOnSet(g, T) = g[x] + SumFunctionOnSet(g, S)
  BY <1>1, <1>5
<1> DEFINE u == SumFunctionOnSet(g, T)
           v == SumFunctionOnSet(f, S)
<1>9. u = x.LockedFee + v /\ v \in Int
  BY <1>4, <1>6, <1>7, <1>8
<1>10. u = Fees(S \cup {x}) /\ v = Fees(S)
  BY DEF Fees, f, g
<1> HIDE DEF u, v
<1>11. u = v + x.LockedFee
  BY <1>9
<1> QED
  BY <1>9, <1>10, <1>11

\* One is replaced by another of its name.
LEMMA Replaced ==
  ASSUME NEW S, IsFiniteSet(S), Unique(S), \A y \in S : y.LockedFee \in Int,
         NEW e \in S, NEW x, x.ID = e.ID, x.LockedFee \in Int, NEW T, T = (S \ {e}) \cup {x}
  PROVE  /\ IsFiniteSet(T) /\ Unique(T) /\ Names(T) = Names(S)
         /\ Fees(T) = Fees(S) - e.LockedFee + x.LockedFee
<1> DEFINE R == S \ {e}
<1>1. IsFiniteSet(R) /\ R \cup {e} = S /\ e \notin R
  BY FS_RemoveElement
<1>2. x \notin R
  BY DEF Unique
<1>3. IsFiniteSet(T)
  BY <1>1, FS_AddElement
<1>4. Unique(T)
  BY DEF Unique
<1>5. Names(T) = Names(S)
  BY DEF Names
<1>6. Fees(T) = Fees(R) + x.LockedFee /\ Fees(R) \in Int
  BY <1>1, <1>2, FeesWith
<1>7. Fees(S) = Fees(R) + e.LockedFee
  BY <1>1, FeesWith
<1>8. e.LockedFee \in Int
  OBVIOUS
<1> DEFINE u == Fees(R)
           v == Fees(T)
           w == Fees(S)
<1>9. v = u + x.LockedFee /\ w = u + e.LockedFee /\ u \in Int
  BY <1>6, <1>7
<1> HIDE DEF u, v, w
<1>10. v = w - e.LockedFee + x.LockedFee
  BY <1>8, <1>9
<1> QED
  BY <1>3, <1>4, <1>5, <1>10 DEF v, w

LEMMA IntentEffect ==
  ASSUME NEW s, Orderly(s), NEW c \in Contract, NEW fee \in Nat
  PROVE  Effect(s, exec_create_intent(s, c, fee), c)
<1> DEFINE x == [ID |-> s.nonce, User |-> c, LockedFee |-> fee]
           paid == [s.contracts EXCEPT ![c].Balance = @ - fee]
           t == [s EXCEPT !.contracts = paid, !.nonce = s.nonce + 1, !.intents = s.intents \cup {x}]
<1>1. \/ exec_create_intent(s, c, fee) = s
      \/ exec_create_intent(s, c, fee) = t /\ fee <= s.contracts[c].Balance
  BY DEF exec_create_intent, When
<1>2. ASSUME fee <= s.contracts[c].Balance PROVE Effect(s, t, c)
  <2>1. s \in HostState /\ s.contracts \in [Contract -> WasmContract] /\ s.nonce \in Nat
        /\ s.intents \subseteq [ID: Nat, User: Contract, LockedFee: Nat]
    BY DEF Orderly, HostState
  <2>2. t.contracts = [s.contracts EXCEPT ![c].Balance = @ - fee]
    BY <2>1 DEF HostState
  <2> HIDE DEF paid
  <2>3. t.intents = s.intents \cup {x} /\ t.nonce = s.nonce + 1
    BY <2>1 DEF HostState
  <2>4. t.contracts \in [Contract -> WasmContract] /\ paid \in [Contract -> WasmContract]
    <3>1. s.contracts[c] \in WasmContract
      BY <2>1
    <3>2. s.contracts[c].Balance - fee \in Nat
      BY <1>2, <3>1 DEF WasmContract
    <3>3. [s.contracts[c] EXCEPT !.Balance = @ - fee] \in WasmContract
      BY <3>1, <3>2 DEF WasmContract
    <3> QED
      BY <2>1, <2>2, <3>3 DEF paid
  <2>5. x \in [ID: Nat, User: Contract, LockedFee: Nat]
    BY <2>1
  <2>6. /\ t.codes = s.codes /\ t.balance = s.balance /\ t.kv = s.kv /\ t.crons = s.crons
        /\ t.subs = s.subs /\ t.pending = s.pending
        /\ t.escrows = s.escrows /\ t.collections = s.collections /\ t.records = s.records
    BY <2>1 DEF HostState
  <2>8. x.ID = s.nonce /\ x.LockedFee = fee
    OBVIOUS
  <2> HIDE DEF x
  <2>7. t \in HostState
    <3> DEFINE I == s.intents \cup {x}
               n == s.nonce + 1
    <3>1. I \in SUBSET [ID: Nat, User: Contract, LockedFee: Nat] /\ n \in Nat
      BY <2>1, <2>5
    <3>2. t = [s EXCEPT !.contracts = paid, !.nonce = n, !.intents = I]
      OBVIOUS
    <3> HIDE DEF I, n, t
    <3> QED
      BY <2>1, <2>4, <3>1, <3>2 DEF HostState
  <2> HIDE DEF t
  <2>9. IsFiniteSet(s.intents) /\ Unique(s.intents) /\ \A y \in s.intents : y.ID < s.nonce
    BY DEF Orderly
  <2>10. x \notin s.intents
    BY <2>1, <2>8, <2>9
  <2>11. Orderly(t)
    <3>1. IsFiniteSet(t.intents)
      BY <2>3, <2>9, FS_AddElement
    <3>2. Unique(t.intents)
      BY <2>1, <2>3, <2>8, <2>9 DEF Unique
    <3>3. \A y \in t.intents : y.ID < t.nonce
      BY <2>1, <2>3, <2>8, <2>9
    <3>4. \A y \in s.escrows \cup s.collections : y.ID \in Nat
      BY <2>1 DEF HostState
    <3>5. \A y \in s.records : y.ID \in Nat /\ y.Collection \in Nat
      BY <2>1 DEF HostState
    <3>6. \A y \in t.escrows \cup t.collections : y.ID < t.nonce
      BY <2>1, <2>3, <2>6, <3>4 DEF Orderly
    <3>7. \A y \in t.records : y.ID < t.nonce /\ y.Collection < t.nonce
      BY <2>1, <2>3, <2>6, <3>5 DEF Orderly
    <3>8. IsFiniteSet(t.escrows) /\ Unique(t.escrows)
      BY <2>6 DEF Orderly
    <3> QED
      BY <2>7, <3>1, <3>2, <3>3, <3>6, <3>7, <3>8 DEF Orderly
  <2>12. OthersKept(s, t, c) /\ SameIdentity(s, t, c)
    BY <2>1, <2>2, <2>6 DEF OthersKept, SameIdentity, WasmContract
  <2>13. Worth(t) = Worth(s)
    <3>1. t.contracts[c].Balance = s.contracts[c].Balance - fee
      BY <2>1, <2>2 DEF WasmContract
    <3>2. Balances(t) = Balances(s) - fee
      BY <2>1, <2>7, <2>12, <3>1, PaidBalances
    <3>3. \A y \in s.intents : y.LockedFee \in Int
      BY <2>1
    <3>4. Fees(t.intents) = Fees(s.intents) + fee
      BY <2>3, <2>8, <2>9, <2>10, <3>3, FeesWith
    <3>5. /\ SumFunctionOnSet(s.balance, Account) \in Int /\ Balances(s) \in Int
          /\ Fees(s.intents) \in Int /\ Fees(s.escrows) \in Int
      BY WorthParts
    <3> QED
      BY <2>6, <3>2, <3>4, <3>5 DEF Worth
  <2>14. s.pending \in Seq(WasmPendingEvent)
    BY <2>1 DEF HostState
  <2>15. Appended(s.pending, t.pending, c)
    BY <2>6, <2>14 DEF Appended
  <2>16. s.nonce <= t.nonce /\ s.intents \subseteq t.intents
    BY <2>1, <2>3
  <2> QED
    BY <2>6, <2>11, <2>12, <2>13, <2>15, <2>16 DEF Effect
<1> HIDE DEF t
<1> QED
  BY <1>1, <1>2, EffectNone

\* What a change of an escrow does, and what a contract pays into it.
LEMMA EscrowEffect ==
  ASSUME NEW s, Orderly(s), NEW c \in Contract, NEW e \in s.escrows,
         NEW x \in [ID: Nat, User: Contract, LockedFee: Nat, Status: {"none", "terminated"}], x.ID = e.ID,
         NEW paid \in [Contract -> WasmContract], NEW n \in Nat, x.LockedFee = e.LockedFee + n,
         \A d \in Contract \ {c} : paid[d] = s.contracts[d],
         paid[c].Status = s.contracts[c].Status, paid[c].CodeHash = s.contracts[c].CodeHash,
         paid[c].Admin = s.contracts[c].Admin, paid[c].Balance = s.contracts[c].Balance - n
  PROVE  Effect(s, [s EXCEPT !.contracts = paid, !.escrows = (s.escrows \ {e}) \cup {x}], c)
<1> DEFINE T == (s.escrows \ {e}) \cup {x}
           t == [s EXCEPT !.contracts = paid, !.escrows = T]
           Escrows == [ID: Nat, User: Contract, LockedFee: Nat, Status: {"none", "terminated"}]
<1>1. /\ s \in HostState /\ s.contracts \in [Contract -> WasmContract] /\ s.nonce \in Nat
      /\ s.escrows \subseteq Escrows /\ s.pending \in Seq(WasmPendingEvent)
  BY DEF Orderly, HostState
<1>2. T \in SUBSET Escrows
  BY <1>1
<1>3. /\ IsFiniteSet(T) /\ Unique(T) /\ Names(T) = Names(s.escrows)
      /\ Fees(T) = Fees(s.escrows) - e.LockedFee + x.LockedFee
  <2>1. IsFiniteSet(s.escrows) /\ Unique(s.escrows)
    BY DEF Orderly
  <2>2. \A y \in s.escrows : y.LockedFee \in Int
    BY <1>1
  <2>3. x.LockedFee \in Int /\ x.ID = e.ID /\ e \in s.escrows
    OBVIOUS
  <2>4. T = (s.escrows \ {e}) \cup {x}
    OBVIOUS
  <2> HIDE DEF T
  <2> QED
    BY <2>1, <2>2, <2>3, <2>4, Replaced
<1>4. \A y \in T : y.ID < s.nonce
  BY DEF Orderly
<1> HIDE DEF T
<1>5. t \in HostState
  BY <1>1, <1>2 DEF HostState
<1>6. /\ t.contracts = paid /\ t.escrows = T /\ t.codes = s.codes /\ t.balance = s.balance
      /\ t.kv = s.kv /\ t.crons = s.crons /\ t.subs = s.subs /\ t.pending = s.pending
      /\ t.intents = s.intents /\ t.nonce = s.nonce
      /\ t.collections = s.collections /\ t.records = s.records
  BY <1>1 DEF HostState
<1> HIDE DEF t
<1>7. Orderly(t)
  BY <1>3, <1>4, <1>5, <1>6 DEF Orderly
<1>8. OthersKept(s, t, c) /\ SameIdentity(s, t, c)
  BY <1>6 DEF OthersKept, SameIdentity
<1>9. Worth(t) = Worth(s)
  <2>1. Balances(t) = Balances(s) - n
    BY <1>1, <1>5, <1>6, <1>8, PaidBalances
  <2>2. e.LockedFee \in Int
    BY <1>1
  <2>3. /\ SumFunctionOnSet(s.balance, Account) \in Int /\ Balances(s) \in Int
        /\ Fees(s.intents) \in Int /\ Fees(s.escrows) \in Int
    BY WorthParts
  <2>4. Fees(t.escrows) = Fees(s.escrows) + n
    BY <1>3, <1>6, <2>2, <2>3
  <2> QED
    BY <1>6, <2>1, <2>3, <2>4 DEF Worth
<1>10. Appended(s.pending, t.pending, c)
  BY <1>1, <1>6 DEF Appended
<1>11. Effect(s, t, c)
  BY <1>1, <1>3, <1>6, <1>7, <1>8, <1>9, <1>10 DEF Effect
<1> QED
  BY <1>11 DEF t, T

LEMMA RenewEffect ==
  ASSUME NEW s, Orderly(s), NEW c \in Contract, NEW amount \in Nat
  PROVE  Effect(s, exec_renew_deal(s, c, amount), c)
<1> DEFINE own == {e \in s.escrows : e.User = c}
           e == CHOOSE e \in own : TRUE
           x == [e EXCEPT !.LockedFee = @ + amount]
           paid == [s.contracts EXCEPT ![c].Balance = @ - amount]
           T == (s.escrows \ {e}) \cup {x}
<1>1. \/ exec_renew_deal(s, c, amount) = s
      \/ /\ exec_renew_deal(s, c, amount) = [s EXCEPT !.contracts = paid, !.escrows = T]
         /\ amount <= s.contracts[c].Balance /\ own # {}
  BY DEF exec_renew_deal, When
<1>2. ASSUME amount <= s.contracts[c].Balance, own # {}
      PROVE  Effect(s, [s EXCEPT !.contracts = paid, !.escrows = T], c)
  <2>1. s.contracts \in [Contract -> WasmContract]
        /\ s.escrows \subseteq [ID: Nat, User: Contract, LockedFee: Nat, Status: {"none", "terminated"}]
    BY DEF Orderly, HostState
  <2>2. e \in s.escrows
    BY <1>2
  <2> HIDE DEF e
  <2>3. /\ x \in [ID: Nat, User: Contract, LockedFee: Nat, Status: {"none", "terminated"}]
        /\ x.ID = e.ID /\ x.LockedFee = e.LockedFee + amount
    BY <2>1, <2>2
  <2>4. s.contracts[c] \in WasmContract /\ s.contracts[c].Balance \in Nat
    BY <2>1 DEF WasmContract
  <2>5. /\ \A d \in Contract \ {c} : paid[d] = s.contracts[d]
        /\ paid[c] = [s.contracts[c] EXCEPT !.Balance = s.contracts[c].Balance - amount]
    BY <2>1
  <2>6. /\ paid[c] \in WasmContract
        /\ paid[c].Status = s.contracts[c].Status /\ paid[c].CodeHash = s.contracts[c].CodeHash
        /\ paid[c].Admin = s.contracts[c].Admin /\ paid[c].Balance = s.contracts[c].Balance - amount
    BY <1>2, <2>4, <2>5 DEF WasmContract
  <2>7. paid \in [Contract -> WasmContract]
    BY <2>1, <2>5, <2>6
  <2> HIDE DEF paid, x
  <2> QED
    BY <2>2, <2>3, <2>5, <2>6, <2>7, EscrowEffect
<1> HIDE DEF e, x, paid, T, own
<1> QED
  BY <1>1, <1>2, EffectNone

LEMMA EndEffect ==
  ASSUME NEW s, Orderly(s), NEW c \in Contract
  PROVE  Effect(s, exec_terminate_deal(s, c), c)
<1> DEFINE own == {e \in s.escrows : e.User = c}
           e == CHOOSE e \in own : TRUE
           x == [e EXCEPT !.Status = "terminated"]
           T == (s.escrows \ {e}) \cup {x}
<1>1. \/ exec_terminate_deal(s, c) = s
      \/ exec_terminate_deal(s, c) = [s EXCEPT !.escrows = T] /\ own # {}
  BY DEF exec_terminate_deal, When
<1>2. ASSUME own # {}
      PROVE  Effect(s, [s EXCEPT !.escrows = T], c)
  <2>1. s.contracts \in [Contract -> WasmContract]
        /\ s.escrows \subseteq [ID: Nat, User: Contract, LockedFee: Nat, Status: {"none", "terminated"}]
    BY DEF Orderly, HostState
  <2>2. e \in s.escrows
    BY <1>2
  <2> HIDE DEF e
  <2>3. /\ x \in [ID: Nat, User: Contract, LockedFee: Nat, Status: {"none", "terminated"}]
        /\ x.ID = e.ID /\ x.LockedFee = e.LockedFee + 0
    BY <2>1, <2>2
  <2>4. s.contracts[c].Balance = s.contracts[c].Balance - 0
    BY <2>1 DEF WasmContract
  <2> HIDE DEF x
  <2>5. Effect(s, [s EXCEPT !.contracts = s.contracts, !.escrows = T], c)
    BY <2>1, <2>2, <2>3, <2>4, EscrowEffect
  <2>6. [s EXCEPT !.contracts = s.contracts, !.escrows = T] = [s EXCEPT !.escrows = T]
    BY DEF Orderly, HostState
  <2> QED
    BY <2>5, <2>6
<1> HIDE DEF e, x, T, own
<1> QED
  BY <1>1, <1>2, EffectNone

\* A new name for a collection or a record.
LEMMA NamedEffect ==
  ASSUME NEW s, Orderly(s), NEW c \in Contract,
         NEW C \in SUBSET [ID: Nat, User: Contract], s.collections \subseteq C,
         \A x \in C \ s.collections : x.ID = s.nonce,
         NEW R \in SUBSET [ID: Nat, Collection: Nat], s.records \subseteq R,
         \A x \in R \ s.records : x.ID = s.nonce /\ x.Collection < s.nonce
  PROVE  Effect(s, [s EXCEPT !.nonce = s.nonce + 1, !.collections = C, !.records = R], c)
<1> DEFINE n == s.nonce + 1
           t == [s EXCEPT !.nonce = n, !.collections = C, !.records = R]
<1>1. s \in HostState /\ s.nonce \in Nat /\ n \in Nat /\ n = s.nonce + 1 /\ s.pending \in Seq(WasmPendingEvent)
  BY DEF Orderly, HostState
<1> HIDE DEF n
<1>2. t \in HostState
  BY <1>1 DEF HostState
<1>3. /\ t.contracts = s.contracts /\ t.escrows = s.escrows /\ t.codes = s.codes
      /\ t.balance = s.balance /\ t.kv = s.kv /\ t.crons = s.crons /\ t.subs = s.subs
      /\ t.pending = s.pending /\ t.intents = s.intents /\ t.nonce = n
      /\ t.collections = C /\ t.records = R
  BY <1>1 DEF HostState
<1> HIDE DEF t
<1>4. Orderly(t)
  <2>1. \A x \in s.intents \cup s.escrows \cup s.collections : x.ID \in Nat
    BY <1>1 DEF HostState
  <2>2. \A x \in s.records : x.ID \in Nat /\ x.Collection \in Nat
    BY <1>1 DEF HostState
  <2>3. \A x \in t.intents \cup t.escrows \cup t.collections : x.ID < n
    BY <1>1, <1>3, <2>1 DEF Orderly
  <2>4. \A x \in t.records : x.ID < n /\ x.Collection < n
    BY <1>1, <1>3, <2>2 DEF Orderly
  <2> QED
    BY <1>2, <1>3, <2>3, <2>4 DEF Orderly
<1>5. OthersKept(s, t, c) /\ SameIdentity(s, t, c) /\ Worth(t) = Worth(s)
  BY <1>3 DEF OthersKept, SameIdentity, Worth, Balances
<1>6. Appended(s.pending, t.pending, c) /\ s.nonce <= t.nonce
  BY <1>1, <1>3 DEF Appended
<1>7. Effect(s, t, c)
  BY <1>3, <1>4, <1>5, <1>6 DEF Effect
<1> QED
  BY <1>7 DEF t, n

LEMMA CollectionEffect ==
  ASSUME NEW s, Orderly(s), NEW c \in Contract
  PROVE  Effect(s, exec_create_collection(s, c), c)
<1> DEFINE x == [ID |-> s.nonce, User |-> c]
           C == s.collections \cup {x}
<1>1. \/ exec_create_collection(s, c) = s
      \/ exec_create_collection(s, c) = [s EXCEPT !.nonce = s.nonce + 1, !.collections = C]
  BY DEF exec_create_collection, When
<1>2. C \in SUBSET [ID: Nat, User: Contract] /\ s.records \in SUBSET [ID: Nat, Collection: Nat]
  BY DEF Orderly, HostState
<1>3. s.collections \subseteq C /\ \A y \in C \ s.collections : y.ID = s.nonce
  OBVIOUS
<1> HIDE DEF C
<1>4. Effect(s, [s EXCEPT !.nonce = s.nonce + 1, !.collections = C, !.records = s.records], c)
  BY <1>2, <1>3, NamedEffect
<1>5. [s EXCEPT !.nonce = s.nonce + 1, !.collections = C, !.records = s.records]
        = [s EXCEPT !.nonce = s.nonce + 1, !.collections = C]
  BY DEF Orderly, HostState
<1> QED
  BY <1>1, <1>4, <1>5, EffectNone

LEMMA RecordEffect ==
  ASSUME NEW s, Orderly(s), NEW c \in Contract
  PROVE  Effect(s, exec_append_record(s, c), c)
<1> DEFINE own == {x \in s.collections : x.User = c}
           o == CHOOSE x \in own : TRUE
           x == [ID |-> s.nonce, Collection |-> o.ID]
           R == s.records \cup {x}
<1>1. \/ exec_append_record(s, c) = s
      \/ exec_append_record(s, c) = [s EXCEPT !.nonce = s.nonce + 1, !.records = R] /\ own # {}
  BY DEF exec_append_record, When
<1>2. ASSUME own # {}
      PROVE  Effect(s, [s EXCEPT !.nonce = s.nonce + 1, !.records = R], c)
  <2>1. o \in s.collections
    BY <1>2
  <2> HIDE DEF o
  <2>2. o.ID \in Nat /\ o.ID < s.nonce /\ s.nonce \in Nat
    BY <2>1 DEF Orderly, HostState
  <2>3. R \in SUBSET [ID: Nat, Collection: Nat] /\ s.collections \in SUBSET [ID: Nat, User: Contract]
    BY <2>2 DEF Orderly, HostState
  <2>4. s.records \subseteq R /\ \A y \in R \ s.records : y.ID = s.nonce /\ y.Collection < s.nonce
    BY <2>2
  <2> HIDE DEF R
  <2>5. Effect(s, [s EXCEPT !.nonce = s.nonce + 1, !.collections = s.collections, !.records = R], c)
    BY <2>3, <2>4, NamedEffect
  <2>6. [s EXCEPT !.nonce = s.nonce + 1, !.collections = s.collections, !.records = R]
          = [s EXCEPT !.nonce = s.nonce + 1, !.records = R]
    BY DEF Orderly, HostState
  <2> QED
    BY <2>5, <2>6
<1> HIDE DEF R, own
<1> QED
  BY <1>1, <1>2, EffectNone

-----------------------------------------------------------------------------
(* A host call, and an execution. *)
LEMMA HostCallEffect ==
  ASSUME NEW s, Orderly(s), NEW c \in Contract, NEW h \in HostFunction,
         NEW time \in Nat, NEW now \in Nat, NEW emitted \in Nat
  PROVE  Effect(s, HostCall(s, c, h, time, now, emitted), c)
<1>1. CASE h.op = "kv_set"
  <2>1. h.key \in Key /\ h.val \in Val
    BY <1>1 DEF HostFunction
  <2> QED
    BY <1>1, <2>1, KeyEffect DEF HostCall
<1>2. CASE h.op = "kv_delete"
  <2>1. h.key \in Key
    BY <1>2 DEF HostFunction
  <2>2. Effect(s, kv_delete(s, c, h.key), c)
    BY <2>1, KvEffect DEF kv_delete
  <2> QED
    BY <1>2, <2>2 DEF HostCall
<1>3. CASE h.op = "exec_transfer"
  <2>1. h.to \in Account /\ h.amount \in Nat
    BY <1>3 DEF HostFunction
  <2> QED
    BY <1>3, <2>1, TransferEffect DEF HostCall
<1>4. CASE h.op = "emit_event"
  BY <1>4, EmitEffect DEF HostCall
<1>5. CASE h.op = "subscribe_event"
  <2>1. h.emitter \in Contract
    BY <1>5 DEF HostFunction
  <2> QED
    BY <1>5, <2>1, SubscribeEffect DEF HostCall
<1>6. CASE h.op = "register_cron"
  <2>1. h.method \in Method
    BY <1>6 DEF HostFunction
  <2> QED
    BY <1>6, <2>1, RegisterEffect DEF HostCall
<1>7. CASE h.op = "unregister_cron"
  <2>1. h.method \in Method
    BY <1>7 DEF HostFunction
  <2> QED
    BY <1>7, <2>1, UnregisterEffect DEF HostCall
<1>8. CASE h.op = "exec_create_intent"
  <2>1. h.amount \in Nat
    BY <1>8 DEF HostFunction
  <2> QED
    BY <1>8, <2>1, IntentEffect DEF HostCall
<1>9. CASE h.op = "exec_renew_deal"
  <2>1. h.amount \in Nat
    BY <1>9 DEF HostFunction
  <2> QED
    BY <1>9, <2>1, RenewEffect DEF HostCall
<1>10. CASE h.op = "exec_terminate_deal"
  BY <1>10, EndEffect DEF HostCall
<1>11. CASE h.op = "exec_create_collection"
  BY <1>11, CollectionEffect DEF HostCall
<1>12. CASE h.op = "exec_append_record"
  BY <1>12, RecordEffect DEF HostCall
<1>13. h.op \in {"kv_set", "kv_delete", "exec_transfer", "emit_event", "subscribe_event",
                 "register_cron", "unregister_cron", "exec_create_intent", "exec_renew_deal",
                 "exec_terminate_deal", "exec_create_collection", "exec_append_record"}
  BY DEF HostFunction
<1> QED
  BY <1>1, <1>2, <1>3, <1>4, <1>5, <1>6, <1>7, <1>8, <1>9, <1>10, <1>11, <1>12, <1>13

LEMMA ExecuteEffect ==
  ASSUME NEW s, Orderly(s), NEW c \in Contract, NEW program \in Program,
         NEW time \in Nat, NEW now \in Nat
  PROVE  Effect(s, Execute(s, c, program, time, now), c)
<1> DEFINE n == Len(program)
           R == {[state |-> t, emitted |-> m] : t \in {u \in HostState : Effect(s, u, c)}, m \in Nat}
           b == [state |-> s, emitted |-> 0]
           Step(h, x) == [state |-> HostCall(x.state, c, h, time, now, x.emitted),
                          emitted |-> IF h.op = "emit_event" THEN x.emitted + 1 ELSE x.emitted]
           F == [k \in 1..n |-> [x \in R |-> Step(program[k], x)]]
           Def(g) == g = [k \in 0..n |-> IF k = 0 THEN b ELSE Step(program[k], g[k - 1])]
           f == CHOOSE g : Def(g)
<1>1. n \in Nat /\ program \in Seq(HostFunction) /\ \A k \in 1..n : program[k] \in HostFunction
  BY ContractsAssumption
<1>2. \A x \in R : x.state \in HostState /\ Effect(s, x.state, c) /\ x.emitted \in Nat
  OBVIOUS
<1>3. \A t, m : t \in HostState /\ Effect(s, t, c) /\ m \in Nat => [state |-> t, emitted |-> m] \in R
  OBVIOUS
<1>4. b \in R
  <2>1. s \in HostState /\ Effect(s, s, c)
    BY EffectNone DEF Orderly
  <2> QED
    BY <1>3, <2>1
<1> HIDE DEF R, b
<1>5. ASSUME NEW h \in HostFunction, NEW x \in R PROVE Step(h, x) \in R
  <2>1. Effect(s, x.state, c) /\ x.emitted \in Nat
    BY <1>2
  <2>2. Orderly(x.state)
    BY <2>1 DEF Effect
  <2> DEFINE t == HostCall(x.state, c, h, time, now, x.emitted)
             m == IF h.op = "emit_event" THEN x.emitted + 1 ELSE x.emitted
  <2>3. Effect(x.state, t, c)
    BY <2>1, <2>2, HostCallEffect
  <2>4. m \in Nat
    BY <2>1
  <2> HIDE DEF t, m
  <2>5. Effect(s, t, c) /\ t \in HostState
    <3>1. Effect(s, t, c)
      BY <2>1, <2>3, EffectThen
    <3> QED
      BY <3>1 DEF Effect, Orderly
  <2>6. [state |-> t, emitted |-> m] \in R
    BY <1>3, <2>4, <2>5
  <2> QED
    BY <2>6 DEF t, m
<1> HIDE DEF Step
<1>6. StepsIn(F, n, R)
  BY <1>1, <1>5 DEF StepsIn
<1>7. \A k \in 1..n : \A x \in R : F[k][x] = Step(program[k], x)
  OBVIOUS
<1> HIDE DEF F
<1>8. PICK g : Recurs(g, n, R, b, F)
  BY <1>1, <1>4, <1>6, Recursion
<1>9. g \in [0..n -> R] /\ g[0] = b
  BY <1>8 DEF Recurs
<1>10. ASSUME NEW k \in 0..n PROVE g[k] = IF k = 0 THEN b ELSE Step(program[k], g[k - 1])
  <2>1. CASE k = 0
    BY <2>1, <1>9
  <2>2. CASE k # 0
    <3>1. k \in 1..n /\ k - 1 \in 0..n
      BY <1>1, <2>2
    <3>2. g[k] = F[k][g[k - 1]] /\ g[k - 1] \in R
      BY <1>8, <1>9, <3>1 DEF Recurs
    <3> QED
      BY <1>7, <2>2, <3>1, <3>2
  <2> QED
    BY <2>1, <2>2
<1>11. Def(g)
  BY <1>9, <1>10
<1>12. Def(f)
  BY <1>11
<1>13. Execute(s, c, program, time, now) = f[n].state
  BY DEF Execute, Step, b
<1> HIDE DEF f
<1>14. \A k \in 0..n : f[k] \in R
  <2> DEFINE K == {k \in 0..n : f[k] \in R}
  <2>1. 0 \in K
    BY <1>1, <1>4, <1>12
  <2>2. ASSUME NEW k \in 0..(n - 1), k \in K PROVE k + 1 \in K
    <3>1. k + 1 \in 0..n /\ k + 1 # 0 /\ (k + 1) - 1 = k /\ k + 1 \in 1..n
      BY <1>1
    <3>2. f[k + 1] = Step(program[k + 1], f[k])
      BY <1>12, <3>1
    <3> QED
      BY <1>1, <1>5, <2>2, <3>1, <3>2
  <2> HIDE DEF K
  <2>3. \A k \in 0..n : k \in K
    BY <1>1, <2>1, <2>2, IntervalInduction
  <2> QED
    BY <2>3 DEF K
<1> QED
  BY <1>1, <1>2, <1>13, <1>14

\* A registration changes the list of jobs of its contract and nothing else.
LEMMA RegisterMeans ==
  ASSUME NEW s \in HostState, NEW c \in Contract, NEW methods \in CronSpec, blockTime \in Nat
  PROVE  \E jobs \in Seq(WasmCronJob) : Register(s, c, methods) = [s EXCEPT !.crons[c] = jobs]
<1> DEFINE n == Len(methods)
           With(jobs) == [s EXCEPT !.crons[c] = jobs]
           R == {With(jobs) : jobs \in Seq(WasmCronJob)}
           Step(m, x) == registerWasmCron(x, c, m, blockTime)
           F == [k \in 1..n |-> [x \in R |-> Step(methods[k], x)]]
           Def(g) == g = [k \in 0..n |-> IF k = 0 THEN s ELSE Step(methods[k], g[k - 1])]
           f == CHOOSE g : Def(g)
<1>1. n \in Nat /\ \A k \in 1..n : methods[k] \in Method
  BY ContractsAssumption
<1>2. \A x \in R : \E jobs \in Seq(WasmCronJob) : x = With(jobs)
  OBVIOUS
<1>3. \A jobs \in Seq(WasmCronJob) : With(jobs) \in R
  OBVIOUS
<1>4. s \in R
  <2>1. s.crons[c] \in Seq(WasmCronJob) /\ s = With(s.crons[c])
    BY DEF HostState
  <2> QED
    BY <1>3, <2>1
<1> HIDE DEF R
<1>5. ASSUME NEW m \in Method, NEW x \in R PROVE Step(m, x) \in R
  <2>1. PICK jobs \in Seq(WasmCronJob) : x = With(jobs)
    BY <1>2
  <2> DEFINE job == [MethodName |-> m, NextDueAt |-> blockTime + Interval, Enabled |-> TRUE,
                     FailureCount |-> 0]
  <2>2. job \in WasmCronJob
    BY WasmHostAssumption DEF WasmCronJob
  <2>3. x.crons[c] = jobs
    BY <2>1 DEF HostState
  <2>4. Step(m, x) = x \/ Step(m, x) = [x EXCEPT !.crons[c] = Append(jobs, job)]
    BY <2>3 DEF registerWasmCron, When
  <2> HIDE DEF job
  <2>5. Append(jobs, job) \in Seq(WasmCronJob)
    BY <2>2
  <2> DEFINE more == Append(jobs, job)
  <2> HIDE DEF more
  <2>6. [With(jobs) EXCEPT !.crons[c] = more] = With(more)
    BY DEF HostState
  <2> QED
    BY <1>3, <2>1, <2>4, <2>5, <2>6 DEF more
<1> HIDE DEF Step, With
<1>6. StepsIn(F, n, R)
  BY <1>1, <1>5 DEF StepsIn
<1>7. \A k \in 1..n : \A x \in R : F[k][x] = Step(methods[k], x)
  OBVIOUS
<1> HIDE DEF F
<1>8. PICK g : Recurs(g, n, R, s, F)
  BY <1>1, <1>4, <1>6, Recursion
<1>9. g \in [0..n -> R] /\ g[0] = s
  BY <1>8 DEF Recurs
<1>10. ASSUME NEW k \in 0..n PROVE g[k] = IF k = 0 THEN s ELSE Step(methods[k], g[k - 1])
  <2>1. CASE k = 0
    BY <2>1, <1>9
  <2>2. CASE k # 0
    <3>1. k \in 1..n /\ k - 1 \in 0..n
      BY <1>1, <2>2
    <3>2. g[k] = F[k][g[k - 1]] /\ g[k - 1] \in R
      BY <1>8, <1>9, <3>1 DEF Recurs
    <3> QED
      BY <1>7, <2>2, <3>1, <3>2
  <2> QED
    BY <2>1, <2>2
<1>11. Def(g)
  BY <1>9, <1>10
<1>12. Def(f)
  BY <1>11
<1>13. Register(s, c, methods) = f[n]
  BY DEF Register, Step
<1> HIDE DEF f
<1>14. \A k \in 0..n : f[k] \in R
  <2> DEFINE K == {k \in 0..n : f[k] \in R}
  <2>1. 0 \in K
    BY <1>1, <1>4, <1>12
  <2>2. ASSUME NEW k \in 0..(n - 1), k \in K PROVE k + 1 \in K
    <3>1. k + 1 \in 0..n /\ k + 1 # 0 /\ (k + 1) - 1 = k /\ k + 1 \in 1..n
      BY <1>1
    <3>2. f[k + 1] = Step(methods[k + 1], f[k])
      BY <1>12, <3>1
    <3> QED
      BY <1>1, <1>5, <2>2, <3>1, <3>2
  <2> HIDE DEF K
  <2>3. \A k \in 0..n : k \in K
    BY <1>1, <2>1, <2>2, IntervalInduction
  <2> QED
    BY <2>3 DEF K
<1>15. f[n] \in R
  BY <1>1, <1>14
<1> QED
  BY <1>2, <1>13, <1>15 DEF With

-----------------------------------------------------------------------------
(***************************************************************************)
(* What the difference of two states does to a replica                     *)
(***************************************************************************)
\* What is replayed, but for the nonce.
Same(s, p) ==
  /\ p.balance = s.balance /\ p.kv = s.kv /\ p.codes = s.codes
  /\ \A c \in Contract : p.contracts[c].Balance = s.contracts[c].Balance
  /\ p.intents = s.intents /\ p.collections = s.collections /\ p.records = s.records

\* The store becomes that of the execution.
LEMMA StoreApplied ==
  ASSUME NEW s \in HostState, NEW t \in HostState, NEW c \in Contract
  PROVE  appliedKV(s.kv[c], diffWasmState(s, t, c)) = t.kv[c]
<1> DEFINE d == diffWasmState(s, t, c)
           old == s.kv[c]
           new == t.kv[c]
<1>1. old \in [Key -> Val \cup {None}] /\ new \in [Key -> Val \cup {None}]
  BY DEF HostState
<1>2. /\ d.KVUpserts = {<<k, new[k]>> : k \in {x \in Changed(old, new) : new[x] # None}}
      /\ d.KVDeletes = {k \in Key : old[k] # None /\ new[k] = None}
  BY DEF diffWasmState
<1> HIDE DEF d, old, new
<1>3. ASSUME NEW k \in Key, NEW v
      PROVE  <<k, v>> \in d.KVUpserts <=> old[k] # new[k] /\ new[k] # None /\ v = new[k]
  BY <1>1, <1>2 DEF Changed
<1>4. ASSUME NEW k \in Key
      PROVE  (IF k \in d.KVDeletes THEN None
              ELSE IF \E v \in Val : <<k, v>> \in d.KVUpserts
                   THEN CHOOSE v \in Val : <<k, v>> \in d.KVUpserts ELSE old[k]) = new[k]
  <2>1. CASE old[k] # new[k] /\ new[k] # None
    <3>1. new[k] \in Val /\ k \notin d.KVDeletes
      BY <1>1, <1>2, <2>1
    <3>2. \A v \in Val : <<k, v>> \in d.KVUpserts <=> v = new[k]
      BY <1>3, <2>1
    <3>3. \E v \in Val : <<k, v>> \in d.KVUpserts
      BY <3>1, <3>2
    <3>4. (CHOOSE v \in Val : <<k, v>> \in d.KVUpserts) = new[k]
      BY <3>2, <3>3
    <3> QED
      BY <3>1, <3>3, <3>4
  <2>2. CASE ~(old[k] # new[k] /\ new[k] # None)
    <3>1. \A v \in Val : <<k, v>> \notin d.KVUpserts
      BY <1>3, <2>2
    <3> QED
      BY <1>2, <2>2, <3>1
  <2> QED
    BY <2>1, <2>2
<1>5. appliedKV(old, d) = [k \in Key |-> new[k]]
  BY <1>4 DEF appliedKV
<1> QED
  BY <1>1, <1>5 DEF d, old, new

\* So do the accounts.
LEMMA AccountsApplied ==
  ASSUME NEW s \in HostState, NEW t \in HostState, NEW c, NEW d, d = diffWasmState(s, t, c)
  PROVE  [a \in Account |-> IF a \in DOMAIN d.AccountDeltas
                            THEN NotBelowZero(s.balance[a] + d.AccountDeltas[a]) ELSE s.balance[a]]
           = t.balance
<1>1. s.balance \in [Account -> Nat] /\ t.balance \in [Account -> Nat]
  BY DEF HostState
<1>2. d.AccountDeltas = [a \in Changed(s.balance, t.balance) |-> t.balance[a] - s.balance[a]]
  BY DEF diffWasmState
<1>3. Changed(s.balance, t.balance) = {a \in Account : s.balance[a] # t.balance[a]}
  BY <1>1 DEF Changed
<1>4. ASSUME NEW a \in Account
      PROVE  (IF a \in DOMAIN d.AccountDeltas
              THEN NotBelowZero(s.balance[a] + d.AccountDeltas[a]) ELSE s.balance[a]) = t.balance[a]
  <2>1. s.balance[a] \in Nat /\ t.balance[a] \in Nat
    BY <1>1
  <2>2. CASE s.balance[a] # t.balance[a]
    <3>1. a \in DOMAIN d.AccountDeltas /\ d.AccountDeltas[a] = t.balance[a] - s.balance[a]
      BY <1>2, <1>3, <2>2
    <3> QED
      BY <2>1, <3>1 DEF NotBelowZero
  <2>3. CASE s.balance[a] = t.balance[a]
    BY <1>2, <1>3, <2>3
  <2> QED
    BY <2>2, <2>3
<1> QED
  BY <1>1, <1>4

\* The events an execution emitted follow those of the replica.
LEMMA EventsApplied ==
  ASSUME NEW old \in Seq(WasmPendingEvent), NEW new \in Seq(WasmPendingEvent), NEW c,
         Appended(old, new, c), NEW mine \in Seq(WasmPendingEvent)
  PROVE  LET list == mine \o SubSeq(new, Len(old) + 1, Len(new))
         IN  list \in Seq(WasmPendingEvent) /\ Appended(mine, list, c)
<1> DEFINE l == Len(old)
           n == Len(new)
           tail == SubSeq(new, l + 1, n)
           list == mine \o tail
<1>1. l \in Nat /\ n \in Nat /\ l <= n /\ Len(mine) \in Nat
  BY DEF Appended
<1> HIDE DEF l, n
<1>2. /\ tail \in Seq(WasmPendingEvent) /\ Len(tail) = n - l
      /\ \A k \in 1..(n - l) : tail[k] = new[l + k]
  <2>1. \A k \in (l + 1)..n : new[k] \in WasmPendingEvent
    BY <1>1 DEF n
  <2>2. l + 1 \in Int /\ n \in Int /\ n - (l + 1) + 1 = n - l
    BY <1>1
  <2>3. tail = [k \in 1..(n - l) |-> new[l + k]]
    <3>1. \A k \in 1..(n - l) : l + 1 + k - 1 = l + k
      BY <1>1
    <3> QED
      BY <1>1, <2>2, <3>1 DEF n
  <2> HIDE DEF tail
  <2>4. \A k \in 1..(n - l) : new[l + k] \in WasmPendingEvent
    BY <1>1, <2>1
  <2>5. n - l \in Nat
    BY <1>1
  <2> QED
    BY <2>3, <2>4, <2>5
<1> HIDE DEF tail
<1>3. list \in Seq(WasmPendingEvent) /\ Len(list) = Len(mine) + Len(tail)
  <2>1. mine \in Seq(WasmPendingEvent) /\ tail \in Seq(WasmPendingEvent)
    BY <1>2
  <2> QED
    BY <2>1
<1>4. \A k \in 1..Len(mine) : list[k] = mine[k]
  BY <1>2
<1>5. ASSUME NEW k \in (Len(mine) + 1)..Len(list) PROVE list[k].EmitterAddress = c
  <2>1. k - Len(mine) \in 1..(n - l) /\ l + (k - Len(mine)) \in (l + 1)..n
    BY <1>1, <1>2, <1>3
  <2>2. list[k] = tail[k - Len(mine)]
    BY <1>1, <1>2, <1>3, <2>1
  <2>3. list[k] = new[l + (k - Len(mine))]
    BY <1>2, <2>1, <2>2
  <2> QED
    BY <2>1, <2>3 DEF Appended, l, n
<1>6. Len(mine) <= Len(list)
  BY <1>1, <1>2, <1>3
<1>7. Appended(mine, list, c)
  BY <1>4, <1>5, <1>6 DEF Appended
<1> QED
  BY <1>3, <1>7 DEF tail, l, n

\* Escrows keep their names.
LEMMA EscrowsApplied ==
  ASSUME NEW s \in HostState, NEW t \in HostState, NEW c, NEW d, d = diffWasmState(s, t, c),
         NEW E \in SUBSET [ID: Nat, User: Contract, LockedFee: Nat, Status: {"none", "terminated"}],
         IsFiniteSet(E), Unique(E), NEW T, T = {appliedEscrow(e, d) : e \in E}
  PROVE  /\ T \in SUBSET [ID: Nat, User: Contract, LockedFee: Nat, Status: {"none", "terminated"}]
         /\ IsFiniteSet(T) /\ Unique(T) /\ Names(T) = Names(E)
<1> DEFINE Escrows == [ID: Nat, User: Contract, LockedFee: Nat, Status: {"none", "terminated"}]
<1>1. \A x \in d.EscrowDeltas : x.fee \in Int /\ (x.Status # None => x.Status \in {"none", "terminated"})
  <2>1. d.EscrowDeltas = {[ID |-> p[1].ID, fee |-> p[1].LockedFee - p[2].LockedFee,
                      Status |-> IF p[1].Status = p[2].Status THEN None ELSE p[1].Status] :
                       p \in {q \in t.escrows \X s.escrows : q[1].ID = q[2].ID /\ q[1] # q[2]}}
    BY DEF diffWasmState
  <2>2. \A y \in t.escrows : y.LockedFee \in Nat /\ y.Status \in {"none", "terminated"}
    BY DEF HostState
  <2>3. \A y \in s.escrows : y.LockedFee \in Nat
    BY DEF HostState
  <2> SUFFICES ASSUME NEW y \in t.escrows, NEW z \in s.escrows
               PROVE  /\ y.LockedFee - z.LockedFee \in Int
                      /\ LET m == IF y.Status = z.Status THEN None ELSE y.Status
                         IN  m # None => m \in {"none", "terminated"}
    BY <2>1
  <2> QED
    BY <2>2, <2>3
<1>2. ASSUME NEW e \in E
      PROVE  appliedEscrow(e, d) \in Escrows /\ appliedEscrow(e, d).ID = e.ID
  <2>1. e \in Escrows
    OBVIOUS
  <2>2. CASE \E x \in d.EscrowDeltas : x.ID = e.ID
    <3> DEFINE x == CHOOSE x \in d.EscrowDeltas : x.ID = e.ID
               fee == NotBelowZero(e.LockedFee + x.fee)
               status == IF x.Status = None THEN e.Status ELSE x.Status
    <3>1. x \in d.EscrowDeltas
      BY <2>2
    <3>2. appliedEscrow(e, d) = [e EXCEPT !.LockedFee = fee, !.Status = status]
      BY <2>1, <2>2 DEF appliedEscrow
    <3> HIDE DEF x
    <3>3. fee \in Nat /\ status \in {"none", "terminated"}
      BY <1>1, <2>1, <3>1 DEF NotBelowZero
    <3> HIDE DEF fee, status
    <3> QED
      BY <2>1, <3>2, <3>3
  <2>3. CASE ~ \E x \in d.EscrowDeltas : x.ID = e.ID
    BY <2>1, <2>3 DEF appliedEscrow
  <2> QED
    BY <2>2, <2>3
<1>3. IsFiniteSet(T)
  <2> DEFINE f == [e \in E |-> appliedEscrow(e, d)]
  <2>1. f \in Surjection(E, T)
    BY DEF Surjection
  <2> HIDE DEF f
  <2> QED
    BY <2>1, FS_Surjection
<1>4. Unique(T)
  BY <1>2 DEF Unique
<1>5. Names(T) = Names(E)
  BY <1>2 DEF Names
<1> QED
  BY <1>2, <1>3, <1>4, <1>5

\* A sum over things of distinct names is one over their names.
LEMMA SumByName ==
  ASSUME NEW S, IsFiniteSet(S), Unique(S), NEW f, NEW g,
         \A x \in S : f[x] \in Int /\ g[x.ID] = f[x]
  PROVE  IsFiniteSet(Names(S)) /\ SumFunctionOnSet(f, S) = SumFunctionOnSet(g, Names(S))
<1> DEFINE Good(R) == IsFiniteSet(Names(R)) /\ SumFunctionOnSet(f, R) = SumFunctionOnSet(g, Names(R))
           T == {R \in SUBSET S : Good(R)}
<1>1. {} \in T
  <2>1. Names({}) = {}
    BY DEF Names
  <2>2. IsFiniteSet({})
    BY FS_EmptySet
  <2> QED
    BY <2>1, <2>2, SumEmpty
<1>2. ASSUME NEW R \in T, NEW x \in S \ R PROVE R \cup {x} \in T
  <2> DEFINE Q == R \cup {x}
             M == Names(R)
             K == Names(Q)
  <2>1. R \in SUBSET S /\ IsFiniteSet(R) /\ IsFiniteSet(Q) /\ IsFiniteSet(M)
        /\ SumFunctionOnSet(f, R) = SumFunctionOnSet(g, M)
    <3>1. R \in SUBSET S /\ Good(R)
      OBVIOUS
    <3>2. IsFiniteSet(R)
      BY <3>1, FS_Subset
    <3> QED
      BY <3>1, <3>2, FS_AddElement
  <2>2. K = M \cup {x.ID} /\ x.ID \notin M
    BY <2>1 DEF Names, Unique
  <2>3. IsFiniteSet(K) /\ K \ {x.ID} = M /\ x.ID \in K
    <3> HIDE DEF K, M, Q, T
    <3>1. IsFiniteSet(K)
      BY <2>1, <2>2, FS_AddElement
    <3> QED
      BY <2>2, <3>1
  <2>4. Q \ {x} = R /\ x \in Q
    OBVIOUS
  <2>5. \A y \in Q : f[y] \in Int
    BY <2>1
  <2>6. \A n \in K : g[n] \in Int
    <3> SUFFICES ASSUME NEW y \in Q PROVE g[y.ID] \in Int
      BY DEF Names
    <3>1. y \in S
      BY <2>1
    <3> QED
      BY <3>1
  <2> HIDE DEF Q, K, M, T
  <2>7. SumFunctionOnSet(f, Q) = f[x] + SumFunctionOnSet(f, Q \ {x})
    BY <2>1, <2>4, <2>5, SumSplit
  <2>8. SumFunctionOnSet(g, K) = g[x.ID] + SumFunctionOnSet(g, K \ {x.ID})
    BY <2>3, <2>6, SumSplit
  <2>9. SumFunctionOnSet(f, Q) = SumFunctionOnSet(g, K)
    BY <2>1, <2>3, <2>4, <2>7, <2>8
  <2>10. Q \in SUBSET S
    BY <2>1 DEF Q
  <2> QED
    BY <2>3, <2>9, <2>10 DEF Q, K, T
<1> HIDE DEF T
<1>3. T = SUBSET S
  <2>1. T \in SUBSET SUBSET S
    BY DEF T
  <2> QED
    BY <1>1, <1>2, <2>1, FiniteInduction
<1>4. S \in T
  BY <1>3
<1> QED
  BY <1>4 DEF T

\* What an execution is charged for its escrows is what they grew by.
LEMMA EscrowedMeans ==
  ASSUME NEW s, Orderly(s), NEW t, NEW c \in Contract, Effect(s, t, c)
  PROVE  EscrowedBy(diffWasmState(s, t, c)) = Fees(t.escrows) - Fees(s.escrows)
<1> DEFINE A == s.escrows
           B == t.escrows
           N == Names(A)
           D == diffWasmState(s, t, c).EscrowDeltas
           a(n) == CHOOSE x \in A : x.ID = n
           b(n) == CHOOSE x \in B : x.ID = n
           M == {n \in N : a(n) # b(n)}
           delta(n) == [ID |-> n, fee |-> b(n).LockedFee - a(n).LockedFee,
                        Status |-> IF b(n).Status = a(n).Status THEN None ELSE b(n).Status]
           gA == [n \in N |-> a(n).LockedFee]
           gB == [n \in N |-> b(n).LockedFee]
           gD == [n \in N |-> b(n).LockedFee - a(n).LockedFee]
           fA == [x \in A |-> x.LockedFee]
           fB == [x \in B |-> x.LockedFee]
           fD == [x \in D |-> x.fee]
<1>1. /\ IsFiniteSet(A) /\ IsFiniteSet(B) /\ Unique(A) /\ Unique(B) /\ Names(B) = N
      /\ \A x \in A : x.LockedFee \in Int
      /\ \A x \in B : x.LockedFee \in Int
  BY DEF Effect, Orderly, HostState
<1>2. D = {[ID |-> p[1].ID, fee |-> p[1].LockedFee - p[2].LockedFee,
            Status |-> IF p[1].Status = p[2].Status THEN None ELSE p[1].Status] :
             p \in {q \in B \X A : q[1].ID = q[2].ID /\ q[1] # q[2]}}
  BY DEF diffWasmState
<1> HIDE DEF A, B, D
<1>3. \A n \in N : a(n) \in A /\ a(n).ID = n /\ b(n) \in B /\ b(n).ID = n
  <2> SUFFICES ASSUME NEW n \in N PROVE a(n) \in A /\ a(n).ID = n /\ b(n) \in B /\ b(n).ID = n
    OBVIOUS
  <2>1. \E x \in A : x.ID = n
    BY DEF Names
  <2>2. \E x \in B : x.ID = n
    BY <1>1 DEF Names
  <2> QED
    BY <2>1, <2>2
<1>4. /\ \A x \in A : x.ID \in N /\ a(x.ID) = x
      /\ \A x \in B : x.ID \in N /\ b(x.ID) = x
  <2>1. \A x \in A : x.ID \in N
    BY DEF Names
  <2>2. \A x \in B : x.ID \in N
    BY <1>1 DEF Names
  <2> QED
    BY <1>1, <1>3, <2>1, <2>2 DEF Unique
<1> HIDE DEF a, b, N
<1>5. D = {delta(n) : n \in M}
  <2>1. ASSUME NEW n \in M PROVE delta(n) \in D
    <3> DEFINE p == <<b(n), a(n)>>
    <3>1. p \in B \X A /\ p[1].ID = p[2].ID /\ p[1] # p[2] /\ p[1] = b(n) /\ p[2] = a(n) /\ p[1].ID = n
      BY <1>3
    <3> HIDE DEF p
    <3> QED
      BY <1>2, <3>1
  <2>2. ASSUME NEW x \in D PROVE \E n \in M : x = delta(n)
    <3>1. PICK p \in B \X A : /\ p[1].ID = p[2].ID /\ p[1] # p[2]
                              /\ x = [ID |-> p[1].ID, fee |-> p[1].LockedFee - p[2].LockedFee,
                                      Status |-> IF p[1].Status = p[2].Status THEN None ELSE p[1].Status]
      BY <1>2
    <3>2. p[1] \in B /\ p[2] \in A
      OBVIOUS
    <3>3. p[1].ID \in N /\ b(p[1].ID) = p[1] /\ a(p[1].ID) = p[2]
      BY <1>4, <3>1, <3>2
    <3>4. p[1].ID \in M
      BY <3>1, <3>3
    <3> QED
      BY <3>1, <3>3, <3>4
  <2> HIDE DEF delta, M
  <2> QED
    BY <2>1, <2>2
<1>6. \A n \in M : n \in N /\ delta(n).ID = n /\ delta(n).fee = gD[n]
  OBVIOUS
<1>7. \A n \in N : gA[n] \in Int /\ gB[n] \in Int /\ gD[n] \in Int /\ gB[n] = gA[n] + gD[n]
  BY <1>1, <1>3
<1>8. /\ \A x \in A : fA[x] \in Int /\ gA[x.ID] = fA[x]
      /\ \A x \in B : fB[x] \in Int /\ gB[x.ID] = fB[x]
  BY <1>1, <1>4
<1>9. \A n \in N \ M : gD[n] = 0
  <2> SUFFICES ASSUME NEW n \in N, a(n) = b(n) PROVE gD[n] = 0
    OBVIOUS
  <2> QED
    BY <1>1, <1>3
<1> HIDE DEF gA, gB, gD, fA, fB, delta
<1>10. M \subseteq N
  OBVIOUS
<1> HIDE DEF M
<1>11. IsFiniteSet(N) /\ SumFunctionOnSet(fA, A) = SumFunctionOnSet(gA, N)
  BY <1>1, <1>8, SumByName DEF N
<1>12. SumFunctionOnSet(fB, B) = SumFunctionOnSet(gB, N)
  BY <1>1, <1>8, SumByName
<1>13. IsFiniteSet(D)
  <2> DEFINE f == [n \in M |-> delta(n)]
  <2>1. f \in Surjection(M, D)
    BY <1>5 DEF Surjection
  <2>2. IsFiniteSet(M)
    BY <1>10, <1>11, FS_Subset
  <2> HIDE DEF f
  <2> QED
    BY <2>1, <2>2, FS_Surjection
<1>14. Unique(D) /\ Names(D) = M
  BY <1>5, <1>6 DEF Unique, Names
<1>15. \A x \in D : fD[x] \in Int /\ gD[x.ID] = fD[x]
  BY <1>5, <1>6, <1>7
<1> HIDE DEF fD
<1>16. SumFunctionOnSet(fD, D) = SumFunctionOnSet(gD, M)
  BY <1>13, <1>14, <1>15, SumByName
<1>17. SumFunctionOnSet(gD, N) = SumFunctionOnSet(gD, M)
  <2> DEFINE R == N \ M
  <2>1. IsFiniteSet(M) /\ IsFiniteSet(R) /\ M \cap R = {} /\ M \cup R = N
    BY <1>10, <1>11, FS_Subset
  <2>2. SumFunctionOnSet(gD, R) = 0
    BY <1>9, <2>1, SumZero
  <2>3. \A n \in M \cup R : gD[n] \in Int
    BY <1>7, <2>1
  <2> HIDE DEF R
  <2>4. SumFunctionOnSet(gD, M \cup R) = SumFunctionOnSet(gD, M) + SumFunctionOnSet(gD, R)
    BY <2>1, <2>3, SumUnion
  <2>5. SumFunctionOnSet(gD, M) \in Int
    BY <2>1, <2>3, SumInt
  <2>6. SumFunctionOnSet(gD, N) = SumFunctionOnSet(gD, M) + 0
    BY <2>1, <2>2, <2>4
  <2> DEFINE u == SumFunctionOnSet(gD, M)
             v == SumFunctionOnSet(gD, N)
  <2>7. v = u + 0 /\ u \in Int
    BY <2>5, <2>6
  <2> HIDE DEF u, v
  <2>8. v = u
    BY <2>7
  <2> QED
    BY <2>8 DEF u, v
<1>18. SumFunctionOnSet(gB, N) = SumFunctionOnSet(gA, N) + SumFunctionOnSet(gD, N)
  BY <1>7, <1>11, SumAdd
<1>19. SumFunctionOnSet(gA, N) \in Int /\ SumFunctionOnSet(gD, N) \in Int
  BY <1>7, <1>11, SumInt
<1>20. SumFunctionOnSet(fD, D) = SumFunctionOnSet(fB, B) - SumFunctionOnSet(fA, A)
  BY <1>11, <1>12, <1>16, <1>17, <1>18, <1>19
<1> QED
  BY <1>20 DEF EscrowedBy, Fees, fA, fB, fD, A, B, D

\* The replica of an execution: what q is, from p and the execution of s to t.
Replayed(s, t, c, p, q) ==
  /\ q \in HostState /\ Same(t, q) /\ q.codes = p.codes /\ q.nonce = p.nonce + (t.nonce - s.nonce)
  /\ IsFiniteSet(q.escrows) /\ Unique(q.escrows) /\ Names(q.escrows) = Names(p.escrows)
  /\ OthersKept(p, q, c) /\ SameIdentity(p, q, c) /\ Appended(p.pending, q.pending, c)

LEMMA Applied ==
  ASSUME NEW s, Orderly(s), NEW t, NEW c \in Contract, Effect(s, t, c),
         NEW p, p \in HostState, IsFiniteSet(p.escrows), Unique(p.escrows), Same(s, p)
  PROVE  Replayed(s, t, c, p, applyWasmStateDelta(p, c, diffWasmState(s, t, c)))
<1> DEFINE d == diffWasmState(s, t, c)
           store == appliedKV(p.kv[c], d)
           money == NotBelowZero(p.contracts[c].Balance + d.ContractBalance)
           C == [p.contracts EXCEPT ![c].Balance = money]
           B == [a \in Account |-> IF a \in DOMAIN d.AccountDeltas
                                   THEN NotBelowZero(p.balance[a] + d.AccountDeltas[a]) ELSE p.balance[a]]
           L == p.pending \o d.PendingEvents
           S == [p.subs EXCEPT ![c] = IF d.Subscriptions = None THEN p.subs[c] ELSE d.Subscriptions]
           J == [p.crons EXCEPT ![c] = IF d.CronJobs = None THEN p.crons[c] ELSE d.CronJobs]
           n == p.nonce + d.NonceDelta
           I == p.intents \cup d.NewIntents
           E == {appliedEscrow(e, d) : e \in p.escrows}
           D == p.collections \cup d.NewCollections
           R == p.records \cup d.NewRecords
           K == [p.kv EXCEPT ![c] = store]
           q == applyWasmStateDelta(p, c, d)
<1>1. s \in HostState /\ t \in HostState
  BY DEF Effect, Orderly
<1>2. q = [p EXCEPT !.kv = K, !.contracts = C, !.balance = B, !.pending = L, !.subs = S,
                    !.crons = J, !.nonce = n, !.intents = I, !.escrows = E,
                    !.collections = D, !.records = R]
  BY DEF applyWasmStateDelta, HostState
<1>3. /\ d.ContractBalance = t.contracts[c].Balance - s.contracts[c].Balance
      /\ d.PendingEvents = SubSeq(t.pending, Len(s.pending) + 1, Len(t.pending))
      /\ d.Subscriptions \in {None, t.subs[c]} /\ d.CronJobs \in {None, t.crons[c]}
      /\ d.NonceDelta = t.nonce - s.nonce /\ d.NewIntents = t.intents \ s.intents
      /\ d.NewCollections = t.collections \ s.collections /\ d.NewRecords = t.records \ s.records
  BY DEF diffWasmState
<1>4. store = t.kv[c]
  BY <1>1, StoreApplied DEF Same
<1>5. B = t.balance
  BY <1>1, AccountsApplied DEF Same
<1>6. L \in Seq(WasmPendingEvent) /\ Appended(p.pending, L, c)
  <2>1. /\ s.pending \in Seq(WasmPendingEvent) /\ t.pending \in Seq(WasmPendingEvent)
        /\ p.pending \in Seq(WasmPendingEvent)
    BY <1>1 DEF HostState
  <2>2. Appended(s.pending, t.pending, c)
    BY DEF Effect
  <2> HIDE DEF d
  <2> QED
    BY <1>3, <2>1, <2>2, EventsApplied
<1>7. /\ E \in SUBSET [ID: Nat, User: Contract, LockedFee: Nat, Status: {"none", "terminated"}]
      /\ IsFiniteSet(E) /\ Unique(E) /\ Names(E) = Names(p.escrows)
  <2>1. p.escrows \in SUBSET [ID: Nat, User: Contract, LockedFee: Nat, Status: {"none", "terminated"}]
    BY DEF HostState
  <2>2. d = diffWasmState(s, t, c) /\ E = {appliedEscrow(e, d) : e \in p.escrows}
    OBVIOUS
  <2> HIDE DEF d, E
  <2> QED
    BY <1>1, <2>1, <2>2, EscrowsApplied
<1> HIDE DEF store, L, E, B, q, d
<1>8. K = t.kv
  <2>1. \A x \in Contract \ {c} : t.kv[x] = p.kv[x]
    BY DEF Effect, OthersKept, Same
  <2>2. p.kv \in [Contract -> [Key -> Val \cup {None}]] /\ t.kv \in [Contract -> [Key -> Val \cup {None}]]
    BY <1>1 DEF HostState
  <2> QED
    BY <1>4, <2>1, <2>2
<1>9. money \in Nat /\ money = t.contracts[c].Balance
  <2>1. p.contracts[c].Balance = s.contracts[c].Balance
    BY DEF Same
  <2>2. s.contracts[c].Balance \in Nat /\ t.contracts[c].Balance \in Nat
    BY <1>1 DEF HostState, WasmContract
  <2> QED
    BY <1>3, <2>1, <2>2 DEF NotBelowZero
<1> HIDE DEF money, K
<1>10. p.contracts \in [Contract -> WasmContract]
  BY DEF HostState
<1>11. /\ C \in [Contract -> WasmContract]
       /\ C[c] = [p.contracts[c] EXCEPT !.Balance = money]
       /\ \A x \in Contract \ {c} : C[x] = p.contracts[x]
  <2>1. [p.contracts[c] EXCEPT !.Balance = money] \in WasmContract
    BY <1>9, <1>10 DEF WasmContract
  <2> QED
    BY <1>10, <2>1
<1> HIDE DEF C
<1>12. /\ S \in [Contract -> SUBSET Contract] /\ \A x \in Contract \ {c} : S[x] = p.subs[x]
  <2>1. p.subs \in [Contract -> SUBSET Contract] /\ t.subs \in [Contract -> SUBSET Contract]
    BY <1>1 DEF HostState
  <2> QED
    BY <1>3, <2>1
<1>13. /\ J \in [Contract -> Seq(WasmCronJob)] /\ \A x \in Contract \ {c} : J[x] = p.crons[x]
  <2>1. p.crons \in [Contract -> Seq(WasmCronJob)] /\ t.crons \in [Contract -> Seq(WasmCronJob)]
    BY <1>1 DEF HostState
  <2> QED
    BY <1>3, <2>1
<1> HIDE DEF S, J
<1>14. n \in Nat /\ n = p.nonce + (t.nonce - s.nonce)
  BY <1>1, <1>3 DEF HostState, Effect
<1>15. I = t.intents /\ D = t.collections /\ R = t.records
  BY <1>3 DEF Same, Effect
<1> HIDE DEF n, I, D, R
<1>16. /\ t.kv \in [Contract -> [Key -> Val \cup {None}]] /\ t.balance \in [Account -> Nat]
       /\ t.intents \in SUBSET [ID: Nat, User: Contract, LockedFee: Nat]
       /\ t.collections \in SUBSET [ID: Nat, User: Contract]
       /\ t.records \in SUBSET [ID: Nat, Collection: Nat]
  BY <1>1 DEF HostState
<1>17. q \in HostState
  <2>1. q = [balance |-> B, contracts |-> C, codes |-> p.codes, kv |-> K, crons |-> J, subs |-> S,
             pending |-> L, nonce |-> n, intents |-> I, escrows |-> E, collections |-> D, records |-> R]
    BY <1>2 DEF HostState
  <2>2. p.codes \in [Code -> Nat]
    BY DEF HostState
  <2>3. /\ B \in [Account -> Nat] /\ K \in [Contract -> [Key -> Val \cup {None}]]
        /\ I \in SUBSET [ID: Nat, User: Contract, LockedFee: Nat]
        /\ D \in SUBSET [ID: Nat, User: Contract] /\ R \in SUBSET [ID: Nat, Collection: Nat]
    BY <1>5, <1>8, <1>15, <1>16
  <2> QED
    BY <1>6, <1>7, <1>11, <1>12, <1>13, <1>14, <2>1, <2>2, <2>3 DEF HostState
<1>18. /\ q.kv = K /\ q.contracts = C /\ q.balance = B /\ q.pending = L /\ q.subs = S
       /\ q.crons = J /\ q.nonce = n /\ q.intents = I /\ q.escrows = E
       /\ q.collections = D /\ q.records = R /\ q.codes = p.codes
  BY <1>2 DEF HostState
<1>19. \A x \in Contract : C[x].Balance = t.contracts[x].Balance
  <2>1. C[c].Balance = money
    BY <1>9, <1>10, <1>11 DEF WasmContract
  <2>2. \A x \in Contract \ {c} : t.contracts[x] = s.contracts[x] /\ p.contracts[x].Balance = s.contracts[x].Balance
    BY DEF Effect, OthersKept, Same
  <2> QED
    BY <1>9, <1>11, <2>1, <2>2
<1>20. Same(t, q)
  <2>1. q.codes = t.codes
    BY <1>18 DEF Effect, Same
  <2> QED
    BY <1>5, <1>8, <1>15, <1>18, <1>19, <2>1 DEF Same
<1>21. OthersKept(p, q, c)
  <2>1. \A x \in Contract \ {c} : K[x] = p.kv[x]
    BY DEF K, HostState
  <2> QED
    BY <1>11, <1>12, <1>13, <1>18, <2>1 DEF OthersKept
<1>22. SameIdentity(p, q, c)
  BY <1>9, <1>10, <1>11, <1>18 DEF SameIdentity, WasmContract
<1>23. Replayed(s, t, c, p, q)
  BY <1>6, <1>7, <1>14, <1>17, <1>18, <1>20, <1>21, <1>22 DEF Replayed
<1> QED
  BY <1>23 DEF q, d

-----------------------------------------------------------------------------
(***************************************************************************)
(* A node's state                                                          *)
(***************************************************************************)
Live == {"active", "init_failed"}

\* What no contract has yet, and what every contract had.
Fresh(s) ==
  \A c \in Contract :
    /\ c[2] >= s.nonce => s.contracts[c].Status = "none"
    /\ s.contracts[c].Status = "none" => s.contracts[c].Balance = 0 /\ s.contracts[c].CodeHash = None
    /\ s.contracts[c].Status # "none" => s.contracts[c].CodeHash \in Code

Running(s, h) == {c \in Contract : s.contracts[c].CodeHash = h /\ s.contracts[c].Status # "destroyed"}

Counted(s) == \A h \in Code : s.codes[h] = Cardinality(Running(s, h))

Lively(list, s) ==
  \A k \in 1..Len(list) : s.contracts[list[k].EmitterAddress].Status # "destroyed"

Clean(s) ==
  \A c \in Contract :
    s.contracts[c].Status = "destroyed" =>
      /\ s.crons[c] = <<>> /\ s.kv[c] = NoKeys /\ s.subs[c] = {} /\ s.contracts[c].Balance = 0

HostSound(s) ==
  /\ Orderly(s) /\ s.nonce <= MaxWasmNonce
  /\ Fresh(s) /\ Counted(s) /\ Clean(s) /\ Lively(s.pending, s)

\* A contract that lives goes on to live, and leaves the others alone.
Stays(s, t, c) ==
  /\ OthersKept(s, t, c) /\ t.contracts[c].CodeHash = s.contracts[c].CodeHash
  /\ s.contracts[c].Status \in Live /\ t.contracts[c].Status \in Live
  /\ t.codes = s.codes /\ s.nonce <= t.nonce /\ Appended(s.pending, t.pending, c)

LEMMA SoundStays ==
  ASSUME NEW s, HostSound(s), NEW t, Orderly(t), t.nonce <= MaxWasmNonce,
         NEW c \in Contract, Stays(s, t, c)
  PROVE  HostSound(t)
<1>1. /\ s.nonce \in Nat /\ t.nonce \in Nat /\ s.nonce <= t.nonce
      /\ s.pending \in Seq(WasmPendingEvent) /\ t.pending \in Seq(WasmPendingEvent)
  BY DEF HostSound, Orderly, HostState, Stays
<1>2. Fresh(t)
  <2>1. Fresh(s) /\ \A d \in Contract \ {c} : t.contracts[d] = s.contracts[d]
    BY DEF HostSound, Stays, OthersKept
  <2>2. /\ s.contracts[c].Status # "none" /\ t.contracts[c].Status # "none"
        /\ t.contracts[c].CodeHash = s.contracts[c].CodeHash
    BY DEF Stays, Live
  <2>3. \A d \in Contract : d[2] \in Nat
    BY DEF Contract, generateContractAddress
  <2>4. ASSUME NEW d \in Contract, d[2] >= t.nonce PROVE t.contracts[d].Status = "none"
    <3>1. d[2] >= s.nonce
      BY <1>1, <2>3, <2>4
    <3>2. s.contracts[d].Status = "none"
      BY <2>1, <3>1 DEF Fresh
    <3> QED
      BY <2>1, <2>2, <3>2
  <2>5. ASSUME NEW d \in Contract
        PROVE  /\ t.contracts[d].Status = "none" => t.contracts[d].Balance = 0 /\ t.contracts[d].CodeHash = None
               /\ t.contracts[d].Status # "none" => t.contracts[d].CodeHash \in Code
    <3>1. CASE d = c
      BY <2>1, <2>2, <3>1 DEF Fresh
    <3>2. CASE d # c
      BY <2>1, <3>2 DEF Fresh
    <3> QED
      BY <3>1, <3>2
  <2> QED
    BY <2>4, <2>5 DEF Fresh
<1>3. Counted(t)
  <2> SUFFICES ASSUME NEW h \in Code PROVE t.codes[h] = Cardinality(Running(t, h))
    BY DEF Counted
  <2>1. Running(t, h) = Running(s, h)
    BY DEF Running, Stays, OthersKept, Live
  <2> QED
    BY <2>1 DEF Stays, HostSound, Counted
<1>4. Clean(t)
  BY DEF Clean, HostSound, Stays, OthersKept, Live
<1>5. Lively(t.pending, t)
  <2> SUFFICES ASSUME NEW k \in 1..Len(t.pending)
               PROVE  t.contracts[t.pending[k].EmitterAddress].Status # "destroyed"
    BY DEF Lively
  <2>1. Appended(s.pending, t.pending, c) /\ Lively(s.pending, s)
    BY DEF Stays, HostSound
  <2>2. \A d \in Contract : s.contracts[d].Status # "destroyed" => t.contracts[d].Status # "destroyed"
    BY DEF Stays, OthersKept, Live
  <2>3. t.pending[k].EmitterAddress \in Contract
    <3>1. t.pending[k] \in WasmPendingEvent
      BY <1>1
    <3> QED
      BY <3>1 DEF WasmPendingEvent
  <2>4. CASE k <= Len(s.pending)
    <3>1. k \in 1..Len(s.pending)
      BY <1>1, <2>4
    <3>2. t.pending[k] = s.pending[k]
      BY <2>1, <3>1 DEF Appended
    <3>3. s.contracts[s.pending[k].EmitterAddress].Status # "destroyed"
      BY <2>1, <3>1 DEF Lively
    <3> QED
      BY <2>2, <2>3, <3>2, <3>3
  <2>5. CASE ~(k <= Len(s.pending))
    <3>1. k \in (Len(s.pending) + 1)..Len(t.pending)
      BY <1>1, <2>5
    <3>2. t.pending[k].EmitterAddress = c
      BY <2>1, <3>1 DEF Appended
    <3> QED
      BY <3>2 DEF Stays, Live
  <2> QED
    BY <2>4, <2>5
<1> QED
  BY <1>2, <1>3, <1>4, <1>5 DEF HostSound

LEMMA EffectStays ==
  ASSUME NEW s, NEW t, NEW c \in Contract, Effect(s, t, c), s.contracts[c].Status \in Live
  PROVE  Stays(s, t, c) /\ Orderly(t)
BY DEF Effect, Stays, SameIdentity

\* What two nodes agree about.
Ident(s, p) ==
  \A c \in Contract :
    /\ p.contracts[c].CodeHash = s.contracts[c].CodeHash
    /\ p.contracts[c].Status = "destroyed" <=> s.contracts[c].Status = "destroyed"

Agreed(s, p) == Same(s, p) /\ p.nonce = s.nonce /\ Ident(s, p)

LEMMA IdentStays ==
  ASSUME NEW s, NEW p, Ident(s, p), NEW c \in Contract, NEW t, Stays(s, t, c), NEW q, Stays(p, q, c)
  PROVE  Ident(t, q)
BY DEF Ident, Stays, OthersKept, Live

LEMMA StaysThen ==
  ASSUME NEW s, NEW t, NEW u, NEW c \in Contract, Stays(s, t, c), Stays(t, u, c)
  PROVE  OthersKept(s, u, c) /\ u.contracts[c].CodeHash = s.contracts[c].CodeHash
BY DEF Stays, OthersKept

\* A contract one node runs lives on the other.
LEMMA LivesOnBoth ==
  ASSUME NEW s, HostSound(s), NEW p, HostSound(p), Ident(s, p), NEW c \in Contract,
         s.contracts[c].Status \in Live
  PROVE  p.contracts[c].Status \in Live
<1>1. s.contracts[c].Status # "none" /\ s.contracts[c].Status # "destroyed"
  BY DEF Live
<1>2. s.contracts[c].CodeHash \in Code
  BY <1>1 DEF HostSound, Fresh
<1>3. p.contracts[c].CodeHash \in Code /\ p.contracts[c].Status # "destroyed"
  BY <1>1, <1>2 DEF Ident
<1>4. p.contracts[c].Status # "none"
  BY <1>3, WasmHostAssumption DEF HostSound, Fresh
<1>5. p.contracts[c].Status \in {"none", "active", "init_failed", "destroyed"}
  BY DEF HostSound, Orderly, HostState, WasmContract
<1> QED
  BY <1>3, <1>4, <1>5 DEF Live

\* The replica of an execution is as sound as the execution.
LEMMA ReplayedSound ==
  ASSUME NEW s, Orderly(s), NEW t, NEW c \in Contract, Effect(s, t, c), t.nonce <= MaxWasmNonce,
         NEW p, HostSound(p), p.contracts[c].Status \in Live, p.nonce = s.nonce,
         NEW q, Replayed(s, t, c, p, q)
  PROVE  HostSound(q) /\ q.nonce = t.nonce /\ Stays(p, q, c)
<1>1. s.nonce \in Nat /\ t.nonce \in Nat /\ p.nonce \in Nat /\ s.nonce <= t.nonce
  BY DEF Effect, HostSound, Orderly, HostState
<1>2. q.nonce = t.nonce
  BY <1>1 DEF Replayed
<1>3. Orderly(q)
  <2>1. Orderly(t) /\ Same(t, q)
    BY DEF Effect, Replayed
  <2>2. q.intents = t.intents /\ q.collections = t.collections /\ q.records = t.records
    BY <2>1 DEF Same
  <2>3. q \in HostState /\ IsFiniteSet(q.escrows) /\ Unique(q.escrows) /\ Names(q.escrows) = Names(p.escrows)
    BY DEF Replayed
  <2>4. \A x \in q.escrows : x.ID < q.nonce
    <3> SUFFICES ASSUME NEW x \in q.escrows PROVE x.ID < q.nonce
      OBVIOUS
    <3>1. x.ID \in Names(p.escrows)
      BY <2>3 DEF Names
    <3>2. PICK y \in p.escrows : y.ID = x.ID
      BY <3>1 DEF Names
    <3>3. y.ID < p.nonce /\ y.ID \in Nat
      BY DEF HostSound, Orderly, HostState
    <3> QED
      BY <1>1, <1>2, <3>2, <3>3
  <2> QED
    BY <1>2, <2>1, <2>2, <2>3, <2>4 DEF Orderly
<1>4. Stays(p, q, c)
  BY <1>1, <1>2 DEF Replayed, Stays, SameIdentity
<1> QED
  BY <1>2, <1>3, <1>4, SoundStays

-----------------------------------------------------------------------------
(* The tokens of a node's state. *)
Total(s) == SumFunctionOnSet(s.balance, Account) + Balances(s) + Fees(s.intents)

LEMMA EffectTotal ==
  ASSUME NEW s, Orderly(s), NEW t, NEW c \in Contract, Effect(s, t, c)
  PROVE  LET d == diffWasmState(s, t, c)
         IN  EscrowedBy(d) \in Int /\ Total(s) \in Int /\ Total(t) = Total(s) - EscrowedBy(d)
<1> DEFINE e == EscrowedBy(diffWasmState(s, t, c))
<1>1. e = Fees(t.escrows) - Fees(s.escrows)
  BY EscrowedMeans
<1>2. Orderly(t)
  BY DEF Effect
<1>3. /\ SumFunctionOnSet(s.balance, Account) \in Int /\ Balances(s) \in Int
      /\ Fees(s.intents) \in Int /\ Fees(s.escrows) \in Int
  BY WorthParts
<1>4. /\ SumFunctionOnSet(t.balance, Account) \in Int /\ Balances(t) \in Int
      /\ Fees(t.intents) \in Int /\ Fees(t.escrows) \in Int
  BY <1>2, WorthParts
<1>5. Worth(t) = Worth(s)
  BY DEF Effect
<1>6. e \in Int /\ Total(s) \in Int /\ Total(t) = Total(s) - e
  <2> HIDE DEF e
  <2> QED
    BY <1>1, <1>3, <1>4, <1>5 DEF Worth, Total
<1> QED
  BY <1>6

\* The sums after one account and one contract change.
Moved(S, f, g, e, z) ==
  /\ e \in S /\ z \in Int /\ \A y \in S : f[y] \in Int /\ g[y] \in Int
  /\ \A y \in S \ {e} : g[y] = f[y]
  /\ g[e] = f[e] + z

LEMMA SumChange ==
  ASSUME NEW S, IsFiniteSet(S), NEW f, NEW g, NEW e, NEW z, Moved(S, f, g, e, z)
  PROVE  SumFunctionOnSet(f, S) \in Int /\ SumFunctionOnSet(g, S) = SumFunctionOnSet(f, S) + z
<1> DEFINE R == S \ {e}
<1>1. SumFunctionOnSet(f, S) = f[e] + SumFunctionOnSet(f, R) /\ SumFunctionOnSet(f, R) \in Int
  BY SumSplit DEF Moved
<1>2. SumFunctionOnSet(g, S) = g[e] + SumFunctionOnSet(g, R)
  BY SumSplit DEF Moved
<1>3. IsFiniteSet(R)
  BY FS_RemoveElement DEF Moved
<1>4. \A y \in R : f[y] \in Int /\ f[y] = g[y]
  BY DEF Moved
<1> HIDE DEF R
<1>5. SumFunctionOnSet(g, R) = SumFunctionOnSet(f, R)
  BY <1>3, <1>4, SumEqual
<1>6. f[e] \in Int /\ g[e] = f[e] + z /\ z \in Int
  BY DEF Moved
<1> QED
  BY <1>1, <1>2, <1>5, <1>6

LEMMA TotalChange ==
  ASSUME NEW s, Orderly(s), NEW t, Orderly(t), NEW c \in Contract, NEW u \in Account,
         \A a \in Account \ {u} : t.balance[a] = s.balance[a],
         \A d \in Contract \ {c} : t.contracts[d].Balance = s.contracts[d].Balance,
         t.intents = s.intents,
         NEW x \in Int, t.balance[u] = s.balance[u] + x,
         NEW y \in Int, t.contracts[c].Balance = s.contracts[c].Balance + y
  PROVE  Total(s) \in Int /\ Total(t) = Total(s) + x + y
<1> DEFINE f == [d \in Contract |-> s.contracts[d].Balance]
           g == [d \in Contract |-> t.contracts[d].Balance]
           p == s.balance
           q == t.balance
<1>1. \A d \in Contract : f[d] \in Int /\ g[d] \in Int
  BY DEF Orderly, HostState, WasmContract
<1>2. \A a \in Account : p[a] \in Int /\ q[a] \in Int
  BY DEF Orderly, HostState
<1>3. Moved(Contract, f, g, c, y)
  BY <1>1 DEF Moved
<1>4. Moved(Account, p, q, u, x)
  BY <1>2 DEF Moved
<1>5. Balances(t) = SumFunctionOnSet(g, Contract) /\ Balances(s) = SumFunctionOnSet(f, Contract)
  BY DEF Balances
<1>6. Fees(s.intents) \in Int
  BY WorthParts
<1> HIDE DEF f, g, p, q
<1>7. SumFunctionOnSet(f, Contract) \in Int
      /\ SumFunctionOnSet(g, Contract) = SumFunctionOnSet(f, Contract) + y
  BY <1>3, ContractsFinite, SumChange
<1>8. SumFunctionOnSet(p, Account) \in Int
      /\ SumFunctionOnSet(q, Account) = SumFunctionOnSet(p, Account) + x
  BY <1>4, ContractsFinite, SumChange
<1> QED
  BY <1>5, <1>6, <1>7, <1>8 DEF Total, p, q

\* The state a call begins with.
Called(s, u, c, fund) == [Pay(s, u, Fee + fund) EXCEPT !.contracts[c].Balance = @ + fund]

LEMMA CalledSound ==
  ASSUME NEW s, HostSound(s), NEW u \in User, NEW c \in Contract, s.contracts[c].Status \in Live,
         NEW fund \in Nat, s.balance[u] >= Fee + fund
  PROVE  LET b == Called(s, u, c, fund)
         IN  /\ HostSound(b) /\ Stays(s, b, c) /\ Total(b) = Total(s) - Fee /\ Total(s) \in Int
             /\ b.nonce = s.nonce /\ b.contracts[c].Status = s.contracts[c].Status
<1> DEFINE b == Called(s, u, c, fund)
<1>1. Fee \in Nat /\ u \in Account
  BY ContractsAssumption DEF Account
<1>2. s \in HostState /\ s.contracts \in [Contract -> WasmContract] /\ s.balance \in [Account -> Nat]
  BY DEF HostSound, Orderly, HostState
<1>3. /\ b.balance = [s.balance EXCEPT ![u] = @ - (Fee + fund)]
      /\ b.contracts = [s.contracts EXCEPT ![c].Balance = @ + fund]
      /\ b.codes = s.codes /\ b.nonce = s.nonce /\ b.kv = s.kv /\ b.crons = s.crons /\ b.subs = s.subs
      /\ b.pending = s.pending /\ b.intents = s.intents /\ b.escrows = s.escrows
      /\ b.collections = s.collections /\ b.records = s.records
  BY <1>2 DEF Called, Pay, HostState
<1>4. b = [s EXCEPT !.balance = b.balance, !.contracts = b.contracts]
  BY <1>2, <1>3 DEF Called, Pay, HostState
<1> HIDE DEF b
<1>5. /\ b.balance[u] = s.balance[u] - (Fee + fund) /\ b.balance[u] \in Nat
      /\ \A a \in Account \ {u} : b.balance[a] = s.balance[a]
  BY <1>1, <1>2, <1>3
<1>6. b.balance \in [Account -> Nat]
  BY <1>1, <1>2, <1>3, <1>5
<1>7. /\ s.contracts[c] \in WasmContract
      /\ b.contracts[c] = [s.contracts[c] EXCEPT !.Balance = @ + fund]
      /\ \A d \in Contract \ {c} : b.contracts[d] = s.contracts[d]
  BY <1>2, <1>3
<1>8. /\ b.contracts[c] \in WasmContract /\ b.contracts[c].Balance = s.contracts[c].Balance + fund
      /\ b.contracts[c].Status = s.contracts[c].Status /\ b.contracts[c].CodeHash = s.contracts[c].CodeHash
      /\ s.contracts[c].Balance \in Nat
  BY <1>7 DEF WasmContract
<1>9. b.contracts \in [Contract -> WasmContract]
  BY <1>2, <1>3, <1>7, <1>8
<1>10. b \in HostState
  BY <1>2, <1>4, <1>6, <1>9 DEF HostState
<1>11. Orderly(b)
  BY <1>3, <1>10 DEF HostSound, Orderly
<1>12. s.nonce \in Nat /\ s.pending \in Seq(WasmPendingEvent)
  BY <1>2 DEF HostState
<1>13. Appended(s.pending, b.pending, c)
  BY <1>3, <1>12 DEF Appended
<1>14. Stays(s, b, c)
  BY <1>3, <1>7, <1>8, <1>12, <1>13 DEF Stays, OthersKept
<1>15. HostSound(b)
  BY <1>3, <1>11, <1>14, SoundStays DEF HostSound
<1>16. Total(b) = Total(s) - Fee /\ Total(s) \in Int
  <2>1. Orderly(s)
    BY DEF HostSound
  <2>2. \A d \in Contract \ {c} : b.contracts[d].Balance = s.contracts[d].Balance
    BY <1>7
  <2> DEFINE x == 0 - (Fee + fund)
  <2>3. s.balance[u] \in Nat /\ x \in Int
    BY <1>1, <1>2
  <2>4. b.balance[u] = s.balance[u] + x
    BY <1>1, <1>5, <2>3
  <2>5. b.intents = s.intents
    BY <1>3
  <2>6. fund \in Int /\ b.contracts[c].Balance = s.contracts[c].Balance + fund
    BY <1>8
  <2>7. \A a \in Account \ {u} : b.balance[a] = s.balance[a]
    BY <1>5
  <2> HIDE DEF x
  <2>8. Total(s) \in Int /\ Total(b) = Total(s) + x + fund
    BY <1>1, <1>11, <2>1, <2>2, <2>3, <2>4, <2>5, <2>6, <2>7, TotalChange
  <2> QED
    BY <1>1, <2>8 DEF x
<1> QED
  BY <1>3, <1>8, <1>14, <1>15, <1>16 DEF b

\* The state after an execution: its gas is paid, its jobs are rewritten.
Charged(s, c, jobs, n) ==
  [s EXCEPT !.crons[c] = jobs, !.contracts[c].Balance = s.contracts[c].Balance - n]
LEMMA ChargedSound ==
  ASSUME NEW s, HostSound(s), NEW c \in Contract, s.contracts[c].Status \in Live,
         NEW jobs \in Seq(WasmCronJob), NEW n \in Nat, n <= s.contracts[c].Balance
  PROVE  LET b == Charged(s, c, jobs, n)
         IN  /\ HostSound(b) /\ Stays(s, b, c) /\ Total(b) = Total(s) - n /\ Total(s) \in Int
             /\ b.nonce = s.nonce /\ b.contracts[c].Balance = s.contracts[c].Balance - n
             /\ b.kv = s.kv /\ b.balance = s.balance /\ b.intents = s.intents
             /\ b.collections = s.collections /\ b.records = s.records
<1> DEFINE b == Charged(s, c, jobs, n)
<1>2. /\ s \in HostState /\ s.contracts \in [Contract -> WasmContract] /\ s.balance \in [Account -> Nat]
      /\ s.crons \in [Contract -> Seq(WasmCronJob)]
  BY DEF HostSound, Orderly, HostState
<1>3. /\ b.balance = s.balance
      /\ b.contracts = [s.contracts EXCEPT ![c].Balance = s.contracts[c].Balance - n]
      /\ b.crons = [s.crons EXCEPT ![c] = jobs]
      /\ b.codes = s.codes /\ b.nonce = s.nonce /\ b.kv = s.kv /\ b.subs = s.subs
      /\ b.pending = s.pending /\ b.intents = s.intents /\ b.escrows = s.escrows
      /\ b.collections = s.collections /\ b.records = s.records
  BY <1>2 DEF HostState, Charged
<1>4. b = [s EXCEPT !.crons = b.crons, !.contracts = b.contracts]
  BY <1>2, <1>3 DEF HostState, Charged
<1> HIDE DEF b
<1>6. b.crons \in [Contract -> Seq(WasmCronJob)] /\ \A d \in Contract \ {c} : b.crons[d] = s.crons[d]
  BY <1>2, <1>3
<1>7. /\ s.contracts[c] \in WasmContract
      /\ b.contracts[c] = [s.contracts[c] EXCEPT !.Balance = s.contracts[c].Balance - n]
      /\ \A d \in Contract \ {c} : b.contracts[d] = s.contracts[d]
  BY <1>2, <1>3
<1>8. /\ b.contracts[c] \in WasmContract /\ b.contracts[c].Balance = s.contracts[c].Balance - n
      /\ b.contracts[c].Status = s.contracts[c].Status /\ b.contracts[c].CodeHash = s.contracts[c].CodeHash
      /\ s.contracts[c].Balance \in Nat
  BY <1>7 DEF WasmContract
<1>9. b.contracts \in [Contract -> WasmContract]
  BY <1>2, <1>3, <1>7, <1>8
<1>10. b \in HostState
  BY <1>2, <1>4, <1>6, <1>9 DEF HostState
<1>11. Orderly(b)
  BY <1>3, <1>10 DEF HostSound, Orderly
<1>12. s.nonce \in Nat /\ s.pending \in Seq(WasmPendingEvent)
  BY <1>2 DEF HostState
<1>13. Appended(s.pending, b.pending, c)
  BY <1>3, <1>12 DEF Appended
<1>14. Stays(s, b, c)
  BY <1>3, <1>6, <1>7, <1>8, <1>12, <1>13 DEF Stays, OthersKept
<1>15. HostSound(b)
  BY <1>3, <1>11, <1>14, SoundStays DEF HostSound
<1>16. Total(b) = Total(s) - n /\ Total(s) \in Int
  <2>1. Orderly(s)
    BY DEF HostSound
  <2>2. \A d \in Contract \ {c} : b.contracts[d].Balance = s.contracts[d].Balance
    BY <1>7
  <2>3. PICK u \in Account : TRUE
    BY WasmHostAssumption DEF Account
  <2>4. s.balance[u] \in Nat /\ b.balance = s.balance
    BY <1>2, <1>3
  <2>5. b.balance[u] = s.balance[u] + 0 /\ \A a \in Account \ {u} : b.balance[a] = s.balance[a]
    BY <2>4
  <2> DEFINE y == 0 - n
  <2>6. b.contracts[c].Balance = s.contracts[c].Balance + y /\ y \in Int
    BY <1>8
  <2>7. b.intents = s.intents /\ 0 \in Int
    BY <1>3
  <2> DEFINE x == 0
  <2>8. b.balance[u] = s.balance[u] + x /\ x \in Int /\ \A a \in Account \ {u} : b.balance[a] = s.balance[a]
    BY <2>5
  <2> HIDE DEF x, y
  <2>9. Total(s) \in Int /\ Total(b) = Total(s) + x + y
    BY <1>11, <2>1, <2>2, <2>6, <2>7, <2>8, TotalChange
  <2> QED
    BY <2>9 DEF x, y
<1> QED
  BY <1>3, <1>8, <1>14, <1>15, <1>16 DEF b

-----------------------------------------------------------------------------
(* A deployment begins. *)
Begun(s, u, c, h, fund) == [Deployed(s, u, c, h, fund) EXCEPT !.nonce = @ + 1]

BegunAs(s, b, u, c, h, fund) ==
  /\ b.balance = [[s.balance EXCEPT ![u] = @ - (Fee + fund)] EXCEPT ![c] = @ + fund]
  /\ b.contracts = [s.contracts EXCEPT ![c] = [Status |-> "active", Balance |-> fund,
                                               CodeHash |-> h, Admin |-> u]]
  /\ b.codes = [s.codes EXCEPT ![h] = @ + 1] /\ b.kv = [s.kv EXCEPT ![c] = NoKeys]
  /\ b.nonce = s.nonce + 1 /\ b.crons = s.crons /\ b.subs = s.subs
  /\ b.pending = s.pending /\ b.intents = s.intents /\ b.escrows = s.escrows
  /\ b.collections = s.collections /\ b.records = s.records
  /\ b = [s EXCEPT !.balance = b.balance, !.contracts = b.contracts, !.codes = b.codes,
                   !.kv = b.kv, !.nonce = b.nonce]

LEMMA BegunFields ==
  ASSUME NEW s \in HostState, NEW u \in User, NEW c \in Contract, NEW h \in Code, NEW fund \in Nat
  PROVE  BegunAs(s, Begun(s, u, c, h, fund), u, c, h, fund)
<1> DEFINE b == Begun(s, u, c, h, fund)
           B == [[s.balance EXCEPT ![u] = @ - (Fee + fund)] EXCEPT ![c] = @ + fund]
           C == [s.contracts EXCEPT ![c] = [Status |-> "active", Balance |-> fund,
                                            CodeHash |-> h, Admin |-> u]]
           O == [s.codes EXCEPT ![h] = @ + 1]
           K == [s.kv EXCEPT ![c] = NoKeys]
           n == s.nonce + 1
<1>1. b = [s EXCEPT !.balance = B, !.contracts = C, !.codes = O, !.kv = K, !.nonce = n]
  <2> DEFINE r == Pay(s, u, Fee + fund)
             t == Deployed(s, u, c, h, fund)
  <2>1. r = [s EXCEPT !.balance = [s.balance EXCEPT ![u] = @ - (Fee + fund)]]
    BY DEF Pay
  <2>2. /\ r.balance = [s.balance EXCEPT ![u] = @ - (Fee + fund)]
        /\ r.contracts = s.contracts /\ r.codes = s.codes /\ r.kv = s.kv
    BY <2>1 DEF HostState
  <2>3. t = [r EXCEPT !.balance = [r.balance EXCEPT ![c] = @ + fund],
                      !.codes = [r.codes EXCEPT ![h] = @ + 1],
                      !.contracts = [r.contracts EXCEPT ![c] = [Status |-> "active", Balance |-> fund,
                                                                CodeHash |-> h, Admin |-> u]],
                      !.kv = [r.kv EXCEPT ![c] = NoKeys]]
    BY DEF Deployed
  <2> HIDE DEF r
  <2>4. t = [r EXCEPT !.balance = B, !.codes = O, !.contracts = C, !.kv = K]
    BY <2>2, <2>3
  <2>5. b = [t EXCEPT !.nonce = t.nonce + 1]
    BY DEF Begun
  <2> HIDE DEF t, b, B, O, C, K
  <2>6. t = [s EXCEPT !.balance = B, !.codes = O, !.contracts = C, !.kv = K]
    BY <2>1, <2>4 DEF HostState
  <2>7. t.nonce = s.nonce
    BY <2>6 DEF HostState
  <2> QED
    BY <2>5, <2>6, <2>7 DEF HostState
<1> HIDE DEF b, B, C, O, K, n
<1>2. /\ b.balance = B /\ b.contracts = C /\ b.codes = O /\ b.kv = K /\ b.nonce = n
      /\ b.crons = s.crons /\ b.subs = s.subs
      /\ b.pending = s.pending /\ b.intents = s.intents /\ b.escrows = s.escrows
      /\ b.collections = s.collections /\ b.records = s.records
  BY <1>1 DEF HostState
<1>3. b = [s EXCEPT !.balance = b.balance, !.contracts = b.contracts, !.codes = b.codes,
                    !.kv = b.kv, !.nonce = b.nonce]
  BY <1>1, <1>2
<1>4. BegunAs(s, b, u, c, h, fund)
  BY <1>2, <1>3 DEF BegunAs, B, C, O, K, n
<1> QED
  BY <1>4 DEF b

LEMMA BegunSound ==
  ASSUME NEW s, HostSound(s), NEW u \in User, NEW c \in Contract, c[2] = s.nonce,
         s.nonce < MaxWasmNonce, NEW h \in Code, NEW fund \in Nat, s.balance[u] >= Fee + fund
  PROVE  LET b == Begun(s, u, c, h, fund)
         IN  /\ HostSound(b) /\ OthersKept(s, b, c) /\ b.contracts[c].Status = "active"
             /\ b.contracts[c].CodeHash = h /\ Total(b) = Total(s) - Fee + fund /\ Total(s) \in Int
<1> DEFINE b == Begun(s, u, c, h, fund)
           paid == [s.balance EXCEPT ![u] = s.balance[u] - (Fee + fund)]
           new == [Status |-> "active", Balance |-> fund, CodeHash |-> h, Admin |-> u]
<1>1. Fee \in Nat /\ u \in Account /\ c \in Account /\ MaxWasmNonce \in Nat
  BY ContractsAssumption, WasmHostAssumption DEF Account
<1>2. /\ s \in HostState /\ s.contracts \in [Contract -> WasmContract] /\ s.balance \in [Account -> Nat]
      /\ s.nonce \in Nat /\ s.codes \in [Code -> Nat] /\ s.pending \in Seq(WasmPendingEvent)
      /\ s.kv \in [Contract -> [Key -> Val \cup {None}]]
  BY DEF HostSound, Orderly, HostState
<1>3. /\ b.balance = [paid EXCEPT ![c] = @ + fund]
      /\ b.contracts = [s.contracts EXCEPT ![c] = new]
      /\ b.codes = [s.codes EXCEPT ![h] = @ + 1] /\ b.kv = [s.kv EXCEPT ![c] = NoKeys]
      /\ b.nonce = s.nonce + 1 /\ b.crons = s.crons /\ b.subs = s.subs
      /\ b.pending = s.pending /\ b.intents = s.intents /\ b.escrows = s.escrows
      /\ b.collections = s.collections /\ b.records = s.records
      /\ b = [s EXCEPT !.balance = b.balance, !.contracts = b.contracts, !.codes = b.codes,
                       !.kv = b.kv, !.nonce = b.nonce]
  <2>1. BegunAs(s, b, u, c, h, fund)
    BY <1>2, BegunFields
  <2> HIDE DEF b
  <2> QED
    BY <2>1 DEF BegunAs
<1>4. new \in WasmContract /\ new.Status = "active" /\ new.Balance = fund /\ new.CodeHash = h
  BY DEF WasmContract
<1> HIDE DEF b, new
<1>5. /\ paid \in [Account -> Nat] /\ paid[u] = s.balance[u] - (Fee + fund)
      /\ \A a \in Account \ {u} : paid[a] = s.balance[a]
  BY <1>1, <1>2
<1> HIDE DEF paid
<1>6. /\ b.balance \in [Account -> Nat] /\ b.balance[c] = paid[c] + fund
      /\ \A a \in Account \ {c} : b.balance[a] = paid[a]
  BY <1>1, <1>3, <1>5
<1>7. /\ b.contracts \in [Contract -> WasmContract] /\ b.contracts[c] = new
      /\ \A d \in Contract \ {c} : b.contracts[d] = s.contracts[d]
  BY <1>2, <1>3, <1>4
<1>8. NoKeys \in [Key -> Val \cup {None}]
  BY DEF NoKeys
<1>9. /\ b.codes \in [Code -> Nat] /\ b.kv \in [Contract -> [Key -> Val \cup {None}]] /\ b.nonce \in Nat
      /\ \A d \in Contract \ {c} : b.kv[d] = s.kv[d]
      /\ b.codes[h] = s.codes[h] + 1 /\ \A i \in Code \ {h} : b.codes[i] = s.codes[i]
  BY <1>2, <1>3, <1>8
<1>10. b \in HostState
  BY <1>2, <1>3, <1>6, <1>7, <1>9 DEF HostState
<1>11. Orderly(b)
  <2>1. \A x \in s.intents \cup s.escrows \cup s.collections : x.ID \in Nat
    BY <1>2 DEF HostState
  <2>2. \A x \in s.records : x.ID \in Nat /\ x.Collection \in Nat
    BY <1>2 DEF HostState
  <2>3. \A x \in b.intents \cup b.escrows \cup b.collections : x.ID < b.nonce
    BY <1>2, <1>3, <2>1 DEF HostSound, Orderly
  <2>4. \A x \in b.records : x.ID < b.nonce /\ x.Collection < b.nonce
    BY <1>2, <1>3, <2>2 DEF HostSound, Orderly
  <2> QED
    BY <1>3, <1>10, <2>3, <2>4 DEF HostSound, Orderly
<1>12. OthersKept(s, b, c)
  BY <1>3, <1>7, <1>9 DEF OthersKept
<1>13. s.contracts[c].Status = "none" /\ s.contracts[c].Balance = 0 /\ s.contracts[c].CodeHash = None
  BY <1>2 DEF HostSound, Fresh
<1>14. Fresh(b)
  <2>1. \A d \in Contract : d[2] \in Nat
    BY DEF Contract, generateContractAddress
  <2>2. Fresh(s)
    BY DEF HostSound
  <2> SUFFICES ASSUME NEW d \in Contract
               PROVE  /\ d[2] >= b.nonce => b.contracts[d].Status = "none"
                      /\ b.contracts[d].Status = "none" => b.contracts[d].Balance = 0 /\ b.contracts[d].CodeHash = None
                      /\ b.contracts[d].Status # "none" => b.contracts[d].CodeHash \in Code
    BY DEF Fresh
  <2>3. CASE d = c
    BY <1>2, <1>3, <1>4, <1>7, <2>3
  <2>4. CASE d # c
    <3>1. b.contracts[d] = s.contracts[d]
      BY <1>7, <2>4
    <3>2. d[2] >= b.nonce => d[2] >= s.nonce
      BY <1>2, <1>3, <2>1
    <3> QED
      BY <2>2, <3>1, <3>2 DEF Fresh
  <2> QED
    BY <2>3, <2>4
<1>15. Counted(b)
  <2> SUFFICES ASSUME NEW i \in Code PROVE b.codes[i] = Cardinality(Running(b, i))
    BY DEF Counted
  <2>1. s.codes[i] = Cardinality(Running(s, i)) /\ s.codes[i] \in Nat
    BY <1>2 DEF HostSound, Counted
  <2>2. i # None
    BY WasmHostAssumption
  <2>3. CASE i = h
    <3>1. Running(b, i) = Running(s, i) \cup {c} /\ c \notin Running(s, i)
      BY <1>4, <1>7, <1>13, <2>2, <2>3 DEF Running
    <3>2. IsFiniteSet(Running(s, i))
      BY ContractsFinite, FS_Subset DEF Running
    <3>3. Cardinality(Running(b, i)) = Cardinality(Running(s, i)) + 1
      BY <3>1, <3>2, FS_AddElement
    <3> QED
      BY <1>9, <2>1, <2>3, <3>3
  <2>4. CASE i # h
    <3>1. Running(b, i) = Running(s, i)
      BY <1>4, <1>7, <1>13, <2>2, <2>4 DEF Running
    <3> QED
      BY <1>9, <2>1, <2>4, <3>1
  <2> QED
    BY <2>3, <2>4
<1>16. Clean(b)
  BY <1>4, <1>7, <1>12 DEF Clean, HostSound, OthersKept
<1>17. Lively(b.pending, b)
  <2> SUFFICES ASSUME NEW k \in 1..Len(s.pending)
               PROVE  b.contracts[s.pending[k].EmitterAddress].Status # "destroyed"
    BY <1>3 DEF Lively
  <2>1. s.pending[k] \in WasmPendingEvent
    BY <1>2
  <2>2. s.pending[k].EmitterAddress \in Contract
    BY <2>1 DEF WasmPendingEvent
  <2>3. s.contracts[s.pending[k].EmitterAddress].Status # "destroyed"
    BY DEF HostSound, Lively
  <2> QED
    BY <1>4, <1>7, <2>2, <2>3
<1>18. HostSound(b)
  BY <1>1, <1>2, <1>3, <1>11, <1>14, <1>15, <1>16, <1>17 DEF HostSound
<1>19. Total(b) = Total(s) - Fee + fund /\ Total(s) \in Int
  <2> DEFINE f == [d \in Contract |-> s.contracts[d].Balance]
             g == [d \in Contract |-> b.contracts[d].Balance]
             p == s.balance
             q == b.balance
             x == 0 - (Fee + fund)
  <2>1. \A d \in Contract : f[d] \in Int /\ g[d] \in Int
    BY <1>2, <1>7 DEF WasmContract
  <2>2. (\A d \in Contract \ {c} : g[d] = f[d]) /\ g[c] = f[c] + fund
    BY <1>4, <1>7, <1>13
  <2>3. \A a \in Account : p[a] \in Int /\ paid[a] \in Int /\ q[a] \in Int
    BY <1>2, <1>5, <1>6
  <2>12. IsFiniteSet(Account)
    BY ContractsFinite
  <2>4. (\A a \in Account \ {u} : paid[a] = p[a]) /\ paid[u] = p[u] + x /\ x \in Int
    BY <1>1, <1>2, <1>5
  <2>5. (\A a \in Account \ {c} : q[a] = paid[a]) /\ q[c] = paid[c] + fund /\ fund \in Int
    BY <1>6
  <2>6. Balances(b) = SumFunctionOnSet(g, Contract) /\ Balances(s) = SumFunctionOnSet(f, Contract)
    BY DEF Balances
  <2>7. Fees(s.intents) \in Int /\ Fees(b.intents) = Fees(s.intents)
    BY <1>3, WorthParts DEF HostSound
  <2> HIDE DEF f, g, p, q, x
  <2>8. SumFunctionOnSet(f, Contract) \in Int
        /\ SumFunctionOnSet(g, Contract) = SumFunctionOnSet(f, Contract) + fund
    <3>1. Moved(Contract, f, g, c, fund)
      BY <2>1, <2>2, <2>5 DEF Moved
    <3> QED
      BY <3>1, ContractsFinite, SumChange
  <2>9. SumFunctionOnSet(p, Account) \in Int
        /\ SumFunctionOnSet(q, Account) = SumFunctionOnSet(p, Account) + x + fund
    <3>1. Moved(Account, p, paid, u, x)
      BY <1>1, <2>3, <2>4 DEF Moved
    <3>2. Moved(Account, paid, q, c, fund)
      BY <1>1, <2>3, <2>5 DEF Moved
    <3>3. SumFunctionOnSet(p, Account) \in Int
          /\ SumFunctionOnSet(paid, Account) = SumFunctionOnSet(p, Account) + x
      BY <2>12, <3>1, SumChange
    <3>4. SumFunctionOnSet(q, Account) = SumFunctionOnSet(paid, Account) + fund
      BY <2>12, <3>2, SumChange
    <3> QED
      BY <3>3, <3>4
  <2>11. Total(b) = SumFunctionOnSet(q, Account) + SumFunctionOnSet(g, Contract) + Fees(s.intents)
         /\ Total(s) = SumFunctionOnSet(p, Account) + SumFunctionOnSet(f, Contract) + Fees(s.intents)
    BY <2>6, <2>7 DEF Total, p, q
  <2> QED
    BY <1>1, <2>4, <2>7, <2>8, <2>9, <2>11 DEF x
<1> QED
  BY <1>4, <1>7, <1>12, <1>18, <1>19 DEF b

\* The state a deployment leaves on a node: marked if it failed, with its jobs.
Enlisted(s, c, v, jobs) == [s EXCEPT !.contracts[c].Status = v, !.crons[c] = jobs]

LEMMA EnlistedSound ==
  ASSUME NEW s, HostSound(s), NEW c \in Contract, s.contracts[c].Status \in Live,
         NEW v \in Live, NEW jobs \in Seq(WasmCronJob)
  PROVE  LET b == Enlisted(s, c, v, jobs)
         IN  /\ HostSound(b) /\ Stays(s, b, c) /\ Total(b) = Total(s)
             /\ b.nonce = s.nonce /\ Same(s, b)
<1> DEFINE b == Enlisted(s, c, v, jobs)
<1>2. /\ s \in HostState /\ s.contracts \in [Contract -> WasmContract]
      /\ s.crons \in [Contract -> Seq(WasmCronJob)]
  BY DEF HostSound, Orderly, HostState
<1>3. /\ b.balance = s.balance
      /\ b.contracts = [s.contracts EXCEPT ![c].Status = v]
      /\ b.crons = [s.crons EXCEPT ![c] = jobs]
      /\ b.codes = s.codes /\ b.nonce = s.nonce /\ b.kv = s.kv /\ b.subs = s.subs
      /\ b.pending = s.pending /\ b.intents = s.intents /\ b.escrows = s.escrows
      /\ b.collections = s.collections /\ b.records = s.records
  BY <1>2 DEF HostState, Enlisted
<1>4. b = [s EXCEPT !.crons = b.crons, !.contracts = b.contracts]
  BY <1>2, <1>3 DEF HostState, Enlisted
<1> HIDE DEF b
<1>6. b.crons \in [Contract -> Seq(WasmCronJob)] /\ \A d \in Contract \ {c} : b.crons[d] = s.crons[d]
  BY <1>2, <1>3
<1>7. /\ s.contracts[c] \in WasmContract
      /\ b.contracts[c] = [s.contracts[c] EXCEPT !.Status = v]
      /\ \A d \in Contract \ {c} : b.contracts[d] = s.contracts[d]
  BY <1>2, <1>3
<1>8. /\ b.contracts[c] \in WasmContract /\ b.contracts[c].Balance = s.contracts[c].Balance
      /\ b.contracts[c].Status = v /\ b.contracts[c].CodeHash = s.contracts[c].CodeHash
  BY <1>7 DEF WasmContract, Live
<1>9. b.contracts \in [Contract -> WasmContract]
  BY <1>2, <1>3, <1>7, <1>8
<1>10. b \in HostState
  BY <1>2, <1>4, <1>6, <1>9 DEF HostState
<1>11. Orderly(b)
  BY <1>3, <1>10 DEF HostSound, Orderly
<1>12. s.nonce \in Nat /\ s.pending \in Seq(WasmPendingEvent)
  BY <1>2 DEF HostState
<1>13. Appended(s.pending, b.pending, c)
  BY <1>3, <1>12 DEF Appended
<1>14. Stays(s, b, c)
  BY <1>3, <1>6, <1>7, <1>8, <1>12, <1>13 DEF Stays, OthersKept
<1>15. HostSound(b)
  BY <1>3, <1>11, <1>14, SoundStays DEF HostSound
<1>16. \A d \in Contract : b.contracts[d].Balance = s.contracts[d].Balance
  BY <1>7, <1>8
<1>17. Total(b) = Total(s)
  BY <1>3, <1>16 DEF Total, Balances
<1>18. Same(s, b)
  BY <1>3, <1>16 DEF Same
<1> QED
  BY <1>3, <1>14, <1>15, <1>17, <1>18 DEF b

-----------------------------------------------------------------------------
(* A contract is destroyed. *)
LEMMA ListOf ==
  ASSUME NEW T, NEW A, NEW q \in Seq(T), \A k \in 1..Len(q) : q[k] \in A
  PROVE  q \in Seq(A)
OBVIOUS
DestroyedAs(s, b, u, c) ==
  /\ HostSound(b) /\ Total(b) = Total(s) - Fee /\ Total(s) \in Int
  /\ b.codes = [s.codes EXCEPT ![s.contracts[c].CodeHash] = s.codes[s.contracts[c].CodeHash] - 1]
  /\ b.balance = [s.balance EXCEPT ![u] = s.balance[u] - Fee + s.contracts[c].Balance]
  /\ b.kv = [s.kv EXCEPT ![c] = NoKeys]
  /\ \A d \in Contract \ {c} : b.contracts[d] = s.contracts[d]
  /\ b.contracts[c].Balance = 0 /\ b.contracts[c].Status = "destroyed"
  /\ b.contracts[c].CodeHash = s.contracts[c].CodeHash
  /\ b.nonce = s.nonce /\ b.intents = s.intents
  /\ b.collections = s.collections /\ b.records = s.records

LEMMA DestroyedSound ==
  ASSUME NEW s, HostSound(s), NEW u \in User, NEW c \in Contract, s.contracts[c].Status \in Live,
         s.balance[u] >= Fee
  PROVE  DestroyedAs(s, applyDestroyContract(s, u, c), u, c)
<1> DEFINE b == applyDestroyContract(s, u, c)
           h == s.contracts[c].CodeHash
           money == s.balance[u] - Fee + s.contracts[c].Balance
           B == [s.balance EXCEPT ![u] = money]
           C == [s.contracts EXCEPT ![c] = [s.contracts[c] EXCEPT !.Balance = 0, !.Status = "destroyed"]]
           J == [s.crons EXCEPT ![c] = <<>>]
           K == [s.kv EXCEPT ![c] = NoKeys]
           S == [d \in Contract |-> IF d = c THEN {} ELSE s.subs[d] \ {c}]
           A == {e \in WasmPendingEvent : s.contracts[e.EmitterAddress].Status # "destroyed"}
           L == Filtered(s.pending, {e \in WasmPendingEvent : e.EmitterAddress # c})
           n == NotBelowZero(s.codes[h] - 1)
           O == [s.codes EXCEPT ![h] = n]
<1>1. Fee \in Nat /\ u \in Account
  BY ContractsAssumption DEF Account
<1>2. /\ s \in HostState /\ s.contracts \in [Contract -> WasmContract] /\ s.balance \in [Account -> Nat]
      /\ s.nonce \in Nat /\ s.codes \in [Code -> Nat] /\ s.pending \in Seq(WasmPendingEvent)
      /\ s.kv \in [Contract -> [Key -> Val \cup {None}]] /\ s.crons \in [Contract -> Seq(WasmCronJob)]
      /\ s.subs \in [Contract -> SUBSET Contract]
  BY DEF HostSound, Orderly, HostState
<1>3. b = [s EXCEPT !.balance = B, !.contracts = C, !.crons = J, !.kv = K, !.subs = S, !.pending = L,
                    !.codes = O]
  <2> DEFINE D == [[s.contracts EXCEPT ![c].Balance = 0] EXCEPT ![c].Status = "destroyed"]
  <2>1. b = [s EXCEPT !.balance = B, !.contracts = D, !.crons = J, !.kv = K, !.subs = S, !.pending = L,
                      !.codes = O]
    <3> DEFINE r1 == [s EXCEPT !.balance[u] = @ - Fee + s.contracts[c].Balance]
               r2 == [r1 EXCEPT !.contracts[c].Balance = 0, !.contracts[c].Status = "destroyed"]
               r3 == [r2 EXCEPT !.crons[c] = <<>>, !.kv[c] = NoKeys]
               r4 == [r3 EXCEPT !.subs = [d \in Contract |-> IF d = c THEN {} ELSE @[d] \ {c}],
                                !.pending = Filtered(@, {e \in WasmPendingEvent : e.EmitterAddress # c})]
    <3>1. b = [r4 EXCEPT !.codes[h] = NotBelowZero(@ - 1)]
      BY DEF applyDestroyContract
    <3>2. r1 = [s EXCEPT !.balance = B]
      OBVIOUS
    <3>3. r1.contracts = s.contracts /\ r1.crons = s.crons /\ r1.kv = s.kv /\ r1.subs = s.subs
          /\ r1.pending = s.pending /\ r1.codes = s.codes
      BY <3>2 DEF HostState
    <3> HIDE DEF r1
    <3>4. r2 = [r1 EXCEPT !.contracts = D]
      <4>1. r2 = [r1 EXCEPT !.contracts = [[r1.contracts EXCEPT ![c].Balance = 0] EXCEPT ![c].Status = "destroyed"]]
        BY <3>2 DEF HostState
      <4> QED
        BY <3>3, <4>1
    <3>5. r2.crons = s.crons /\ r2.kv = s.kv /\ r2.subs = s.subs /\ r2.pending = s.pending /\ r2.codes = s.codes
      BY <3>3, <3>4
    <3> HIDE DEF r2, D
    <3>6. r3 = [r2 EXCEPT !.crons = J, !.kv = K]
      <4>1. r3 = [r2 EXCEPT !.crons = [r2.crons EXCEPT ![c] = <<>>], !.kv = [r2.kv EXCEPT ![c] = NoKeys]]
        BY <3>2, <3>4 DEF HostState
      <4> QED
        BY <3>5, <4>1
    <3>7. r3.subs = s.subs /\ r3.pending = s.pending /\ r3.codes = s.codes
      BY <3>5, <3>6
    <3> HIDE DEF r3
    <3>8. r4 = [r3 EXCEPT !.subs = S, !.pending = L]
      <4>1. r4 = [r3 EXCEPT !.subs = [d \in Contract |-> IF d = c THEN {} ELSE r3.subs[d] \ {c}],
                            !.pending = Filtered(r3.pending, {e \in WasmPendingEvent : e.EmitterAddress # c})]
        BY <3>2, <3>4, <3>6 DEF HostState
      <4> QED
        BY <3>7, <4>1
    <3>9. r4.codes = s.codes
      BY <3>7, <3>8
    <3> HIDE DEF r4
    <3>10. b = [r4 EXCEPT !.codes = O]
      BY <3>1, <3>9
    <3> HIDE DEF b, B, J, K, S, L, O
    <3> QED
      BY <3>2, <3>4, <3>6, <3>8, <3>10
  <2>2. D = C
    BY <1>2
  <2> HIDE DEF b, B, C, D, J, K, S, L, O
  <2> QED
    BY <2>1, <2>2
<1>4. h \in Code
  BY DEF HostSound, Fresh, Live
<1>5. s.codes[h] = Cardinality(Running(s, h)) /\ c \in Running(s, h)
  BY <1>4 DEF HostSound, Counted, Running, Live
<1>6. IsFiniteSet(Running(s, h)) /\ s.codes[h] \in Nat /\ s.codes[h] # 0
  <2>1. IsFiniteSet(Running(s, h))
    BY ContractsFinite, FS_Subset DEF Running
  <2>2. Cardinality(Running(s, h)) # 0
    BY <1>5, <2>1, FS_EmptySet
  <2> QED
    BY <1>2, <1>4, <1>5, <2>1, <2>2
<1>7. n = s.codes[h] - 1 /\ n \in Nat
  BY <1>6 DEF NotBelowZero
<1>8. L \in Seq(WasmPendingEvent) /\ \A k \in 1..Len(L) :
         L[k].EmitterAddress # c /\ L[k].EmitterAddress \in Contract
         /\ s.contracts[L[k].EmitterAddress].Status # "destroyed"
  <2> DEFINE X == {e \in WasmPendingEvent : e.EmitterAddress # c}
             G == A \cap X
  <2>1. s.pending \in Seq(A)
    <3>1. \A k \in 1..Len(s.pending) : s.pending[k] \in A
      <4> SUFFICES ASSUME NEW k \in 1..Len(s.pending) PROVE s.pending[k] \in A
        OBVIOUS
      <4>1. s.pending[k] \in WasmPendingEvent
        BY <1>2
      <4> QED
        BY <4>1 DEF HostSound, Lively
    <3> HIDE DEF A
    <3> QED
      BY <1>2, <3>1, ListOf
  <2>2. L = Filtered(s.pending, X)
    OBVIOUS
  <2> HIDE DEF A, X, L
  <2>3. L \in Seq(A \cap X)
    BY <2>1, <2>2, FilteredMeans
  <2>4. A \cap X \subseteq WasmPendingEvent
    BY DEF A, X
  <2>5. L \in Seq(WasmPendingEvent)
    BY <2>3, <2>4
  <2>6. \A k \in 1..Len(L) : L[k] \in A /\ L[k] \in X
    BY <2>3
  <2> QED
    BY <2>5, <2>6 DEF A, X, WasmPendingEvent
<1> HIDE DEF b, L, n, h
<1>9. s.contracts[c] \in WasmContract /\ s.contracts[c].Balance \in Nat /\ s.contracts[c].CodeHash = h
  BY <1>2 DEF WasmContract, h
<1>10. money \in Nat
  BY <1>1, <1>2, <1>9
<1> HIDE DEF money
<1>11. /\ B \in [Account -> Nat] /\ B[u] = money /\ \A a \in Account \ {u} : B[a] = s.balance[a]
  BY <1>1, <1>2, <1>10
<1>12. /\ C \in [Contract -> WasmContract] /\ \A d \in Contract \ {c} : C[d] = s.contracts[d]
       /\ C[c].Balance = 0 /\ C[c].Status = "destroyed" /\ C[c].CodeHash = h
  <2> DEFINE new == [s.contracts[c] EXCEPT !.Balance = 0, !.Status = "destroyed"]
  <2>1. new \in WasmContract /\ new.Balance = 0 /\ new.Status = "destroyed" /\ new.CodeHash = h
    BY <1>9 DEF WasmContract
  <2>2. C = [s.contracts EXCEPT ![c] = new]
    OBVIOUS
  <2> HIDE DEF new
  <2> QED
    BY <1>2, <2>1, <2>2
<1>13. NoKeys \in [Key -> Val \cup {None}]
  BY DEF NoKeys
<1>14. /\ J \in [Contract -> Seq(WasmCronJob)] /\ J[c] = <<>> /\ \A d \in Contract \ {c} : J[d] = s.crons[d]
       /\ K \in [Contract -> [Key -> Val \cup {None}]] /\ K[c] = NoKeys
       /\ \A d \in Contract \ {c} : K[d] = s.kv[d]
       /\ O \in [Code -> Nat] /\ O[h] = s.codes[h] - 1 /\ \A i \in Code \ {h} : O[i] = s.codes[i]
  <2>1. <<>> \in Seq(WasmCronJob)
    OBVIOUS
  <2> QED
    BY <1>2, <1>4, <1>7, <1>13, <2>1
<1>15. /\ S \in [Contract -> SUBSET Contract] /\ S[c] = {}
       /\ \A d \in Contract \ {c} : S[d] \subseteq s.subs[d]
  BY <1>2
<1>16. O = [s.codes EXCEPT ![h] = s.codes[h] - 1]
  BY <1>7
<1>17. /\ B = [s.balance EXCEPT ![u] = s.balance[u] - Fee + s.contracts[c].Balance]
       /\ K = [s.kv EXCEPT ![c] = NoKeys]
  BY DEF money
<1> HIDE DEF B, C, J, K, S, O
<1>18. b \in HostState
  BY <1>2, <1>3, <1>8, <1>11, <1>12, <1>14, <1>15 DEF HostState
<1>19. /\ b.balance = B /\ b.contracts = C /\ b.crons = J /\ b.kv = K /\ b.subs = S /\ b.pending = L
       /\ b.codes = O /\ b.nonce = s.nonce /\ b.intents = s.intents /\ b.escrows = s.escrows
       /\ b.collections = s.collections /\ b.records = s.records
  BY <1>2, <1>3 DEF HostState
<1>20. Orderly(b)
  BY <1>18, <1>19 DEF HostSound, Orderly
<1>21. Fresh(b)
  BY <1>4, <1>12, <1>19 DEF HostSound, Fresh, Live
<1>22. Counted(b)
  <2> SUFFICES ASSUME NEW i \in Code PROVE b.codes[i] = Cardinality(Running(b, i))
    BY DEF Counted
  <2>1. CASE i = h
    <3>1. Running(b, i) = Running(s, i) \ {c}
      BY <1>12, <1>19 DEF Running
    <3>2. Cardinality(Running(s, h) \ {c}) = Cardinality(Running(s, h)) - 1
      BY <1>5, <1>6, FS_RemoveElement
    <3> QED
      BY <1>5, <1>14, <1>19, <2>1, <3>1, <3>2
  <2>2. CASE i # h
    <3>1. Running(b, i) = Running(s, i)
      BY <1>9, <1>12, <1>19, <2>2 DEF Running
    <3> QED
      BY <1>14, <1>19, <2>2, <3>1 DEF HostSound, Counted
  <2> QED
    BY <2>1, <2>2
<1>23. Clean(b)
  <2> SUFFICES ASSUME NEW d \in Contract, b.contracts[d].Status = "destroyed"
               PROVE  b.crons[d] = <<>> /\ b.kv[d] = NoKeys /\ b.subs[d] = {} /\ b.contracts[d].Balance = 0
    BY DEF Clean
  <2>1. CASE d = c
    BY <1>12, <1>14, <1>15, <1>19, <2>1
  <2>2. CASE d # c
    <3>1. s.contracts[d].Status = "destroyed" /\ b.contracts[d] = s.contracts[d]
      BY <1>12, <1>19, <2>2
    <3>2. s.crons[d] = <<>> /\ s.kv[d] = NoKeys /\ s.subs[d] = {} /\ s.contracts[d].Balance = 0
      BY <3>1 DEF HostSound, Clean
    <3> QED
      BY <1>14, <1>15, <1>19, <2>2, <3>1, <3>2
  <2> QED
    BY <2>1, <2>2
<1>24. Lively(b.pending, b)
  <2> SUFFICES ASSUME NEW k \in 1..Len(L)
               PROVE  C[L[k].EmitterAddress].Status # "destroyed"
    BY <1>19 DEF Lively
  <2>1. /\ L[k].EmitterAddress \in Contract \ {c}
        /\ s.contracts[L[k].EmitterAddress].Status # "destroyed"
    BY <1>8
  <2> QED
    BY <1>12, <2>1
<1>25. HostSound(b)
  BY <1>19, <1>20, <1>21, <1>22, <1>23, <1>24 DEF HostSound
<1>26. Total(b) = Total(s) - Fee /\ Total(s) \in Int
  <2> DEFINE m == s.contracts[c].Balance
             x == m - Fee
             y == 0 - m
  <2>1. m \in Nat /\ x \in Int /\ y \in Int
    BY <1>1, <1>9
  <2>2. b.balance[u] = s.balance[u] + x
    BY <1>1, <1>2, <1>9, <1>11, <1>19 DEF money
  <2>3. b.contracts[c].Balance = m + y
    BY <1>12, <1>19, <2>1
  <2>4. /\ \A a \in Account \ {u} : b.balance[a] = s.balance[a]
        /\ \A d \in Contract \ {c} : b.contracts[d].Balance = s.contracts[d].Balance
        /\ b.intents = s.intents
    BY <1>11, <1>12, <1>19
  <2>5. Orderly(s)
    BY DEF HostSound
  <2> HIDE DEF x, y
  <2>6. Total(s) \in Int /\ Total(b) = Total(s) + x + y
    BY <1>1, <1>20, <2>1, <2>2, <2>3, <2>4, <2>5, TotalChange
  <2> QED
    BY <1>1, <2>1, <2>6 DEF x, y
<1> QED
  <2>1. /\ b.kv = [s.kv EXCEPT ![c] = NoKeys] /\ b.codes = [s.codes EXCEPT ![h] = s.codes[h] - 1]
        /\ b.balance = [s.balance EXCEPT ![u] = s.balance[u] - Fee + s.contracts[c].Balance]
    BY <1>4, <1>12, <1>16, <1>17, <1>19 DEF h
  <2>2. DestroyedAs(s, b, u, c)
    BY <1>4, <1>12, <1>19, <1>25, <1>26, <2>1 DEF DestroyedAs, h
  <2> QED
    BY <2>2 DEF b

-----------------------------------------------------------------------------
(***************************************************************************)
(* Two nodes                                                               *)
(***************************************************************************)
Pair(s, p) == HostSound(s) /\ HostSound(p) /\ Agreed(s, p)

\* An execution on one and its replay on the other.
LEMMA StepPair ==
  ASSUME NEW s, HostSound(s), NEW p, HostSound(p), Same(s, p), p.nonce = s.nonce,
         NEW c \in Contract, s.contracts[c].Status \in Live, p.contracts[c].Status \in Live,
         NEW t, Effect(s, t, c), t.nonce <= MaxWasmNonce
  PROVE  LET d == diffWasmState(s, t, c)
             q == applyWasmStateDelta(p, c, d)
         IN  /\ HostSound(t) /\ HostSound(q) /\ Same(t, q) /\ q.nonce = t.nonce
             /\ Stays(s, t, c) /\ Stays(p, q, c)
             /\ EscrowedBy(d) \in Int /\ Total(s) \in Int /\ Total(t) = Total(s) - EscrowedBy(d)
<1> DEFINE d == diffWasmState(s, t, c)
           q == applyWasmStateDelta(p, c, d)
<1>1. Orderly(s) /\ Orderly(p) /\ p \in HostState /\ IsFiniteSet(p.escrows) /\ Unique(p.escrows)
  BY DEF HostSound, Orderly
<1>2. Replayed(s, t, c, p, q)
  BY <1>1, Applied
<1>3. EscrowedBy(d) \in Int /\ Total(s) \in Int /\ Total(t) = Total(s) - EscrowedBy(d)
  BY <1>1, EffectTotal
<1> HIDE DEF q, d
<1>4. HostSound(q) /\ q.nonce = t.nonce /\ Stays(p, q, c)
  BY <1>1, <1>2, ReplayedSound
<1>5. Stays(s, t, c) /\ Orderly(t)
  BY EffectStays
<1>6. HostSound(t)
  BY <1>5, SoundStays
<1>7. Same(t, q)
  BY <1>2 DEF Replayed
<1> QED
  BY <1>3, <1>4, <1>5, <1>6, <1>7 DEF q, d

LEMMA CallPair ==
  ASSUME NEW s, NEW p, Pair(s, p), NEW u \in User, NEW c \in Contract, s.contracts[c].Status \in Live,
         NEW fund \in Nat, s.balance[u] >= Fee + fund,
         NEW t, Effect(Called(s, u, c, fund), t, c), t.nonce <= MaxWasmNonce
  PROVE  LET d == diffWasmState(Called(s, u, c, fund), t, c)
         IN  /\ Pair(t, applyWasmStateDelta(Called(p, u, c, fund), c, d))
             /\ EscrowedBy(d) \in Int /\ Total(s) \in Int /\ Total(t) = Total(s) - Fee - EscrowedBy(d)
<1> DEFINE a == Called(s, u, c, fund)
           b == Called(p, u, c, fund)
           d == diffWasmState(a, t, c)
           q == applyWasmStateDelta(b, c, d)
<1>1. HostSound(s) /\ HostSound(p) /\ Same(s, p) /\ p.nonce = s.nonce /\ Ident(s, p)
  BY DEF Pair, Agreed
<1>2. p.contracts[c].Status \in Live /\ p.balance[u] >= Fee + fund
  BY <1>1, LivesOnBoth DEF Same
<1>3. /\ HostSound(a) /\ Stays(s, a, c) /\ Total(a) = Total(s) - Fee /\ Total(s) \in Int
      /\ a.nonce = s.nonce /\ a.contracts[c].Status = s.contracts[c].Status
  BY <1>1, CalledSound
<1>4. /\ HostSound(b) /\ Stays(p, b, c) /\ b.nonce = p.nonce /\ b.contracts[c].Status = p.contracts[c].Status
  BY <1>1, <1>2, CalledSound
<1>5. Same(a, b)
  <2>1. s \in HostState /\ p \in HostState /\ c \in Contract /\ u \in Account
    BY <1>1 DEF HostSound, Orderly, Account
  <2>2. /\ a.balance = [s.balance EXCEPT ![u] = @ - (Fee + fund)]
        /\ a.contracts = [s.contracts EXCEPT ![c].Balance = @ + fund]
        /\ a.codes = s.codes /\ a.kv = s.kv
        /\ a.intents = s.intents /\ a.collections = s.collections /\ a.records = s.records
    BY <2>1 DEF Called, Pay, HostState
  <2>3. /\ b.balance = [p.balance EXCEPT ![u] = @ - (Fee + fund)]
        /\ b.contracts = [p.contracts EXCEPT ![c].Balance = @ + fund]
        /\ b.codes = p.codes /\ b.kv = p.kv
        /\ b.intents = p.intents /\ b.collections = p.collections /\ b.records = p.records
    BY <2>1 DEF Called, Pay, HostState
  <2>4. s.contracts \in [Contract -> WasmContract] /\ p.contracts \in [Contract -> WasmContract]
    BY <2>1 DEF HostState
  <2> HIDE DEF a, b
  <2>5. \A x \in Contract : b.contracts[x].Balance = a.contracts[x].Balance
    BY <1>1, <2>2, <2>3, <2>4 DEF Same, WasmContract
  <2>6. a.balance = b.balance
    BY <1>1, <2>2, <2>3 DEF Same
  <2> QED
    BY <1>1, <2>2, <2>3, <2>5, <2>6 DEF Same
<1> HIDE DEF a, b
<1>6. /\ HostSound(t) /\ HostSound(q) /\ Same(t, q) /\ q.nonce = t.nonce
      /\ Stays(a, t, c) /\ Stays(b, q, c)
      /\ EscrowedBy(d) \in Int /\ Total(t) = Total(a) - EscrowedBy(d)
  <2>1. Effect(a, t, c) /\ a.contracts[c].Status \in Live /\ b.contracts[c].Status \in Live /\ b.nonce = a.nonce
    BY <1>1, <1>2, <1>3, <1>4 DEF a
  <2> QED
    BY <1>3, <1>4, <1>5, <2>1, StepPair
<1> HIDE DEF d, q
<1>7. Ident(t, q)
  <2>1. Ident(a, b)
    BY <1>1, <1>3, <1>4, IdentStays
  <2> QED
    BY <1>6, <2>1, IdentStays
<1>8. Total(t) = Total(s) - Fee - EscrowedBy(d)
  BY <1>3, <1>6, ContractsAssumption
<1>9. Pair(t, q)
  BY <1>6, <1>7 DEF Pair, Agreed
<1> QED
  BY <1>3, <1>6, <1>8, <1>9 DEF a, b, d, q

\* An execution in a block: the gas is charged on both.
LEMMA ChargedPair ==
  ASSUME NEW s, NEW p, Pair(s, p), NEW c \in Contract, s.contracts[c].Status \in Live,
         NEW t, Effect(s, t, c), t.nonce <= MaxWasmNonce,
         NEW n \in Nat, n <= t.contracts[c].Balance,
         NEW i \in Seq(WasmCronJob), NEW j \in Seq(WasmCronJob)
  PROVE  LET d == diffWasmState(s, t, c)
             f == Charged(t, c, i, n)
             g == Charged(applyWasmStateDelta(p, c, d), c, j, n)
         IN  /\ Pair(f, g) /\ Stays(s, t, c) /\ Stays(t, f, c)
             /\ EscrowedBy(d) \in Int /\ Total(s) \in Int /\ Total(f) = Total(s) - EscrowedBy(d) - n
<1> DEFINE d == diffWasmState(s, t, c)
           q == applyWasmStateDelta(p, c, d)
           f == Charged(t, c, i, n)
           g == Charged(q, c, j, n)
<1>1. HostSound(s) /\ HostSound(p) /\ Same(s, p) /\ p.nonce = s.nonce /\ Ident(s, p)
  BY DEF Pair, Agreed
<1>2. p.contracts[c].Status \in Live
  BY <1>1, LivesOnBoth
<1>3. /\ HostSound(t) /\ HostSound(q) /\ Same(t, q) /\ q.nonce = t.nonce
      /\ Stays(s, t, c) /\ Stays(p, q, c)
      /\ EscrowedBy(d) \in Int /\ Total(s) \in Int /\ Total(t) = Total(s) - EscrowedBy(d)
  BY <1>1, <1>2, StepPair
<1> HIDE DEF d, q
<1>4. t.contracts[c].Status \in Live /\ q.contracts[c].Status \in Live /\ n <= q.contracts[c].Balance
  BY <1>3 DEF Stays, Same
<1>5. /\ HostSound(f) /\ Stays(t, f, c) /\ Total(f) = Total(t) - n /\ Total(t) \in Int
      /\ f.nonce = t.nonce /\ f.contracts[c].Balance = t.contracts[c].Balance - n
      /\ f.kv = t.kv /\ f.balance = t.balance /\ f.intents = t.intents
      /\ f.collections = t.collections /\ f.records = t.records
  BY <1>3, <1>4, ChargedSound
<1>6. /\ HostSound(g) /\ Stays(q, g, c)
      /\ g.nonce = q.nonce /\ g.contracts[c].Balance = q.contracts[c].Balance - n
      /\ g.kv = q.kv /\ g.balance = q.balance /\ g.intents = q.intents
      /\ g.collections = q.collections /\ g.records = q.records
  BY <1>3, <1>4, ChargedSound
<1> HIDE DEF f, g
<1>7. Same(f, g)
  <2>1. \A x \in Contract : g.contracts[x].Balance = f.contracts[x].Balance
    BY <1>3, <1>5, <1>6 DEF Same, Stays, OthersKept
  <2>2. g.codes = f.codes
    BY <1>3, <1>5, <1>6 DEF Same, Stays
  <2> QED
    BY <1>3, <1>5, <1>6, <2>1, <2>2 DEF Same
<1>8. Ident(f, g)
  <2>1. Ident(t, q)
    BY <1>1, <1>3, IdentStays
  <2> QED
    BY <1>5, <1>6, <2>1, IdentStays
<1>9. Pair(f, g)
  BY <1>3, <1>5, <1>6, <1>7, <1>8 DEF Pair, Agreed
<1>10. Total(f) = Total(s) - EscrowedBy(d) - n
  BY <1>3, <1>5
<1> QED
  BY <1>3, <1>5, <1>9, <1>10 DEF d, q, f, g

\* A contract goes from both.
LEMMA DestroyPair ==
  ASSUME NEW s, NEW p, Pair(s, p), NEW u \in User, NEW c \in Contract, s.contracts[c].Status \in Live,
         s.balance[u] >= Fee
  PROVE  LET f == applyDestroyContract(s, u, c)
             g == applyDestroyContract(p, u, c)
         IN  Pair(f, g) /\ Total(s) \in Int /\ Total(f) = Total(s) - Fee
<1> DEFINE f == applyDestroyContract(s, u, c)
           g == applyDestroyContract(p, u, c)
           h == s.contracts[c].CodeHash
           i == p.contracts[c].CodeHash
<1>1. HostSound(s) /\ HostSound(p) /\ Same(s, p) /\ p.nonce = s.nonce /\ Ident(s, p)
  BY DEF Pair, Agreed
<1>2. p.contracts[c].Status \in Live /\ p.balance[u] >= Fee
  BY <1>1, LivesOnBoth DEF Same
<1>3. /\ HostSound(f) /\ Total(f) = Total(s) - Fee /\ Total(s) \in Int
      /\ f.codes = [s.codes EXCEPT ![h] = s.codes[h] - 1]
      /\ f.balance = [s.balance EXCEPT ![u] = s.balance[u] - Fee + s.contracts[c].Balance]
      /\ f.kv = [s.kv EXCEPT ![c] = NoKeys]
      /\ \A d \in Contract \ {c} : f.contracts[d] = s.contracts[d]
      /\ f.contracts[c].Balance = 0 /\ f.contracts[c].Status = "destroyed"
      /\ f.contracts[c].CodeHash = h
      /\ f.nonce = s.nonce /\ f.intents = s.intents
      /\ f.collections = s.collections /\ f.records = s.records
  <2>1. DestroyedAs(s, f, u, c)
    BY <1>1, DestroyedSound
  <2> HIDE DEF f
  <2> QED
    BY <2>1 DEF DestroyedAs
<1>4. /\ HostSound(g)
      /\ g.codes = [p.codes EXCEPT ![i] = p.codes[i] - 1]
      /\ g.balance = [p.balance EXCEPT ![u] = p.balance[u] - Fee + p.contracts[c].Balance]
      /\ g.kv = [p.kv EXCEPT ![c] = NoKeys]
      /\ \A d \in Contract \ {c} : g.contracts[d] = p.contracts[d]
      /\ g.contracts[c].Balance = 0 /\ g.contracts[c].Status = "destroyed"
      /\ g.contracts[c].CodeHash = i
      /\ g.nonce = p.nonce /\ g.intents = p.intents
      /\ g.collections = p.collections /\ g.records = p.records
  <2>1. DestroyedAs(p, g, u, c)
    BY <1>1, <1>2, DestroyedSound
  <2> HIDE DEF g
  <2> QED
    BY <2>1 DEF DestroyedAs
<1>5. h = i /\ p.contracts[c].Balance = s.contracts[c].Balance /\ p.codes = s.codes /\ p.balance = s.balance
      /\ p.kv = s.kv
  BY <1>1 DEF Ident, Same
<1> HIDE DEF f, g, h, i
<1>6. f.codes = g.codes /\ f.balance = g.balance /\ f.kv = g.kv
  BY <1>3, <1>4, <1>5
<1>7. \A d \in Contract : g.contracts[d].Balance = f.contracts[d].Balance
  BY <1>1, <1>3, <1>4 DEF Same
<1>8. Same(f, g)
  BY <1>1, <1>3, <1>4, <1>6, <1>7 DEF Same
<1>9. Ident(f, g)
  BY <1>1, <1>3, <1>4, <1>5 DEF Ident
<1>10. Pair(f, g)
  BY <1>1, <1>3, <1>4, <1>8, <1>9 DEF Pair, Agreed
<1> QED
  BY <1>3, <1>10 DEF f, g

-----------------------------------------------------------------------------
(***************************************************************************)
(* An execution                                                            *)
(***************************************************************************)
RanAs(s, r, c) == Effect(s, r.state, c) /\ r.gas \in Nat /\ r.ok \in BOOLEAN

LEMMA CallEffect ==
  ASSUME NEW s, Orderly(s), NEW c \in Contract, NEW o \in Outcome, NEW compiled, height \in Nat
  PROVE  RanAs(s, CallExport(s, c, o, compiled), c)
<1> DEFINE r == CallExport(s, c, o, compiled)
           t == Execute(s, c, o[1], blockTime, height)
<1>1. o[1] \in Program /\ o[2] \in BOOLEAN
  BY DEF Outcome
<1>2. Len(o[1]) \in Nat
  BY <1>1, ContractsAssumption
<1>3. CASE s.contracts[c].CodeHash \in compiled
  <2>1. r = [state |-> t, ok |-> o[2], gas |-> Len(o[1])]
    BY <1>3 DEF CallExport
  <2>2. Effect(s, t, c)
    BY <1>1, ExecuteEffect DEF blockTime
  <2> HIDE DEF r, t
  <2>3. RanAs(s, r, c)
    BY <1>1, <1>2, <2>1, <2>2 DEF RanAs
  <2> QED
    BY <2>3 DEF r
<1>4. CASE ~(s.contracts[c].CodeHash \in compiled)
  <2>1. r = [state |-> s, ok |-> FALSE, gas |-> 0]
    BY <1>4 DEF CallExport
  <2>2. Effect(s, s, c)
    BY EffectNone
  <2> HIDE DEF r
  <2>3. RanAs(s, r, c)
    BY <2>1, <2>2 DEF RanAs
  <2> QED
    BY <2>3 DEF r
<1> QED
  BY <1>3, <1>4

LEMMA ChargeMeans ==
  ASSUME NEW s, s \in HostState, NEW c \in Contract, NEW gas \in Nat
  PROVE  Charge(gas, s, c) \in Nat /\ Charge(gas, s, c) <= s.contracts[c].Balance
<1> DEFINE m == s.contracts[c].Balance
<1>1. m \in Nat
  BY DEF HostState, WasmContract
<1> HIDE DEF m
<1>2. \E x \in {gas, m} : \A y \in {gas, m} : x <= y
  BY <1>1
<1>3. Min({gas, m}) \in {gas, m} /\ \A y \in {gas, m} : Min({gas, m}) <= y
  BY <1>2 DEF Min
<1> QED
  BY <1>1, <1>3 DEF Charge, m

LEMMA AfterRunJob ==
  ASSUME NEW job \in WasmCronJob, NEW ok \in BOOLEAN, height \in Nat
  PROVE  AfterRun(job, ok) \in WasmCronJob
<1> DEFINE fails == IF ok THEN 0 ELSE job.FailureCount + 1
           on == IF fails >= WasmCronAutoDisable THEN FALSE ELSE job.Enabled
           due == blockTime + Interval
<1>1. fails \in Nat /\ on \in BOOLEAN /\ due \in Nat
  <2>1. job.FailureCount \in Nat /\ job.Enabled \in BOOLEAN
    BY DEF WasmCronJob
  <2>2. Interval \in Nat
    BY WasmHostAssumption
  <2>3. fails \in Nat /\ due \in Nat
    BY <2>1, <2>2 DEF blockTime
  <2>4. on \in {FALSE, job.Enabled}
    BY Zenon
  <2> QED
    BY <2>1, <2>3, <2>4
<1>2. AfterRun(job, ok) = [job EXCEPT !.FailureCount = fails, !.Enabled = on, !.NextDueAt = due]
  BY DEF AfterRun
<1> HIDE DEF fails, on, due
<1> QED
  BY <1>1, <1>2 DEF WasmCronJob

\* A difference applied before or after the nonce is used.
LEMMA ApplyLater ==
  ASSUME NEW p \in HostState, NEW c \in Contract, NEW d, d.NonceDelta \in Int
  PROVE  LET q == applyWasmStateDelta(p, c, d)
             p1 == [p EXCEPT !.nonce = @ + 1]
             q1 == applyWasmStateDelta(p1, c, d)
         IN  q1 = [q EXCEPT !.nonce = @ + 1]
<1> DEFINE p1 == [p EXCEPT !.nonce = @ + 1]
           q == applyWasmStateDelta(p, c, d)
           q1 == applyWasmStateDelta(p1, c, d)
           n == p.nonce
           K == [p.kv EXCEPT ![c] = appliedKV(@, d)]
           C == [p.contracts EXCEPT ![c].Balance = NotBelowZero(@ + d.ContractBalance)]
           B == [a \in Account |-> IF a \in DOMAIN d.AccountDeltas
                                   THEN NotBelowZero(p.balance[a] + d.AccountDeltas[a]) ELSE p.balance[a]]
           L == p.pending \o d.PendingEvents
           S == [p.subs EXCEPT ![c] = IF d.Subscriptions = None THEN @ ELSE d.Subscriptions]
           J == [p.crons EXCEPT ![c] = IF d.CronJobs = None THEN @ ELSE d.CronJobs]
           I == p.intents \cup d.NewIntents
           E == {appliedEscrow(e, d) : e \in p.escrows}
           O == p.collections \cup d.NewCollections
           R == p.records \cup d.NewRecords
           Ap(x, k) == [x EXCEPT !.kv = K, !.contracts = C, !.balance = B, !.pending = L, !.subs = S,
                 !.crons = J, !.nonce = k, !.intents = I, !.escrows = E, !.collections = O, !.records = R]
<1>1. q = Ap(p, n + d.NonceDelta)
  BY DEF applyWasmStateDelta, HostState
<1>2. /\ p1.kv = p.kv /\ p1.contracts = p.contracts /\ p1.balance = p.balance /\ p1.pending = p.pending
      /\ p1.subs = p.subs /\ p1.crons = p.crons /\ p1.nonce = n + 1 /\ p1.intents = p.intents
      /\ p1.escrows = p.escrows /\ p1.collections = p.collections /\ p1.records = p.records
  BY DEF HostState
<1>3. q1 = Ap(p1, n + 1 + d.NonceDelta)
  BY <1>2 DEF applyWasmStateDelta
<1>4. n \in Nat
  BY DEF HostState
<1>5. n + 1 + d.NonceDelta = n + d.NonceDelta + 1
  BY <1>4
<1> HIDE DEF K, C, B, L, S, J, I, E, O, R
<1>6. Ap(p1, n + 1 + d.NonceDelta) = [Ap(p, n + d.NonceDelta) EXCEPT !.nonce = n + d.NonceDelta + 1]
  BY <1>5 DEF HostState
<1>7. Ap(p, n + d.NonceDelta).nonce = n + d.NonceDelta
  BY DEF HostState
<1> HIDE DEF q, q1, Ap, p1
<1> QED
  BY <1>1, <1>3, <1>6, <1>7 DEF q, q1, p1

-----------------------------------------------------------------------------
(***************************************************************************)
(* A deployment                                                            *)
(***************************************************************************)
LEMMA DeployedMeans ==
  ASSUME NEW s \in HostState, NEW u \in User, NEW c \in Contract, NEW h \in Code, NEW fund \in Nat,
         Begun(s, u, c, h, fund) \in HostState
  PROVE  /\ Deployed(s, u, c, h, fund) = [Begun(s, u, c, h, fund) EXCEPT !.nonce = s.nonce]
         /\ Deployed(s, u, c, h, fund) \in HostState
<1> DEFINE D == Deployed(s, u, c, h, fund)
           b == Begun(s, u, c, h, fund)
           r == Pay(s, u, Fee + fund)
           B == [r.balance EXCEPT ![c] = @ + fund]
           O == [r.codes EXCEPT ![h] = @ + 1]
           C == [r.contracts EXCEPT ![c] = [Status |-> "active", Balance |-> fund, CodeHash |-> h, Admin |-> u]]
           K == [r.kv EXCEPT ![c] = NoKeys]
           x == [s.balance EXCEPT ![u] = @ - (Fee + fund)]
<1>1. D = [r EXCEPT !.balance = B, !.codes = O, !.contracts = C, !.kv = K]
  BY DEF Deployed
<1>2. r = [s EXCEPT !.balance = x]
  BY DEF Pay
<1>3. b = [D EXCEPT !.nonce = D.nonce + 1]
  BY DEF Begun
<1> HIDE DEF D, b, r, B, O, C, K, x
<1>4. D = [s EXCEPT !.balance = B, !.codes = O, !.contracts = C, !.kv = K]
  BY <1>1, <1>2 DEF HostState
<1>5. D.nonce = s.nonce /\ s.nonce \in Nat
  BY <1>4 DEF HostState
<1>6. D = [b EXCEPT !.nonce = s.nonce]
  BY <1>3, <1>4, <1>5 DEF HostState
<1>7. b \in HostState
  BY DEF b
<1>8. D \in HostState
  BY <1>5, <1>6, <1>7 DEF HostState
<1> QED
  BY <1>6, <1>8 DEF D, b

LEMMA RegisteredMeans ==
  ASSUME NEW s \in HostState, NEW c \in Contract, NEW v \in Live, NEW methods \in CronSpec, height \in Nat
  PROVE  \E jobs \in Seq(WasmCronJob) :
           Register([s EXCEPT !.contracts[c].Status = v], c, methods) = Enlisted(s, c, v, jobs)
<1> DEFINE m == [s EXCEPT !.contracts[c].Status = v]
           C == [s.contracts EXCEPT ![c].Status = v]
<1>1. m = [s EXCEPT !.contracts = C] /\ C \in [Contract -> WasmContract]
  BY DEF HostState, WasmContract, Live
<1> HIDE DEF C
<1>2. m \in HostState
  BY <1>1 DEF HostState
<1>3. PICK jobs \in Seq(WasmCronJob) : Register(m, c, methods) = [m EXCEPT !.crons[c] = jobs]
  BY <1>2, RegisterMeans DEF blockTime
<1>4. [m EXCEPT !.crons[c] = jobs] = Enlisted(s, c, v, jobs)
  BY DEF Enlisted
<1> HIDE DEF m
<1>5. Register(m, c, methods) = Enlisted(s, c, v, jobs)
  BY <1>3, <1>4
<1> QED
  BY <1>5 DEF m

\* The nonce is used after the jobs are registered on one node, before on the other.
LEMMA RegisteredLater ==
  ASSUME NEW q \in HostState, NEW c \in Contract, q.contracts[c].Status \in Live,
         NEW methods \in CronSpec, height \in Nat
  PROVE  \E jobs \in Seq(WasmCronJob) :
           [Register(q, c, methods) EXCEPT !.nonce = @ + 1]
             = Enlisted([q EXCEPT !.nonce = @ + 1], c, q.contracts[c].Status, jobs)
<1>1. PICK jobs \in Seq(WasmCronJob) : Register(q, c, methods) = [q EXCEPT !.crons[c] = jobs]
  BY RegisterMeans DEF blockTime
<1> DEFINE r == Register(q, c, methods)
           J == [q.crons EXCEPT ![c] = jobs]
           C == [q.contracts EXCEPT ![c].Status = q.contracts[c].Status]
           a == [q EXCEPT !.nonce = q.nonce + 1]
<1>2. r = [q EXCEPT !.crons = J]
  BY <1>1
<1>3. C = q.contracts
  <2>1. q.contracts[c] = [q.contracts[c] EXCEPT !.Status = q.contracts[c].Status]
    BY DEF HostState, WasmContract
  <2> QED
    BY <2>1 DEF HostState
<1>4. a.crons = q.crons /\ a.contracts = q.contracts
  BY DEF HostState
<1>5. Enlisted(a, c, q.contracts[c].Status, jobs) = [a EXCEPT !.contracts = C, !.crons = J]
  BY <1>4 DEF Enlisted
<1> HIDE DEF C, J, r
<1>6. [a EXCEPT !.contracts = C, !.crons = J] = [q EXCEPT !.crons = J, !.nonce = q.nonce + 1]
  BY <1>3 DEF HostState
<1>7. [r EXCEPT !.nonce = r.nonce + 1] = [q EXCEPT !.crons = J, !.nonce = q.nonce + 1]
  BY <1>2 DEF HostState
<1> HIDE DEF a
<1>8. [r EXCEPT !.nonce = r.nonce + 1] = Enlisted(a, c, q.contracts[c].Status, jobs)
  BY <1>5, <1>6, <1>7
<1> QED
  BY <1>8 DEF r, a

\* Both nodes begin a deployment alike.
LEMMA BegunPair ==
  ASSUME NEW s, NEW p, Pair(s, p), NEW u \in User, NEW c \in Contract, c[2] = s.nonce,
         s.nonce < MaxWasmNonce, NEW h \in Code, NEW fund \in Nat, s.balance[u] >= Fee + fund
  PROVE  LET a == Begun(s, u, c, h, fund)
             b == Begun(p, u, c, h, fund)
         IN  /\ Pair(a, b) /\ Total(a) = Total(s) - Fee + fund /\ Total(s) \in Int
             /\ a.contracts[c].Status \in Live /\ b.contracts[c].Status \in Live
             /\ b.nonce = p.nonce + 1
<1> DEFINE a == Begun(s, u, c, h, fund)
           b == Begun(p, u, c, h, fund)
<1>1. HostSound(s) /\ HostSound(p) /\ Same(s, p) /\ p.nonce = s.nonce /\ Ident(s, p)
  BY DEF Pair, Agreed
<1>2. p.balance = s.balance /\ p.balance[u] >= Fee + fund /\ c[2] = p.nonce /\ p.nonce < MaxWasmNonce
  BY <1>1 DEF Same
<1>3. /\ HostSound(a) /\ OthersKept(s, a, c) /\ a.contracts[c].Status = "active"
      /\ a.contracts[c].CodeHash = h /\ Total(a) = Total(s) - Fee + fund /\ Total(s) \in Int
  BY <1>1, BegunSound
<1>4. /\ HostSound(b) /\ OthersKept(p, b, c) /\ b.contracts[c].Status = "active"
      /\ b.contracts[c].CodeHash = h
  BY <1>1, <1>2, BegunSound
<1>5. s \in HostState /\ p \in HostState
  BY <1>1 DEF HostSound, Orderly
<1>6. BegunAs(s, a, u, c, h, fund) /\ BegunAs(p, b, u, c, h, fund)
  BY <1>5, BegunFields
<1> HIDE DEF a, b
<1>7. a.balance = b.balance /\ a.kv = b.kv /\ a.codes = b.codes /\ a.nonce = b.nonce /\ b.nonce = p.nonce + 1
      /\ a.intents = b.intents /\ a.collections = b.collections /\ a.records = b.records
  BY <1>1, <1>6 DEF BegunAs, Same
<1>8. a.contracts[c].Balance = fund /\ b.contracts[c].Balance = fund
  BY <1>5, <1>6 DEF BegunAs, HostState
<1>9. \A x \in Contract : b.contracts[x].Balance = a.contracts[x].Balance
  BY <1>1, <1>3, <1>4, <1>8 DEF OthersKept, Same
<1>10. Ident(a, b)
  BY <1>1, <1>3, <1>4 DEF OthersKept, Ident
<1>11. Pair(a, b)
  BY <1>3, <1>4, <1>7, <1>9, <1>10 DEF Pair, Agreed, Same
<1> QED
  BY <1>3, <1>4, <1>7, <1>11 DEF a, b, Live

LEMMA EnlistedPair ==
  ASSUME NEW s, NEW p, Pair(s, p), NEW c \in Contract,
         s.contracts[c].Status \in Live, p.contracts[c].Status \in Live,
         NEW v \in Live, NEW w \in Live, NEW i \in Seq(WasmCronJob), NEW j \in Seq(WasmCronJob)
  PROVE  /\ Pair(Enlisted(s, c, v, i), Enlisted(p, c, w, j))
         /\ Total(Enlisted(s, c, v, i)) = Total(s)
<1> DEFINE a == Enlisted(s, c, v, i)
           b == Enlisted(p, c, w, j)
<1>1. HostSound(s) /\ HostSound(p) /\ Same(s, p) /\ p.nonce = s.nonce /\ Ident(s, p)
  BY DEF Pair, Agreed
<1>2. HostSound(a) /\ Stays(s, a, c) /\ Total(a) = Total(s) /\ a.nonce = s.nonce /\ Same(s, a)
  BY <1>1, EnlistedSound
<1>3. HostSound(b) /\ Stays(p, b, c) /\ b.nonce = p.nonce /\ Same(p, b)
  BY <1>1, EnlistedSound
<1> HIDE DEF a, b
<1>4. Ident(a, b)
  BY <1>1, <1>2, <1>3, IdentStays
<1>5. Same(a, b)
  BY <1>1, <1>2, <1>3 DEF Same
<1>6. Pair(a, b)
  BY <1>1, <1>2, <1>3, <1>4, <1>5 DEF Pair, Agreed
<1> QED
  BY <1>2, <1>6 DEF a, b

\* The node marks a failed deployment, the replica does not.
Marked(t, c, ok) == IF ok THEN t ELSE [t EXCEPT !.contracts[c].Status = "init_failed"]

LEMMA DeployPair ==
  ASSUME NEW s, NEW p, Pair(s, p), NEW u \in User, NEW c \in Contract, c[2] = s.nonce,
         s.nonce < MaxWasmNonce, NEW h \in Code, NEW fund \in Nat, s.balance[u] >= Fee + fund,
         NEW t, Effect(Begun(s, u, c, h, fund), t, c), t.nonce <= MaxWasmNonce,
         NEW ok \in BOOLEAN, NEW methods \in CronSpec, height \in Nat
  PROVE  LET d == diffWasmState(Begun(s, u, c, h, fund), t, c)
             f == Register(Marked(t, c, ok), c, methods)
             g == applyDeployContract(p, u, c, h, fund, methods, d)
         IN  /\ Pair(f, g)
             /\ EscrowedBy(d) \in Int /\ Total(s) \in Int
             /\ Total(f) = Total(s) - Fee + fund - EscrowedBy(d)
<1> DEFINE a == Begun(s, u, c, h, fund)
           b == Begun(p, u, c, h, fund)
           d == diffWasmState(a, t, c)
           q == applyWasmStateDelta(b, c, d)
           p0 == Deployed(p, u, c, h, fund)
           q0 == applyWasmStateDelta(p0, c, d)
           f == Register(Marked(t, c, ok), c, methods)
           g == applyDeployContract(p, u, c, h, fund, methods, d)
<1>1. /\ Pair(a, b) /\ Total(a) = Total(s) - Fee + fund /\ Total(s) \in Int
      /\ a.contracts[c].Status \in Live /\ b.contracts[c].Status \in Live
      /\ b.nonce = p.nonce + 1
  BY BegunPair
<1>2. HostSound(p) /\ p \in HostState /\ p.nonce \in Nat
  BY DEF Pair, HostSound, Orderly, HostState
<1>3. HostSound(a) /\ HostSound(b) /\ Same(a, b) /\ b.nonce = a.nonce /\ Ident(a, b)
  BY <1>1 DEF Pair, Agreed
<1>4. Orderly(a) /\ Orderly(b) /\ b \in HostState /\ IsFiniteSet(b.escrows) /\ Unique(b.escrows)
  BY <1>3 DEF HostSound, Orderly
<1>5. p0 = [b EXCEPT !.nonce = p.nonce] /\ p0 \in HostState
  BY <1>2, <1>4, DeployedMeans
<1>6. b = [p0 EXCEPT !.nonce = p0.nonce + 1]
  BY DEF Begun
<1>7. Effect(a, t, c)
  OBVIOUS
<1> HIDE DEF a, b, p0
<1>8. Same(a, p0) /\ IsFiniteSet(p0.escrows) /\ Unique(p0.escrows)
  BY <1>3, <1>4, <1>5 DEF Same, HostState
<1>9. /\ HostSound(t) /\ HostSound(q) /\ Same(t, q) /\ q.nonce = t.nonce
      /\ Stays(a, t, c) /\ Stays(b, q, c)
      /\ EscrowedBy(d) \in Int /\ Total(t) = Total(a) - EscrowedBy(d)
  BY <1>1, <1>3, <1>7, StepPair
<1>10. q0 \in HostState
  <2>1. Replayed(a, t, c, p0, q0)
    BY <1>4, <1>5, <1>7, <1>8, Applied
  <2> HIDE DEF q0
  <2> QED
    BY <2>1 DEF Replayed
<1>11. d.NonceDelta \in Int
  <2>1. d.NonceDelta = t.nonce - a.nonce
    BY DEF diffWasmState
  <2>2. t.nonce \in Nat /\ a.nonce \in Nat
    BY <1>3, <1>9 DEF HostSound, Orderly, HostState
  <2> QED
    BY <2>1, <2>2
<1> HIDE DEF d
<1>12. q = [q0 EXCEPT !.nonce = q0.nonce + 1]
  <2>1. applyWasmStateDelta([p0 EXCEPT !.nonce = p0.nonce + 1], c, d)
          = [applyWasmStateDelta(p0, c, d) EXCEPT !.nonce = applyWasmStateDelta(p0, c, d).nonce + 1]
    BY <1>5, <1>11, ApplyLater
  <2> QED
    BY <1>6, <2>1
<1>13. g = [Register(q0, c, methods) EXCEPT !.nonce = @ + 1]
  BY DEF applyDeployContract, p0
<1> HIDE DEF q, q0
<1>14. q.contracts = q0.contracts
  BY <1>10, <1>12 DEF HostState
<1>15. t.contracts[c].Status \in Live /\ q.contracts[c].Status \in Live
  BY <1>9 DEF Stays
<1>16. PICK j \in Seq(WasmCronJob) : g = Enlisted(q, c, q.contracts[c].Status, j)
  BY <1>10, <1>12, <1>13, <1>14, <1>15, RegisteredLater
<1>17. \E v \in Live : Marked(t, c, ok) = [t EXCEPT !.contracts[c].Status = v]
  <2>1. t \in HostState
    BY <1>9 DEF HostSound, Orderly
  <2>2. [t EXCEPT !.contracts[c].Status = t.contracts[c].Status] = t
    BY <2>1 DEF HostState, WasmContract
  <2>3. CASE ok
    BY <1>15, <2>2, <2>3 DEF Marked
  <2>4. CASE ~ok
    BY <2>4 DEF Marked, Live
  <2> QED
    BY <2>3, <2>4
<1>18. PICK v \in Live : Marked(t, c, ok) = [t EXCEPT !.contracts[c].Status = v]
  BY <1>17
<1>19. PICK i \in Seq(WasmCronJob) : f = Enlisted(t, c, v, i)
  <2>1. t \in HostState
    BY <1>9 DEF HostSound, Orderly
  <2>2. \E i \in Seq(WasmCronJob) :
          Register([t EXCEPT !.contracts[c].Status = v], c, methods) = Enlisted(t, c, v, i)
    BY <2>1, RegisteredMeans
  <2> QED
    BY <1>18, <2>2
<1> HIDE DEF f, g
<1>20. Pair(t, q)
  <2>1. Ident(t, q)
    BY <1>3, <1>9, IdentStays
  <2> QED
    BY <1>9, <2>1 DEF Pair, Agreed
<1>21. Pair(f, g) /\ Total(f) = Total(t)
  BY <1>15, <1>16, <1>19, <1>20, EnlistedPair
<1>22. Total(f) = Total(s) - Fee + fund - EscrowedBy(d)
  BY <1>1, <1>9, <1>21, ContractsAssumption
<1> QED
  BY <1>1, <1>9, <1>21, <1>22 DEF a, d, f, g

-----------------------------------------------------------------------------
(***************************************************************************)
(* An execution in a block                                                 *)
(***************************************************************************)
LEMMA CronMeans ==
  ASSUME NEW p, NEW c \in Contract, NEW d, applyWasmStateDelta(p, c, d) \in HostState,
         NEW job, NEW ok \in BOOLEAN, NEW n \in Nat,
         n <= applyWasmStateDelta(p, c, d).contracts[c].Balance, height \in Nat
  PROVE  \E j \in Seq(WasmCronJob) :
           applyWasmCronExec(p, c, job, ok, d, n) = Charged(applyWasmStateDelta(p, c, d), c, j, n)
<1> DEFINE q == applyWasmStateDelta(p, c, d)
           j == [k \in DOMAIN q.crons[c] |-> IF q.crons[c][k].MethodName = job.MethodName
                                             THEN AfterRun(q.crons[c][k], ok) ELSE q.crons[c][k]]
           b == IF q.contracts[c].Balance >= n THEN q.contracts[c].Balance - n
                ELSE q.contracts[c].Balance
<1>1. q.crons[c] \in Seq(WasmCronJob) /\ q.contracts[c].Balance \in Nat
  BY DEF HostState, WasmContract
<1>2. j \in Seq(WasmCronJob)
  <2> DEFINE m == Len(q.crons[c])
  <2>1. m \in Nat /\ DOMAIN q.crons[c] = 1..m /\ \A k \in 1..m : q.crons[c][k] \in WasmCronJob
    BY <1>1
  <2>2. \A k \in 1..m : AfterRun(q.crons[c][k], ok) \in WasmCronJob
    BY <2>1, AfterRunJob
  <2> HIDE DEF m
  <2>3. j \in [1..m -> WasmCronJob]
    BY <2>1, <2>2
  <2> HIDE DEF j
  <2> QED
    BY <2>1, <2>3
<1>3. b = q.contracts[c].Balance - n
  BY <1>1
<1>4. applyWasmCronExec(p, c, job, ok, d, n) = [q EXCEPT !.contracts[c].Balance = b, !.crons[c] = j]
  BY DEF applyWasmCronExec
<1> HIDE DEF b, j
<1>5. [q EXCEPT !.contracts[c].Balance = b, !.crons[c] = j] = Charged(q, c, j, n)
  BY <1>3 DEF Charged, HostState
<1>6. applyWasmCronExec(p, c, job, ok, d, n) = Charged(q, c, j, n)
  BY <1>4, <1>5
<1> QED
  BY <1>2, <1>6

LEMMA DeliveryMeans ==
  ASSUME NEW p, NEW c \in Contract, NEW d, applyWasmStateDelta(p, c, d) \in HostState, NEW n \in Nat,
         n <= applyWasmStateDelta(p, c, d).contracts[c].Balance
  PROVE  \E j \in Seq(WasmCronJob) :
           applyWasmEventDelivery(p, c, d, n) = Charged(applyWasmStateDelta(p, c, d), c, j, n)
<1> DEFINE q == applyWasmStateDelta(p, c, d)
           j == q.crons[c]
           J == [q.crons EXCEPT ![c] = j]
           b == IF q.contracts[c].Balance >= n THEN q.contracts[c].Balance - n
                ELSE q.contracts[c].Balance
           C == [q.contracts EXCEPT ![c].Balance = b]
<1>1. j \in Seq(WasmCronJob) /\ q.contracts[c].Balance \in Nat
  BY DEF HostState, WasmContract
<1>2. b = q.contracts[c].Balance - n
  BY <1>1
<1>3. applyWasmEventDelivery(p, c, d, n) = [q EXCEPT !.contracts = C]
  BY DEF applyWasmEventDelivery
<1>4. J = q.crons
  BY DEF HostState
<1> HIDE DEF b, J
<1>5. Charged(q, c, j, n) = [q EXCEPT !.crons = J, !.contracts = C]
  BY <1>2 DEF Charged, HostState, J
<1> HIDE DEF C, j
<1>6. [q EXCEPT !.crons = J, !.contracts = C] = [q EXCEPT !.contracts = C]
  BY <1>4 DEF HostState
<1>7. applyWasmEventDelivery(p, c, d, n) = Charged(q, c, j, n)
  BY <1>3, <1>5, <1>6
<1> QED
  BY <1>1, <1>7

\* What a step keeps that only touches escrows or queued events.
KeptAs(s, r) ==
  /\ HostSound(r) /\ r.contracts = s.contracts /\ Same(s, r) /\ r.nonce = s.nonce /\ Total(r) = Total(s)

LEMMA QueueKept ==
  ASSUME NEW s, HostSound(s), NEW list \in Seq(WasmPendingEvent), Lively(list, s)
  PROVE  KeptAs(s, [s EXCEPT !.pending = list])
<1> DEFINE r == [s EXCEPT !.pending = list]
<1>1. s \in HostState
  BY DEF HostSound, Orderly
<1>2. /\ r.balance = s.balance /\ r.contracts = s.contracts /\ r.codes = s.codes /\ r.kv = s.kv
      /\ r.crons = s.crons /\ r.subs = s.subs /\ r.pending = list /\ r.nonce = s.nonce
      /\ r.intents = s.intents /\ r.escrows = s.escrows
      /\ r.collections = s.collections /\ r.records = s.records
  BY <1>1 DEF HostState
<1>3. r \in HostState
  BY <1>1 DEF HostState
<1> HIDE DEF r
<1>4. Orderly(r)
  BY <1>2, <1>3 DEF HostSound, Orderly
<1>5. HostSound(r)
  <2>1. Fresh(r) /\ Counted(r) /\ Clean(r)
    BY <1>2 DEF HostSound, Fresh, Counted, Running, Clean
  <2>2. Lively(r.pending, r) /\ r.nonce <= MaxWasmNonce
    BY <1>2 DEF HostSound, Lively
  <2> QED
    BY <1>4, <2>1, <2>2 DEF HostSound
<1>6. KeptAs(s, r)
  BY <1>2, <1>5 DEF KeptAs, Same, Total, Balances
<1> QED
  BY <1>6 DEF r

Reopened(s) ==
  [s EXCEPT !.escrows = {[ID |-> x.ID, User |-> x.User, LockedFee |-> x.LockedFee, Status |-> "none"] :
                           x \in {y \in s.intents : y.LockedFee > 0}}]

LEMMA ReopenedKept ==
  ASSUME NEW s, HostSound(s)
  PROVE  KeptAs(s, Reopened(s))
<1> DEFINE r == Reopened(s)
           E == {[ID |-> x.ID, User |-> x.User, LockedFee |-> x.LockedFee, Status |-> "none"] :
                   x \in {y \in s.intents : y.LockedFee > 0}}
<1>1. s \in HostState /\ Orderly(s)
  BY DEF HostSound, Orderly
<1>2. r = [s EXCEPT !.escrows = E]
  BY DEF Reopened
<1>3. /\ E \in SUBSET [ID: Nat, User: Contract, LockedFee: Nat, Status: {"none", "terminated"}]
      /\ Unique(E) /\ \A x \in E : x.ID < s.nonce
  BY <1>1 DEF Orderly, HostState, Unique
<1>4. IsFiniteSet(E)
  <2> DEFINE M == {y \in s.intents : y.LockedFee > 0}
             f == [x \in M |-> [ID |-> x.ID, User |-> x.User, LockedFee |-> x.LockedFee, Status |-> "none"]]
  <2>1. IsFiniteSet(M)
    BY <1>1, FS_Subset DEF Orderly
  <2>2. f \in Surjection(M, E)
    BY DEF Surjection
  <2> QED
    BY <2>1, <2>2, FS_Surjection
<1> HIDE DEF r, E
<1>5. /\ r.balance = s.balance /\ r.contracts = s.contracts /\ r.codes = s.codes /\ r.kv = s.kv
      /\ r.crons = s.crons /\ r.subs = s.subs /\ r.pending = s.pending /\ r.nonce = s.nonce
      /\ r.intents = s.intents /\ r.escrows = E
      /\ r.collections = s.collections /\ r.records = s.records
  BY <1>1, <1>2 DEF HostState
<1>6. r \in HostState
  BY <1>1, <1>2, <1>3 DEF HostState
<1>7. Orderly(r)
  BY <1>1, <1>3, <1>4, <1>5, <1>6 DEF Orderly
<1>8. HostSound(r)
  <2>1. Fresh(r) /\ Counted(r) /\ Clean(r)
    BY <1>5 DEF HostSound, Fresh, Counted, Running, Clean
  <2>2. Lively(r.pending, r) /\ r.nonce <= MaxWasmNonce
    BY <1>5 DEF HostSound, Lively
  <2> QED
    BY <1>7, <2>1, <2>2 DEF HostSound
<1>9. KeptAs(s, r)
  BY <1>5, <1>8 DEF KeptAs, Same, Total, Balances
<1> QED
  BY <1>9 DEF r

-----------------------------------------------------------------------------
(***************************************************************************)
(* The inductive invariant                                                 *)
(***************************************************************************)
\* Any two nodes are a pair; the tokens of every one are K.
Hosts(S, K) ==
  /\ S \in [Node -> HostState]
  /\ \A m, n \in Node : Pair(S[m], S[n])
  /\ \A n \in Node : Total(S[n]) = K

LEMMA PairBoth ==
  ASSUME NEW s, NEW p, Pair(s, p)
  PROVE  Pair(p, s) /\ Pair(s, s) /\ Pair(p, p) /\ Total(p) = Total(s)
         /\ s \in HostState /\ p \in HostState
<1>1. Same(s, p)
  BY DEF Pair, Agreed
<1>2. [c \in Contract |-> p.contracts[c].Balance] = [c \in Contract |-> s.contracts[c].Balance]
  BY <1>1 DEF Same
<1>3. Total(p) = Total(s)
  BY <1>1, <1>2 DEF Same, Total, Balances
<1>4. Pair(p, s) /\ Pair(s, s) /\ Pair(p, p)
  BY DEF Pair, Agreed, Same, Ident
<1>5. s \in HostState /\ p \in HostState
  BY DEF Pair, HostSound, Orderly
<1> QED
  BY <1>3, <1>4, <1>5

LEMMA TwoNodes ==
  ASSUME turn \in Node
  PROVE  Peer \in Node /\ Peer # turn /\ \A n \in Node : n = turn \/ n = Peer
<1>1. IsFiniteSet(Node) /\ Cardinality(Node) = 2
  BY ContractsAssumption
<1> DEFINE R == Node \ {turn}
<1>2. IsFiniteSet(R) /\ Cardinality(R) = 1
  BY <1>1, FS_RemoveElement
<1>3. PICK m : R = {m}
  BY <1>2, FS_Singleton
<1>4. m \in Node /\ m # turn /\ \A n \in Node : n = turn \/ n = m
  BY <1>3
<1>5. Peer \in Node /\ Peer # turn
  BY <1>4 DEF Peer
<1> QED
  BY <1>4, <1>5

\* A step of the node whose turn it is, replayed by the other.
LEMMA HostsPaired ==
  ASSUME NEW S, NEW K, Hosts(S, K), turn \in Node, NEW L,
         NEW f, NEW g, Pair(f, g), Total(f) = L
  PROVE  Hosts([S EXCEPT ![turn] = f, ![Peer] = g], L)
<1> DEFINE T == [S EXCEPT ![turn] = f, ![Peer] = g]
<1>1. Peer \in Node /\ Peer # turn /\ \A n \in Node : n = turn \/ n = Peer
  BY TwoNodes
<1>2. /\ Pair(g, f) /\ Pair(f, f) /\ Pair(g, g) /\ Total(g) = L
      /\ f \in HostState /\ g \in HostState
  BY PairBoth
<1>3. T[turn] = f /\ T[Peer] = g /\ T \in [Node -> HostState]
  BY <1>1, <1>2 DEF Hosts
<1> HIDE DEF T
<1>4. \A m, n \in Node : Pair(T[m], T[n])
  BY <1>1, <1>2, <1>3
<1>5. \A n \in Node : Total(T[n]) = L
  BY <1>1, <1>2, <1>3
<1>6. Hosts(T, L)
  BY <1>3, <1>4, <1>5 DEF Hosts
<1> QED
  BY <1>6 DEF T

LEMMA KeptPair ==
  ASSUME NEW s, NEW r, KeptAs(s, r), NEW p, Pair(s, p)
  PROVE  Pair(r, p)
BY DEF KeptAs, Pair, Agreed, Same, Ident

\* A step of one node that only touches its escrows or its queue.
LEMMA HostsKept ==
  ASSUME NEW S, NEW K, Hosts(S, K), NEW n \in Node, NEW r, KeptAs(S[n], r)
  PROVE  Hosts([S EXCEPT ![n] = r], K)
<1> DEFINE T == [S EXCEPT ![n] = r]
<1>1. r \in HostState /\ Total(r) = K
  BY DEF KeptAs, HostSound, Orderly, Hosts
<1>2. T \in [Node -> HostState] /\ T[n] = r /\ \A m \in Node \ {n} : T[m] = S[m]
  BY <1>1 DEF Hosts
<1> HIDE DEF T
<1>3. \A m \in Node : Pair(S[n], S[m])
  BY DEF Hosts
<1>4. \A m \in Node : Pair(r, S[m])
  BY <1>3, KeptPair
<1>5. \A m \in Node : Pair(S[m], r)
  BY <1>4, PairBoth
<1>6. Pair(r, r)
  BY <1>4, PairBoth
<1>7. \A m, k \in Node : Pair(T[m], T[k])
  <2> SUFFICES ASSUME NEW m \in Node, NEW k \in Node PROVE Pair(T[m], T[k])
    OBVIOUS
  <2>1. CASE m = n /\ k = n
    BY <1>2, <1>6, <2>1
  <2>2. CASE m = n /\ k # n
    BY <1>2, <1>4, <2>2
  <2>3. CASE m # n /\ k = n
    BY <1>2, <1>5, <2>3
  <2>4. CASE m # n /\ k # n
    BY <1>2, <2>4 DEF Hosts
  <2> QED
    BY <2>1, <2>2, <2>3, <2>4
<1>8. \A m \in Node : Total(T[m]) = K
  BY <1>1, <1>2 DEF Hosts
<1>9. Hosts(T, K)
  BY <1>2, <1>7, <1>8 DEF Hosts
<1> QED
  BY <1>9 DEF T

Pool == Cardinality(User) * Tokens

\* What is left on every node.
Left == Pool + doubled - gone

HostsInv == Hosts(st, Left)

PlainInv ==
  /\ gone \in Int /\ doubled \in Int /\ turn \in Node /\ height \in 0..MaxHeight /\ runs \in 0..MaxRuns
  /\ engine \in [Node -> {None} \cup SUBSET Code]

WorkSet ==
  [phase: {"requests", "cron", "events"}, todo: SUBSET Contract, contract: Contract \cup {None},
   jobs: Seq(WasmCronJob), i: Nat, events: Seq(WasmPendingEvent), waiting: SUBSET Contract,
   remaining: Seq(WasmPendingEvent)]

\* A contract whose jobs run lives, and so do those whose events are delivered.
WorkInv ==
  /\ work \in WorkSet
  /\ work.phase # "requests" => height < MaxHeight
  /\ work.phase = "cron" /\ work.contract # None => st[turn].contracts[work.contract].Status \in Live
  /\ work.phase = "events" => Lively(work.events, st[turn]) /\ Lively(work.remaining, st[turn])

ContractsInv == HostsInv /\ PlainInv /\ WorkInv

LEMMA PoolNat == Pool \in Nat
<1>1. Cardinality(User) \in Nat /\ Tokens \in Nat
  BY WasmHostAssumption, ContractsAssumption, FS_CardinalityType
<1> QED
  BY <1>1 DEF Pool

-----------------------------------------------------------------------------
(***************************************************************************)
(* Steps                                                                   *)
(***************************************************************************)
LEMMA NodesPair ==
  ASSUME HostsInv, PlainInv
  PROVE  /\ Peer \in Node /\ Peer # turn
         /\ Pair(st[turn], st[Peer]) /\ HostSound(st[turn]) /\ HostSound(st[Peer])
         /\ Total(st[turn]) = Left /\ Orderly(st[turn]) /\ st[turn] \in HostState
         /\ height \in Nat /\ Pool \in Nat
<1>1. Peer \in Node /\ Peer # turn
  BY TwoNodes DEF PlainInv
<1>2. Pair(st[turn], st[Peer]) /\ Total(st[turn]) = Left
  BY <1>1 DEF HostsInv, Hosts, PlainInv
<1>3. MaxHeight \in Nat
  BY ContractsAssumption
<1>4. height \in Nat
  BY <1>3 DEF PlainInv
<1>5. HostSound(st[turn]) /\ HostSound(st[Peer])
  BY <1>2 DEF Pair
<1> QED
  BY <1>1, <1>2, <1>4, <1>5, PoolNat DEF HostSound, Orderly

\* The engine of a node is made of codes.
LEMMA EngineCodes ==
  ASSUME PlainInv, NEW n \in Node
  PROVE  getWasmEngine(n) \in SUBSET Code
BY DEF PlainInv, getWasmEngine

LEMMA EngineKept ==
  ASSUME PlainInv, NEW compiled \in SUBSET Code
  PROVE  [engine EXCEPT ![turn] = compiled] \in [Node -> {None} \cup SUBSET Code]
BY DEF PlainInv

LEMMA DeployKeeps ==
  ASSUME ContractsInv, NEW u \in User, NEW h \in Code, NEW fund \in Fund, NEW methods \in CronSpec,
         NEW o \in Outcome, DeployContract(u, h, fund, methods, o)
  PROVE  ContractsInv'
<1> DEFINE s == st[turn]
           p == st[Peer]
           c == generateContractAddress(u, s.nonce)
           compiled == getWasmEngine(turn) \cup {h}
           before == Begun(s, u, c, h, fund)
           run == CallExport(before, c, o, compiled)
           t == run.state
           delta == diffWasmState(before, t, c)
           f == Register(Marked(t, c, run.ok), c, methods)
           g == applyDeployContract(p, u, c, h, fund, methods, delta)
<1>1. HostsInv /\ PlainInv /\ WorkInv
  BY DEF ContractsInv
<1>2. /\ work.phase = "requests" /\ s.nonce < MaxWasmNonce /\ Bounded(t)
      /\ s.balance[u] >= Fee + fund
      /\ engine' = [engine EXCEPT ![turn] = compiled]
      /\ st' = [st EXCEPT ![turn] = f, ![Peer] = g]
      /\ doubled' = doubled + fund
      /\ gone' = gone + Fee + EscrowedBy(delta)
      /\ runs' = runs + 1
      /\ UNCHANGED <<turn, work, height>>
  BY DEF DeployContract, Begun, Marked
<1>3. /\ Peer \in Node /\ Peer # turn /\ Pair(s, p) /\ HostSound(s) /\ Total(s) = Left
      /\ s \in HostState /\ height \in Nat /\ Pool \in Nat
  BY <1>1, NodesPair
<1>4. fund \in Nat /\ Fee \in Nat /\ MaxRuns \in Nat /\ MaxWasmNonce \in Nat
  BY ContractsAssumption, WasmHostAssumption
<1>5. s.nonce \in Nat
  BY <1>3 DEF HostState
<1>6. c \in Contract /\ c[2] = s.nonce
  BY <1>2, <1>4, <1>5 DEF Contract, generateContractAddress
<1> HIDE DEF s, p, c
<1>7. Orderly(before)
  BY <1>2, <1>3, <1>4, <1>6, BegunSound DEF HostSound
<1> HIDE DEF before
<1>8. Effect(before, t, c) /\ run.ok \in BOOLEAN
  <2>1. RanAs(before, run, c)
    BY <1>3, <1>6, <1>7, CallEffect
  <2> QED
    BY <2>1 DEF RanAs
<1> DEFINE ok == run.ok
<1> HIDE DEF run
<1>9. t.nonce <= MaxWasmNonce /\ runs < MaxRuns
  BY <1>2 DEF Bounded
<1>10. /\ Pair(f, g) /\ EscrowedBy(delta) \in Int /\ Total(s) \in Int
       /\ Total(f) = Total(s) - Fee + fund - EscrowedBy(delta)
  <2>1. Effect(Begun(s, u, c, h, fund), t, c)
    BY <1>8 DEF before
  <2> HIDE DEF t, ok
  <2> QED
    BY <1>2, <1>3, <1>4, <1>6, <1>8, <1>9, <2>1, DeployPair DEF before, ok
<1> HIDE DEF f, g, delta
<1>11. gone \in Int /\ doubled \in Int /\ turn \in Node /\ runs \in 0..MaxRuns
  BY <1>1 DEF PlainInv
<1>12. Total(f) = Left'
  BY <1>2, <1>3, <1>4, <1>10, <1>11 DEF Left, Pool
<1>13. Hosts(st', Left')
  BY <1>1, <1>2, <1>10, <1>11, <1>12, HostsPaired DEF HostsInv
<1>14. PlainInv'
  <2>1. compiled \in SUBSET Code
    BY <1>1, <1>11, EngineCodes
  <2> HIDE DEF compiled
  <2>2. engine' \in [Node -> {None} \cup SUBSET Code]
    BY <1>1, <1>2, <2>1, EngineKept
  <2>3. gone' \in Int /\ doubled' \in Int /\ runs' \in 0..MaxRuns
    BY <1>2, <1>4, <1>9, <1>10, <1>11
  <2> QED
    BY <1>1, <1>2, <2>2, <2>3 DEF PlainInv
<1>15. WorkInv'
  BY <1>1, <1>2 DEF WorkInv
<1> QED
  BY <1>13, <1>14, <1>15 DEF ContractsInv, HostsInv

LEMMA CallKeeps ==
  ASSUME ContractsInv, NEW u \in User, NEW c \in Contract, NEW fund \in Fund, NEW o \in Outcome,
         CallContract(u, c, fund, o)
  PROVE  ContractsInv'
<1> DEFINE s == st[turn]
           p == st[Peer]
           compiled == getWasmEngine(turn)
           before == Called(s, u, c, fund)
           run == CallExport(before, c, o, compiled)
           t == run.state
           delta == diffWasmState(before, t, c)
           g == applyWasmStateDelta(Called(p, u, c, fund), c, delta)
<1>1. HostsInv /\ PlainInv /\ WorkInv
  BY DEF ContractsInv
<1>2. /\ work.phase = "requests" /\ Active(s, c) /\ Bounded(t) /\ s.balance[u] >= Fee + fund
      /\ engine' = [engine EXCEPT ![turn] = compiled]
      /\ IF run.ok
         THEN /\ st' = [st EXCEPT ![turn] = t, ![Peer] = g]
              /\ gone' = gone + Fee + EscrowedBy(delta)
              /\ runs' = runs + 1
         ELSE UNCHANGED <<st, gone, runs>>
      /\ UNCHANGED <<turn, work, height, doubled>>
  BY DEF CallContract, Called, applyCallContract
<1>3. /\ Peer \in Node /\ Peer # turn /\ Pair(s, p) /\ HostSound(s) /\ Total(s) = Left
      /\ height \in Nat /\ Pool \in Nat
  BY <1>1, NodesPair
<1>4. fund \in Nat /\ Fee \in Nat /\ MaxRuns \in Nat
  BY ContractsAssumption
<1>5. s.contracts[c].Status \in Live
  BY <1>2 DEF Active, Live
<1> HIDE DEF s, p
<1>7. Orderly(before)
  BY <1>2, <1>3, <1>4, <1>5, CalledSound DEF HostSound
<1> HIDE DEF before
<1>8. Effect(before, t, c) /\ run.ok \in BOOLEAN
  <2>1. RanAs(before, run, c)
    BY <1>3, <1>7, CallEffect
  <2> QED
    BY <2>1 DEF RanAs
<1> HIDE DEF run
<1>9. t.nonce <= MaxWasmNonce /\ runs < MaxRuns
  BY <1>2 DEF Bounded
<1>10. /\ Pair(t, g) /\ EscrowedBy(delta) \in Int /\ Total(s) \in Int
       /\ Total(t) = Total(s) - Fee - EscrowedBy(delta)
  <2>1. Effect(Called(s, u, c, fund), t, c)
    BY <1>8 DEF before
  <2> HIDE DEF t
  <2> QED
    BY <1>2, <1>3, <1>4, <1>5, <1>9, <2>1, CallPair DEF before
<1> HIDE DEF t, g, delta
<1>11. gone \in Int /\ doubled \in Int /\ turn \in Node /\ runs \in 0..MaxRuns
  BY <1>1 DEF PlainInv
<1>12. Hosts(st', Left')
  <2>1. CASE run.ok
    <3>1. Total(t) = Left'
      BY <1>2, <1>3, <1>4, <1>10, <1>11, <2>1 DEF Left, Pool
    <3> QED
      BY <1>1, <1>2, <1>10, <1>11, <2>1, <3>1, HostsPaired DEF HostsInv
  <2>2. CASE ~run.ok
    BY <1>1, <1>2, <2>2 DEF HostsInv, Left, Pool
  <2> QED
    BY <2>1, <2>2
<1>13. PlainInv'
  <2>1. compiled \in SUBSET Code
    BY <1>1, <1>11, EngineCodes
  <2> HIDE DEF compiled
  <2>2. engine' \in [Node -> {None} \cup SUBSET Code]
    BY <1>1, <1>2, <2>1, EngineKept
  <2>3. gone' \in Int /\ runs' \in 0..MaxRuns
    BY <1>2, <1>4, <1>9, <1>10, <1>11
  <2> QED
    BY <1>1, <1>2, <2>2, <2>3 DEF PlainInv
<1>14. WorkInv'
  BY <1>1, <1>2 DEF WorkInv
<1> QED
  BY <1>12, <1>13, <1>14 DEF ContractsInv, HostsInv

LEMMA DestroyKeeps ==
  ASSUME ContractsInv, NEW u \in User, NEW c \in Contract, DestroyContract(u, c)
  PROVE  ContractsInv'
<1> DEFINE f(n) == applyDestroyContract(st[n], u, c)
<1>1. HostsInv /\ PlainInv /\ WorkInv
  BY DEF ContractsInv
<1>2. /\ work.phase = "requests" /\ Active(st[turn], c) /\ st[turn].balance[u] >= Fee
      /\ st' = [n \in Node |-> f(n)]
      /\ gone' = gone + Fee
      /\ UNCHANGED <<engine, turn, work, height, runs, doubled>>
  BY DEF DestroyContract
<1>3. Fee \in Nat /\ gone \in Int /\ doubled \in Int /\ turn \in Node /\ Pool \in Nat
  BY <1>1, ContractsAssumption, PoolNat DEF PlainInv
<1>4. \A n \in Node : st[n].contracts[c].Status \in Live /\ st[n].balance[u] >= Fee
  <2> SUFFICES ASSUME NEW n \in Node
               PROVE  st[n].contracts[c].Status \in Live /\ st[n].balance[u] >= Fee
    OBVIOUS
  <2>1. Pair(st[turn], st[n])
    BY <1>1, <1>3 DEF HostsInv, Hosts
  <2>2. st[turn].contracts[c].Status \in Live
    BY <1>2 DEF Active, Live
  <2>3. st[n].contracts[c].Status \in Live
    BY <2>1, <2>2, LivesOnBoth DEF Pair, Agreed
  <2> QED
    BY <1>2, <2>1, <2>3 DEF Pair, Agreed, Same
<1>5. \A m, n \in Node : Pair(f(m), f(n)) /\ Total(st[m]) \in Int /\ Total(f(m)) = Total(st[m]) - Fee
  <2> SUFFICES ASSUME NEW m \in Node, NEW n \in Node
               PROVE  Pair(f(m), f(n)) /\ Total(st[m]) \in Int /\ Total(f(m)) = Total(st[m]) - Fee
    OBVIOUS
  <2>1. Pair(st[m], st[n])
    BY <1>1 DEF HostsInv, Hosts
  <2> QED
    BY <1>4, <2>1, DestroyPair
<1>6. \A n \in Node : f(n) \in HostState
  BY <1>5, PairBoth
<1> HIDE DEF f
<1>7. \A n \in Node : Total(f(n)) = Left'
  BY <1>1, <1>2, <1>3, <1>5 DEF HostsInv, Hosts, Left, Pool
<1>8. \A n \in Node : st'[n] = f(n)
  BY <1>2
<1>9. Hosts(st', Left')
  BY <1>2, <1>5, <1>6, <1>7, <1>8 DEF Hosts
<1>10. PlainInv'
  BY <1>1, <1>2, <1>3 DEF PlainInv
<1>11. WorkInv'
  BY <1>1, <1>2 DEF WorkInv
<1> QED
  BY <1>9, <1>10, <1>11 DEF ContractsInv, HostsInv

LEMMA RestartKeeps ==
  ASSUME ContractsInv, NEW n \in Node, Restart(n)
  PROVE  ContractsInv'
<1>1. HostsInv /\ PlainInv /\ WorkInv
  BY DEF ContractsInv
<1>2. /\ work.phase = "requests" /\ engine' = [engine EXCEPT ![n] = None]
      /\ st' = [st EXCEPT ![n] = Reopened(st[n])]
      /\ UNCHANGED <<turn, work, height, runs, doubled, gone>>
  BY DEF Restart, Reopened
<1>3. HostSound(st[n])
  BY <1>1 DEF HostsInv, Hosts, Pair
<1>4. KeptAs(st[n], Reopened(st[n]))
  BY <1>3, ReopenedKept
<1>5. Hosts(st', Left)
  BY <1>1, <1>2, <1>4, HostsKept DEF HostsInv
<1>6. HostsInv'
  BY <1>2, <1>5 DEF HostsInv, Left, Pool
<1>7. PlainInv'
  BY <1>1, <1>2 DEF PlainInv
<1>8. WorkInv'
  BY <1>1, <1>2 DEF WorkInv
<1> QED
  BY <1>6, <1>7, <1>8 DEF ContractsInv

\* A step of block production that only moves on keeps the rest.
LEMMA WorkKeeps ==
  ASSUME ContractsInv, WorkInv', UNCHANGED <<st, engine, turn, height, runs, doubled, gone>>
  PROVE  ContractsInv'
<1>1. HostsInv'
  BY DEF ContractsInv, HostsInv, Left, Pool
<1>2. PlainInv'
  BY DEF ContractsInv, PlainInv
<1> QED
  BY <1>1, <1>2 DEF ContractsInv

LEMMA MovedOn ==
  ASSUME NEW w \in WorkSet
  PROVE  LET x == [w EXCEPT !.i = @ + 1]
         IN  x \in WorkSet /\ x.phase = w.phase /\ x.contract = w.contract
<1> DEFINE n == w.i + 1
<1>1. n \in Nat
  BY DEF WorkSet
<1> HIDE DEF n
<1>2. [w EXCEPT !.i = n] \in WorkSet
  BY <1>1 DEF WorkSet
<1>3. [w EXCEPT !.i = n].phase = w.phase /\ [w EXCEPT !.i = n].contract = w.contract
  BY DEF WorkSet
<1> QED
  BY <1>2, <1>3 DEF n

LEMMA BeginKeeps ==
  ASSUME ContractsInv, BeginBlock
  PROVE  ContractsInv'
<1>1. WorkInv'
  <2>1. {c \in Contract : st[turn].crons[c] # <<>>} \in SUBSET Contract
    OBVIOUS
  <2>2. /\ work' = [Idle EXCEPT !.phase = "cron", !.todo = {c \in Contract : st[turn].crons[c] # <<>>}]
        /\ height < MaxHeight /\ height' = height
    BY DEF BeginBlock
  <2> DEFINE T == {c \in Contract : st[turn].crons[c] # <<>>}
  <2> HIDE DEF T
  <2>3. work' = [phase |-> "cron", todo |-> T, contract |-> None, jobs |-> <<>>, i |-> 1,
                 events |-> <<>>, waiting |-> {}, remaining |-> <<>>]
    BY <2>2 DEF Idle, T
  <2>4. T \in SUBSET Contract /\ <<>> \in Seq(WasmCronJob) /\ <<>> \in Seq(WasmPendingEvent)
    BY <2>1 DEF T
  <2>5. work' \in WorkSet
    BY <2>3, <2>4 DEF WorkSet
  <2>6. work'.phase = "cron" /\ work'.contract = None
    BY <2>3
  <2> QED
    BY <2>2, <2>5, <2>6 DEF WorkInv
<1> QED
  BY <1>1, WorkKeeps DEF BeginBlock

LEMMA CronContractKeeps ==
  ASSUME ContractsInv, NEW c \in Contract, CronContract(c)
  PROVE  ContractsInv'
<1>1. WorkInv /\ HostsInv /\ PlainInv
  BY DEF ContractsInv
<1>2. st[turn] \in HostState
  BY <1>1 DEF HostsInv, Hosts, PlainInv
<1>3. /\ work.phase = "cron" /\ work.contract = None
      /\ work' = IF Active(st[turn], c)
                 THEN [work EXCEPT !.todo = @ \ {c}, !.contract = c, !.jobs = st[turn].crons[c], !.i = 1]
                 ELSE [work EXCEPT !.todo = @ \ {c}]
      /\ UNCHANGED <<st, engine, turn, height, runs, doubled, gone>>
  BY DEF CronContract
<1>4. WorkInv'
  <2>1. st[turn].crons[c] \in Seq(WasmCronJob)
    BY <1>2 DEF HostState
  <2>2. CASE Active(st[turn], c)
    <3>1. work' = [work EXCEPT !.todo = @ \ {c}, !.contract = c, !.jobs = st[turn].crons[c], !.i = 1]
      BY <1>3, <2>2
    <3> DEFINE T == work.todo \ {c}
               L == st[turn].crons[c]
    <3>4. T \in SUBSET Contract /\ L \in Seq(WasmCronJob)
      BY <1>1, <2>1 DEF WorkInv, WorkSet
    <3>5. work' = [work EXCEPT !.todo = T, !.contract = c, !.jobs = L, !.i = 1]
      BY <3>1
    <3> HIDE DEF T, L
    <3>2. work' \in WorkSet /\ work'.phase = "cron" /\ work'.contract = c
      <4>1. work = [phase |-> work.phase, todo |-> work.todo, contract |-> work.contract, jobs |-> work.jobs,
                    i |-> work.i, events |-> work.events, waiting |-> work.waiting,
                    remaining |-> work.remaining]
        BY <1>1 DEF WorkInv, WorkSet
      <4>2. work' = [phase |-> work.phase, todo |-> T, contract |-> c, jobs |-> L, i |-> 1,
                     events |-> work.events, waiting |-> work.waiting, remaining |-> work.remaining]
        BY <3>5, <4>1
      <4>3. /\ work.phase = "cron" /\ work.events \in Seq(WasmPendingEvent) /\ work.waiting \in SUBSET Contract
            /\ work.remaining \in Seq(WasmPendingEvent)
        BY <1>1, <1>3 DEF WorkInv, WorkSet
      <4> QED
        BY <3>4, <4>2, <4>3 DEF WorkSet
    <3>3. st[turn].contracts[c].Status \in Live
      BY <2>2 DEF Active, Live
    <3> QED
      BY <1>1, <1>3, <3>2, <3>3 DEF WorkInv
  <2>3. CASE ~Active(st[turn], c)
    <3>1. work' = [work EXCEPT !.todo = @ \ {c}]
      BY <1>3, <2>3
    <3>2. work' \in WorkSet /\ work'.phase = "cron" /\ work'.contract = None
      BY <1>1, <1>3, <3>1 DEF WorkInv, WorkSet
    <3> QED
      BY <1>1, <1>3, <3>2 DEF WorkInv
  <2> QED
    BY <2>2, <2>3
<1> QED
  BY <1>3, <1>4, WorkKeeps

LEMMA SkipKeeps ==
  ASSUME ContractsInv, SkipJob
  PROVE  ContractsInv'
<1>1. WorkInv
  BY DEF ContractsInv
<1>2. /\ work.phase = "cron" /\ work.contract # None
      /\ work' = [work EXCEPT !.i = @ + 1] \/ work' = [work EXCEPT !.contract = None]
      /\ UNCHANGED <<st, engine, turn, height, runs, doubled, gone>>
  BY DEF SkipJob
<1>3. WorkInv'
  <2>1. CASE work' = [work EXCEPT !.i = @ + 1]
    <3>1. work' \in WorkSet /\ work'.phase = "cron" /\ work'.contract = work.contract
      BY <1>1, <1>2, <2>1, MovedOn DEF WorkInv
    <3> QED
      BY <1>1, <1>2, <3>1 DEF WorkInv
  <2>2. CASE work' = [work EXCEPT !.contract = None]
    <3>1. work' \in WorkSet /\ work'.phase = "cron" /\ work'.contract = None
      BY <1>1, <1>2, <2>2 DEF WorkInv, WorkSet
    <3> QED
      BY <1>1, <1>2, <3>1 DEF WorkInv
  <2> QED
    BY <1>2, <2>1, <2>2
<1> QED
  BY <1>2, <1>3, WorkKeeps

LEMMA StartEventsKeeps ==
  ASSUME ContractsInv, StartEvents
  PROVE  ContractsInv'
<1> DEFINE list == st[turn].pending
           w == IF list = <<>> THEN {} ELSE list[1].Subscribers
<1>1. WorkInv /\ HostsInv /\ PlainInv
  BY DEF ContractsInv
<1>2. HostSound(st[turn])
  BY <1>1, NodesPair
<1>3. list \in Seq(WasmPendingEvent) /\ Lively(list, st[turn])
  BY <1>2 DEF HostSound, Orderly, HostState
<1>4. w \in SUBSET Contract
  <2>1. CASE list = <<>>
    BY <2>1
  <2>2. CASE list # <<>>
    <3>1. list[1] \in WasmPendingEvent
      BY <1>3, <2>2
    <3> QED
      BY <2>2, <3>1 DEF WasmPendingEvent
  <2> QED
    BY <2>1, <2>2
<1>5. /\ work.phase = "cron" /\ work' = [Idle EXCEPT !.phase = "events", !.events = list, !.waiting = w]
      /\ UNCHANGED <<st, engine, turn, height, runs, doubled, gone>>
  BY DEF StartEvents
<1> HIDE DEF list, w
<1>6. /\ work' \in WorkSet /\ work'.phase = "events" /\ work'.events = list /\ work'.remaining = <<>>
  <2>1. work' = [phase |-> "events", todo |-> {}, contract |-> None, jobs |-> <<>>, i |-> 1,
                 events |-> list, waiting |-> w, remaining |-> <<>>]
    BY <1>5 DEF Idle
  <2>2. <<>> \in Seq(WasmCronJob) /\ <<>> \in Seq(WasmPendingEvent) /\ {} \in SUBSET Contract
    OBVIOUS
  <2> QED
    BY <1>3, <1>4, <2>1, <2>2 DEF WorkSet
<1>7. Lively(<<>>, st[turn])
  BY DEF Lively
<1>8. WorkInv'
  BY <1>1, <1>3, <1>5, <1>6, <1>7 DEF WorkInv
<1> QED
  BY <1>5, <1>8, WorkKeeps

LEMMA LivelyParts ==
  ASSUME NEW s, NEW a \in Seq(WasmPendingEvent), NEW b \in Seq(WasmPendingEvent),
         Lively(a, s), Lively(b, s)
  PROVE  /\ Lively(a \o b, s) /\ a \o b \in Seq(WasmPendingEvent)
         /\ a # <<>> => /\ Lively(Tail(a), s) /\ Tail(a) \in Seq(WasmPendingEvent)
                        /\ a[1] \in WasmPendingEvent
                        /\ Lively(Append(b, a[1]), s) /\ Append(b, a[1]) \in Seq(WasmPendingEvent)
<1>1. Lively(a \o b, s) /\ a \o b \in Seq(WasmPendingEvent)
  <2> SUFFICES ASSUME NEW k \in 1..Len(a \o b)
               PROVE  s.contracts[(a \o b)[k].EmitterAddress].Status # "destroyed"
    BY DEF Lively
  <2>1. CASE k <= Len(a)
    <3>1. k \in 1..Len(a) /\ (a \o b)[k] = a[k]
      BY <2>1
    <3> QED
      BY <3>1 DEF Lively
  <2>2. CASE ~(k <= Len(a))
    <3>1. k - Len(a) \in 1..Len(b) /\ (a \o b)[k] = b[k - Len(a)]
      BY <2>2
    <3> QED
      BY <3>1 DEF Lively
  <2> QED
    BY <2>1, <2>2
<1>2. ASSUME a # <<>>
      PROVE  /\ Lively(Tail(a), s) /\ Tail(a) \in Seq(WasmPendingEvent)
             /\ a[1] \in WasmPendingEvent
             /\ Lively(Append(b, a[1]), s) /\ Append(b, a[1]) \in Seq(WasmPendingEvent)
  <2>1. a[1] \in WasmPendingEvent /\ 1 \in 1..Len(a) /\ Tail(a) \in Seq(WasmPendingEvent)
    BY <1>2
  <2>2. Lively(Tail(a), s)
    <3> SUFFICES ASSUME NEW k \in 1..Len(Tail(a))
                 PROVE  s.contracts[Tail(a)[k].EmitterAddress].Status # "destroyed"
      BY DEF Lively
    <3>1. Tail(a)[k] = a[k + 1] /\ k + 1 \in 1..Len(a)
      BY <1>2
    <3> QED
      BY <3>1 DEF Lively
  <2>3. Lively(Append(b, a[1]), s)
    <3> SUFFICES ASSUME NEW k \in 1..Len(Append(b, a[1]))
                 PROVE  s.contracts[Append(b, a[1])[k].EmitterAddress].Status # "destroyed"
      BY DEF Lively
    <3>1. CASE k <= Len(b)
      <4>1. k \in 1..Len(b) /\ Append(b, a[1])[k] = b[k]
        BY <2>1, <3>1
      <4> QED
        BY <4>1 DEF Lively
    <3>2. CASE ~(k <= Len(b))
      <4>1. Append(b, a[1])[k] = a[1]
        BY <2>1, <3>2
      <4> QED
        BY <2>1, <4>1 DEF Lively
    <3> QED
      BY <3>1, <3>2
  <2> QED
    BY <2>1, <2>2, <2>3
<1> QED
  BY <1>1, <1>2

LEMMA PassKeeps ==
  ASSUME ContractsInv, PassEvent
  PROVE  ContractsInv'
<1> DEFINE a == work.events
           b == work.remaining
           rest == Tail(a)
           w == IF rest = <<>> THEN {} ELSE rest[1].Subscribers
           early == a[1].DeliveryBlock > height
           kept == IF early THEN Append(b, a[1]) ELSE b
<1>1. WorkInv
  BY DEF ContractsInv
<1>2. /\ work.phase = "events" /\ a # <<>>
      /\ work' = [[work EXCEPT !.events = rest, !.waiting = w] EXCEPT
                    !.remaining = IF early THEN Append(@, a[1]) ELSE @]
      /\ UNCHANGED <<st, engine, turn, height, runs, doubled, gone>>
  BY DEF PassEvent, NextEvent
<1>3. a \in Seq(WasmPendingEvent) /\ b \in Seq(WasmPendingEvent) /\ Lively(a, st[turn]) /\ Lively(b, st[turn])
  BY <1>1, <1>2 DEF WorkInv, WorkSet
<1> HIDE DEF a, b
<1>4. /\ Lively(rest, st[turn]) /\ rest \in Seq(WasmPendingEvent)
      /\ Lively(Append(b, a[1]), st[turn]) /\ Append(b, a[1]) \in Seq(WasmPendingEvent)
  BY <1>2, <1>3, LivelyParts
<1> HIDE DEF rest, early
<1>5. kept \in Seq(WasmPendingEvent) /\ Lively(kept, st[turn])
  BY <1>3, <1>4
<1>6. w \in SUBSET Contract
  <2>1. CASE rest = <<>>
    BY <2>1
  <2>2. CASE rest # <<>>
    <3>1. rest[1] \in WasmPendingEvent
      BY <1>4, <2>2
    <3> QED
      BY <2>2, <3>1 DEF WasmPendingEvent
  <2> QED
    BY <2>1, <2>2
<1> HIDE DEF w
<1>7. work' = [work EXCEPT !.events = rest, !.waiting = w, !.remaining = kept]
  BY <1>1, <1>2 DEF b, WorkInv, WorkSet
<1> HIDE DEF kept
<1>8. work' \in WorkSet /\ work'.phase = "events" /\ work'.events = rest /\ work'.remaining = kept
  BY <1>1, <1>2, <1>4, <1>5, <1>6, <1>7 DEF WorkInv, WorkSet
<1>9. WorkInv'
  BY <1>1, <1>2, <1>4, <1>5, <1>8 DEF WorkInv
<1> QED
  BY <1>2, <1>9, WorkKeeps

\* What the replay of an execution in a block begins with.
LEMMA ReplicaOf ==
  ASSUME NEW s, NEW p, Pair(s, p), NEW c \in Contract, s.contracts[c].Status \in Live,
         NEW t, Effect(s, t, c), t.nonce <= MaxWasmNonce
  PROVE  LET q == applyWasmStateDelta(p, c, diffWasmState(s, t, c))
         IN  q \in HostState /\ q.contracts[c].Balance = t.contracts[c].Balance
<1> DEFINE q == applyWasmStateDelta(p, c, diffWasmState(s, t, c))
<1>1. HostSound(s) /\ HostSound(p) /\ Same(s, p) /\ Ident(s, p)
  BY DEF Pair, Agreed
<1>2. p \in HostState /\ IsFiniteSet(p.escrows) /\ Unique(p.escrows) /\ Orderly(s)
  BY <1>1 DEF HostSound, Orderly
<1>3. Replayed(s, t, c, p, q)
  BY <1>1, <1>2, Applied
<1> HIDE DEF q
<1>4. q \in HostState /\ q.contracts[c].Balance = t.contracts[c].Balance
  BY <1>3 DEF Replayed, Same
<1> QED
  BY <1>4 DEF q

\* Executions in a block: c runs on the node whose turn it is and pays n.
RunKeeps(c, t, n) ==
  \E i, j \in Seq(WasmCronJob) :
    LET delta == diffWasmState(st[turn], t, c) IN
    /\ st' = [st EXCEPT ![turn] = Charged(t, c, i, n),
                        ![Peer] = Charged(applyWasmStateDelta(st[Peer], c, delta), c, j, n)]
    /\ gone' = gone + n + EscrowedBy(delta)

LEMMA BlockRun ==
  ASSUME HostsInv, PlainInv, NEW c \in Contract, st[turn].contracts[c].Status \in Live,
         NEW t, Effect(st[turn], t, c), t.nonce <= MaxWasmNonce,
         NEW n \in Nat, n <= t.contracts[c].Balance, RunKeeps(c, t, n), UNCHANGED <<turn, doubled>>
  PROVE  /\ HostsInv' /\ gone' \in Int
         /\ st'[turn].contracts[c].Status \in Live
         /\ \A d \in Contract : st[turn].contracts[d].Status # "destroyed"
                                  => st'[turn].contracts[d].Status # "destroyed"
<1> DEFINE s == st[turn]
           p == st[Peer]
           delta == diffWasmState(s, t, c)
           q == applyWasmStateDelta(p, c, delta)
           e == EscrowedBy(delta)
<1>1. PICK i \in Seq(WasmCronJob), j \in Seq(WasmCronJob) :
        /\ st' = [st EXCEPT ![turn] = Charged(t, c, i, n), ![Peer] = Charged(q, c, j, n)]
        /\ gone' = gone + n + e
  BY DEF RunKeeps
<1> DEFINE f == Charged(t, c, i, n)
           g == Charged(q, c, j, n)
<1>2. Pair(s, p) /\ Total(s) = Left /\ Pool \in Nat /\ Peer \in Node /\ Peer # turn
  BY NodesPair
<1>3. /\ Pair(f, g) /\ Stays(s, t, c) /\ Stays(t, f, c)
      /\ e \in Int /\ Total(s) \in Int /\ Total(f) = Total(s) - e - n
  <2> HIDE DEF s, p
  <2> QED
    BY <1>2, ChargedPair DEF s
<1> HIDE DEF f, g, e, delta, q
<1>4. gone \in Int /\ doubled \in Int /\ turn \in Node /\ st \in [Node -> HostState]
  BY DEF PlainInv, HostsInv, Hosts
<1>5. st' = [st EXCEPT ![turn] = f, ![Peer] = g] /\ gone' = gone + n + e
  BY <1>1 DEF f, g
<1>6. Total(f) = Left' /\ gone' \in Int
  BY <1>2, <1>3, <1>4, <1>5 DEF Left, Pool
<1>7. HostsInv'
  BY <1>3, <1>4, <1>5, <1>6, HostsPaired DEF HostsInv
<1>8. st'[turn] = f
  BY <1>2, <1>4, <1>5
<1>9. /\ f.contracts[c].Status \in Live
      /\ \A d \in Contract : s.contracts[d].Status # "destroyed" => f.contracts[d].Status # "destroyed"
  BY <1>3 DEF Stays, OthersKept, Live
<1> QED
  BY <1>6, <1>7, <1>8, <1>9

LEMMA LivelyKept ==
  ASSUME NEW list \in Seq(WasmPendingEvent), NEW s, Lively(list, s), NEW t,
         \A d \in Contract : s.contracts[d].Status # "destroyed" => t.contracts[d].Status # "destroyed"
  PROVE  Lively(list, t)
<1> SUFFICES ASSUME NEW k \in 1..Len(list)
             PROVE  t.contracts[list[k].EmitterAddress].Status # "destroyed"
  BY DEF Lively
<1>1. list[k].EmitterAddress \in Contract
  <2>1. list[k] \in WasmPendingEvent
    OBVIOUS
  <2> QED
    BY <2>1 DEF WasmPendingEvent
<1> QED
  BY <1>1 DEF Lively

LEMMA CronExecKeeps ==
  ASSUME ContractsInv, NEW o \in Outcome, CronExec(o)
  PROVE  ContractsInv'
<1> DEFINE s == st[turn]
           p == st[Peer]
           c == work.contract
           i == work.i
           job == work.jobs[i]
           run == CallExport(s, c, o, getWasmEngine(turn))
           t == run.state
           delta == diffWasmState(s, t, c)
           live == t.crons[c]
           updated == IF i <= Len(live) /\ live[i].MethodName = job.MethodName
                      THEN [live EXCEPT ![i] = AfterRun(@, run.ok)] ELSE live
           charged == Charge(run.gas, t, c)
<1>1. HostsInv /\ PlainInv /\ WorkInv
  BY DEF ContractsInv
<1>2. /\ work.phase = "cron" /\ c # None
      /\ Bounded(t)
      /\ engine' = [engine EXCEPT ![turn] = getWasmEngine(turn)]
      /\ st' = [st EXCEPT ![turn] = [t EXCEPT !.crons[c] = updated, !.contracts[c].Balance = @ - charged],
                          ![Peer] = applyWasmCronExec(p, c, job, run.ok, delta, charged)]
      /\ gone' = gone + charged + EscrowedBy(delta)
      /\ runs' = runs + 1
      /\ work' = [work EXCEPT !.i = @ + 1]
      /\ UNCHANGED <<turn, height, doubled>>
  BY DEF CronExec
<1>3. c \in Contract /\ s.contracts[c].Status \in Live /\ work \in WorkSet
  BY <1>1, <1>2 DEF WorkInv, WorkSet
<1>4. Pair(s, p) /\ Orderly(s) /\ height \in Nat /\ Peer \in Node
  BY <1>1, NodesPair
<1>5. Effect(s, t, c) /\ run.gas \in Nat /\ run.ok \in BOOLEAN
  <2>1. RanAs(s, run, c)
    BY <1>3, <1>4, CallEffect
  <2> QED
    BY <2>1 DEF RanAs
<1> HIDE DEF run, s, p, c, job, i
<1>6. t.nonce <= MaxWasmNonce /\ runs < MaxRuns /\ MaxRuns \in Nat
  BY <1>2, ContractsAssumption DEF Bounded
<1>7. t \in HostState
  BY <1>5 DEF Effect, Orderly
<1>8. charged \in Nat /\ charged <= t.contracts[c].Balance
  BY <1>3, <1>5, <1>7, ChargeMeans
<1>9. updated \in Seq(WasmCronJob)
  <2>1. live \in Seq(WasmCronJob)
    BY <1>3, <1>7 DEF HostState
  <2> HIDE DEF live
  <2>2. \A k \in 1..Len(live) : live[k] \in WasmCronJob
    BY <2>1
  <2>3. \A k \in 1..Len(live) : AfterRun(live[k], run.ok) \in WasmCronJob
    BY <1>4, <1>5, <2>2, AfterRunJob
  <2>4. i \in Nat
    BY <1>3 DEF i, WorkSet
  <2>5. [live EXCEPT ![i] = AfterRun(live[i], run.ok)] \in Seq(WasmCronJob)
    <3> DEFINE x == [live EXCEPT ![i] = AfterRun(live[i], run.ok)]
               m == Len(live)
    <3>1. m \in Nat /\ live \in [1..m -> WasmCronJob]
      BY <2>1
    <3>2. x \in [1..m -> WasmCronJob]
      BY <2>3, <3>1
    <3> HIDE DEF x, m
    <3>3. x \in Seq(WasmCronJob)
      BY <3>1, <3>2
    <3> QED
      BY <3>3 DEF x
  <2> QED
    BY <2>1, <2>5
<1> HIDE DEF updated, charged, delta
<1>10. \E j \in Seq(WasmCronJob) :
         applyWasmCronExec(p, c, job, run.ok, delta, charged)
           = Charged(applyWasmStateDelta(p, c, delta), c, j, charged)
  <2>1. /\ applyWasmStateDelta(p, c, delta) \in HostState
        /\ applyWasmStateDelta(p, c, delta).contracts[c].Balance = t.contracts[c].Balance
    <3> HIDE DEF t
    <3> QED
      BY <1>3, <1>4, <1>5, <1>6, ReplicaOf DEF delta
  <2> DEFINE q == applyWasmStateDelta(p, c, delta)
             ok == run.ok
  <2>2. charged <= q.contracts[c].Balance
    BY <1>8, <2>1
  <2>3. ok \in BOOLEAN
    BY <1>5
  <2> HIDE DEF t, ok
  <2>4. \E j \in Seq(WasmCronJob) : applyWasmCronExec(p, c, job, ok, delta, charged) = Charged(q, c, j, charged)
    BY <1>3, <1>4, <1>8, <2>1, <2>2, <2>3, CronMeans
  <2> QED
    BY <2>4 DEF ok
<1>11. [t EXCEPT !.crons[c] = updated, !.contracts[c].Balance = @ - charged] = Charged(t, c, updated, charged)
  BY <1>7 DEF Charged, HostState
<1> HIDE DEF t
<1>12. RunKeeps(c, t, charged)
  <2>1. PICK j \in Seq(WasmCronJob) :
          applyWasmCronExec(p, c, job, run.ok, delta, charged)
            = Charged(applyWasmStateDelta(p, c, delta), c, j, charged)
    BY <1>10
  <2>2. /\ st' = [st EXCEPT ![turn] = Charged(t, c, updated, charged),
                            ![Peer] = Charged(applyWasmStateDelta(p, c, delta), c, j, charged)]
        /\ gone' = gone + charged + EscrowedBy(delta)
    BY <1>2, <1>11, <2>1 DEF t
  <2> QED
    BY <1>9, <2>2 DEF RunKeeps, delta, s, p
<1>13. /\ HostsInv' /\ gone' \in Int
       /\ st'[turn].contracts[c].Status \in Live
  BY <1>1, <1>2, <1>3, <1>5, <1>6, <1>8, <1>12, BlockRun DEF s
<1>14. PlainInv'
  <2>1. getWasmEngine(turn) \in SUBSET Code /\ turn \in Node
    BY <1>1, EngineCodes DEF PlainInv
  <2>2. engine' \in [Node -> {None} \cup SUBSET Code]
    BY <1>1, <1>2, <2>1, EngineKept
  <2>3. runs' \in 0..MaxRuns
    BY <1>1, <1>2, <1>6 DEF PlainInv
  <2> QED
    BY <1>1, <1>2, <1>13, <2>2, <2>3 DEF PlainInv
<1>15. WorkInv'
  <2>1. work' \in WorkSet /\ work'.phase = "cron" /\ work'.contract = c
    BY <1>2, <1>3, MovedOn DEF c
  <2> QED
    BY <1>1, <1>2, <1>13, <2>1 DEF WorkInv
<1> QED
  BY <1>13, <1>14, <1>15 DEF ContractsInv

LEMMA ServedWork ==
  ASSUME NEW w \in WorkSet, NEW c
  PROVE  LET x == [w EXCEPT !.waiting = @ \ {c}]
         IN  x \in WorkSet /\ x.phase = w.phase /\ x.events = w.events /\ x.remaining = w.remaining
<1> DEFINE n == w.waiting \ {c}
<1>1. n \in SUBSET Contract
  BY DEF WorkSet
<1> HIDE DEF n
<1>2. [w EXCEPT !.waiting = n] \in WorkSet
  BY <1>1 DEF WorkSet
<1>3. /\ [w EXCEPT !.waiting = n].phase = w.phase /\ [w EXCEPT !.waiting = n].events = w.events
      /\ [w EXCEPT !.waiting = n].remaining = w.remaining
  BY DEF WorkSet
<1> QED
  BY <1>2, <1>3 DEF n

LEMMA DeliverKeeps ==
  ASSUME ContractsInv, NEW c \in Contract, NEW o \in Outcome, DeliverEvent(c, o)
  PROVE  ContractsInv'
<1> DEFINE s == st[turn]
           p == st[Peer]
           run == CallExport(s, c, o, getWasmEngine(turn))
           t == run.state
           delta == diffWasmState(s, t, c)
           charged == Charge(run.gas, t, c)
           runs0 == Active(s, c) /\ s.contracts[c].Balance >= Reserve
<1>1. HostsInv /\ PlainInv /\ WorkInv
  BY DEF ContractsInv
<1>2. /\ work.phase = "events" /\ work' = [work EXCEPT !.waiting = @ \ {c}]
      /\ UNCHANGED <<turn, height, doubled>>
      /\ IF runs0
         THEN /\ Bounded(t)
              /\ engine' = [engine EXCEPT ![turn] = getWasmEngine(turn)]
              /\ st' = [st EXCEPT ![turn] = [t EXCEPT !.contracts[c].Balance = @ - charged],
                                  ![Peer] = applyWasmEventDelivery(p, c, delta, charged)]
              /\ gone' = gone + charged + EscrowedBy(delta)
              /\ runs' = runs + 1
         ELSE UNCHANGED <<st, engine, gone, runs>>
  BY DEF DeliverEvent, Served
<1>3. Pair(s, p) /\ Orderly(s) /\ height \in Nat /\ Peer \in Node /\ work \in WorkSet
  BY <1>1, NodesPair DEF WorkInv
<1>4. /\ work' \in WorkSet /\ work'.phase = "events"
      /\ work'.events = work.events /\ work'.remaining = work.remaining
  BY <1>2, <1>3, ServedWork
<1>5. /\ work.events \in Seq(WasmPendingEvent) /\ work.remaining \in Seq(WasmPendingEvent)
      /\ Lively(work.events, s) /\ Lively(work.remaining, s) /\ height < MaxHeight
  BY <1>1, <1>2, <1>3 DEF WorkInv, WorkSet
<1>6. CASE ~runs0
  <2>1. UNCHANGED <<st, engine, turn, height, runs, doubled, gone>>
    BY <1>2, <1>6
  <2>2. WorkInv'
    BY <1>4, <1>5, <2>1 DEF WorkInv
  <2> QED
    BY <2>1, <2>2, WorkKeeps
<1>7. CASE runs0
  <2>1. s.contracts[c].Status \in Live
    BY <1>7 DEF Active, Live
  <2>2. /\ Bounded(t)
        /\ engine' = [engine EXCEPT ![turn] = getWasmEngine(turn)]
        /\ st' = [st EXCEPT ![turn] = [t EXCEPT !.contracts[c].Balance = @ - charged],
                            ![Peer] = applyWasmEventDelivery(p, c, delta, charged)]
        /\ gone' = gone + charged + EscrowedBy(delta)
        /\ runs' = runs + 1
    BY <1>2, <1>7
  <2>3. Effect(s, t, c) /\ run.gas \in Nat
    <3>1. RanAs(s, run, c)
      BY <1>3, CallEffect
    <3> QED
      BY <3>1 DEF RanAs
  <2> HIDE DEF run, s, p, runs0
  <2>4. t.nonce <= MaxWasmNonce /\ runs < MaxRuns /\ MaxRuns \in Nat
    BY <2>2, ContractsAssumption DEF Bounded
  <2>5. t \in HostState
    BY <2>3 DEF Effect, Orderly
  <2>6. charged \in Nat /\ charged <= t.contracts[c].Balance
    BY <2>3, <2>5, ChargeMeans
  <2> HIDE DEF charged, t
  <2>7. t.crons[c] \in Seq(WasmCronJob)
    BY <2>5 DEF HostState
  <2>8. [t EXCEPT !.contracts[c].Balance = @ - charged] = Charged(t, c, t.crons[c], charged)
    <3> DEFINE C == [t.contracts EXCEPT ![c].Balance = t.contracts[c].Balance - charged]
               J == [t.crons EXCEPT ![c] = t.crons[c]]
    <3>1. Charged(t, c, t.crons[c], charged) = [t EXCEPT !.crons = J, !.contracts = C]
      BY <2>5 DEF Charged, HostState
    <3>2. J = t.crons
      BY <2>5 DEF HostState
    <3>3. [t EXCEPT !.contracts[c].Balance = @ - charged] = [t EXCEPT !.contracts = C]
      OBVIOUS
    <3> HIDE DEF C, J
    <3>4. [t EXCEPT !.crons = J, !.contracts = C] = [t EXCEPT !.contracts = C]
      BY <2>5, <3>2 DEF HostState
    <3> QED
      BY <3>1, <3>3, <3>4
  <2> HIDE DEF delta
  <2>9. \E j \in Seq(WasmCronJob) :
          applyWasmEventDelivery(p, c, delta, charged)
            = Charged(applyWasmStateDelta(p, c, delta), c, j, charged)
    <3> DEFINE q == applyWasmStateDelta(p, c, delta)
    <3>1. q \in HostState /\ q.contracts[c].Balance = t.contracts[c].Balance
      BY <1>3, <2>1, <2>3, <2>4, ReplicaOf DEF delta, t
    <3>2. charged <= q.contracts[c].Balance
      BY <2>6, <3>1
    <3> QED
      BY <2>6, <3>1, <3>2, DeliveryMeans
  <2>10. RunKeeps(c, t, charged)
    <3>1. PICK j \in Seq(WasmCronJob) :
            applyWasmEventDelivery(p, c, delta, charged)
              = Charged(applyWasmStateDelta(p, c, delta), c, j, charged)
      BY <2>9
    <3>2. /\ st' = [st EXCEPT ![turn] = Charged(t, c, t.crons[c], charged),
                              ![Peer] = Charged(applyWasmStateDelta(p, c, delta), c, j, charged)]
          /\ gone' = gone + charged + EscrowedBy(delta)
      BY <2>2, <2>8, <3>1 DEF t
    <3> QED
      BY <2>7, <3>2 DEF RunKeeps, delta, s, p
  <2>11. /\ HostsInv' /\ gone' \in Int
         /\ \A d \in Contract : s.contracts[d].Status # "destroyed"
                                  => st'[turn].contracts[d].Status # "destroyed"
    BY <1>1, <1>2, <2>1, <2>3, <2>4, <2>6, <2>10, BlockRun DEF s, t
  <2>12. PlainInv'
    <3>1. getWasmEngine(turn) \in SUBSET Code /\ turn \in Node
      BY <1>1, EngineCodes DEF PlainInv
    <3>2. engine' \in [Node -> {None} \cup SUBSET Code]
      BY <1>1, <2>2, <3>1, EngineKept
    <3>3. runs' \in 0..MaxRuns
      BY <1>1, <2>2, <2>4 DEF PlainInv
    <3> QED
      BY <1>1, <1>2, <2>11, <3>2, <3>3 DEF PlainInv
  <2>13. WorkInv'
    <3>1. Lively(work.events, st'[turn]) /\ Lively(work.remaining, st'[turn])
      BY <1>5, <2>11, LivelyKept
    <3> QED
      BY <1>2, <1>4, <1>5, <3>1 DEF WorkInv
  <2> QED
    BY <2>11, <2>12, <2>13 DEF ContractsInv
<1> QED
  BY <1>6, <1>7

LEMMA EndBlockKeeps ==
  ASSUME ContractsInv, NEW kept \in Seq(WasmPendingEvent), Lively(kept, st[turn]),
         work.phase # "requests", EndBlock(kept)
  PROVE  ContractsInv'
<1>1. HostsInv /\ PlainInv /\ WorkInv
  BY DEF ContractsInv
<1>2. /\ st' = [st EXCEPT ![turn] = [st[turn] EXCEPT !.pending = kept]]
      /\ work' = Idle /\ height' = height + 1 /\ turn' \in Node
      /\ UNCHANGED <<engine, runs, doubled, gone>>
  BY DEF EndBlock
<1>3. KeptAs(st[turn], [st[turn] EXCEPT !.pending = kept])
  BY <1>1, NodesPair, QueueKept
<1>4. Hosts(st', Left)
  BY <1>1, <1>2, <1>3, HostsKept DEF HostsInv, PlainInv
<1>5. HostsInv'
  BY <1>2, <1>4 DEF HostsInv, Left, Pool
<1>6. PlainInv'
  <2>1. MaxHeight \in Nat /\ height < MaxHeight
    BY <1>1, ContractsAssumption DEF WorkInv
  <2>2. height' \in 0..MaxHeight
    BY <1>1, <1>2, <2>1 DEF PlainInv
  <2> QED
    BY <1>1, <1>2, <2>2 DEF PlainInv
<1>7. WorkInv'
  <2>1. <<>> \in Seq(WasmCronJob) /\ <<>> \in Seq(WasmPendingEvent) /\ {} \in SUBSET Contract
    OBVIOUS
  <2>2. Idle \in WorkSet /\ Idle.phase = "requests"
    BY <2>1 DEF Idle, WorkSet
  <2> QED
    BY <1>2, <2>2 DEF WorkInv
<1> QED
  BY <1>5, <1>6, <1>7 DEF ContractsInv

LEMMA ProduceKeeps ==
  ASSUME ContractsInv, ProduceBlock
  PROVE  ContractsInv'
<1>1. work.phase = "events" /\ EndBlock(work.remaining)
  BY DEF ProduceBlock
<1>2. work.remaining \in Seq(WasmPendingEvent) /\ Lively(work.remaining, st[turn])
  BY <1>1 DEF ContractsInv, WorkInv, WorkSet
<1> QED
  BY <1>1, <1>2, EndBlockKeeps

LEMMA BudgetKeeps ==
  ASSUME ContractsInv, BudgetSpent
  PROVE  ContractsInv'
<1>1. CASE work.phase = "cron" /\ EndBlock(st[turn].pending)
  <2>1. st[turn].pending \in Seq(WasmPendingEvent) /\ Lively(st[turn].pending, st[turn])
    BY NodesPair DEF ContractsInv, HostSound, Orderly, HostState
  <2> QED
    BY <1>1, <2>1, EndBlockKeeps
<1>2. CASE work.phase = "events" /\ EndBlock(work.remaining \o work.events)
  <2>1. /\ work.remaining \in Seq(WasmPendingEvent) /\ Lively(work.remaining, st[turn])
        /\ work.events \in Seq(WasmPendingEvent) /\ Lively(work.events, st[turn])
    BY <1>2 DEF ContractsInv, WorkInv, WorkSet
  <2>2. /\ work.remaining \o work.events \in Seq(WasmPendingEvent)
        /\ Lively(work.remaining \o work.events, st[turn])
    BY <2>1, LivelyParts
  <2> QED
    BY <1>2, <2>2, EndBlockKeeps
<1> QED
  BY <1>1, <1>2 DEF BudgetSpent

-----------------------------------------------------------------------------
(***************************************************************************)
(* The genesis                                                             *)
(***************************************************************************)
LEMMA SumSame ==
  ASSUME NEW S, IsFiniteSet(S), NEW k \in Nat, NEW f, \A x \in S : f[x] = k
  PROVE  SumFunctionOnSet(f, S) = Cardinality(S) * k
<1> DEFINE T == {s \in SUBSET S : SumFunctionOnSet(f, s) = Cardinality(s) * k}
<1>1. {} \in T
  <2>1. Cardinality({}) = 0 /\ SumFunctionOnSet(f, {}) = 0
    BY SumEmpty, FS_EmptySet
  <2> QED
    BY <2>1
<1>2. ASSUME NEW s \in T, NEW x \in S \ s PROVE s \cup {x} \in T
  <2> DEFINE u == s \cup {x}
  <2>1. IsFiniteSet(s) /\ IsFiniteSet(u) /\ u \subseteq S /\ x \in u /\ u \ {x} = s
    BY FS_Subset
  <2>2. Cardinality(u) = Cardinality(s) + 1 /\ Cardinality(s) \in Nat
    BY <2>1, FS_AddElement, FS_CardinalityType
  <2> HIDE DEF u
  <2>3. \A y \in u : f[y] \in Int
    BY <2>1
  <2>4. SumFunctionOnSet(f, u) = f[x] + SumFunctionOnSet(f, s)
    BY <2>1, <2>3, SumSplit
  <2>5. SumFunctionOnSet(f, s) = Cardinality(s) * k /\ f[x] = k
    OBVIOUS
  <2>6. (Cardinality(s) + 1) * k = k + Cardinality(s) * k
    BY <2>2
  <2>7. SumFunctionOnSet(f, u) = Cardinality(u) * k
    BY <2>2, <2>4, <2>5, <2>6
  <2> QED
    BY <2>1, <2>7 DEF u
<1>3. T = SUBSET S
  <2> HIDE DEF T
  <2>1. T \in SUBSET SUBSET S
    BY DEF T
  <2> QED
    BY <1>1, <1>2, <2>1, FiniteInduction
<1> QED
  BY <1>3

LEMMA GenesisTotal == Total(GenesisState(Tokens)) = Pool
<1> DEFINE g == GenesisState(Tokens)
           f == g.balance
           R == Account \ User
           b == [c \in Contract |-> g.contracts[c].Balance]
           e == [x \in {} |-> x.LockedFee]
<1>1. IsFiniteSet(User) /\ IsFiniteSet(R) /\ Tokens \in Nat /\ User \cup R = Account /\ User \cap R = {}
  <2>1. IsFiniteSet(R)
    BY ContractsFinite, FS_Difference
  <2> QED
    BY <2>1, WasmHostAssumption, ContractsAssumption DEF Account
<1>2. /\ \A u \in User : f[u] = Tokens
      /\ \A u \in R : f[u] = 0
      /\ \A c \in Contract : b[c] = 0
      /\ g.intents = {}
  BY <1>1 DEF GenesisState, Account
<1>3. Total(g) = SumFunctionOnSet(f, Account) + SumFunctionOnSet(b, Contract)
                   + SumFunctionOnSet([x \in {} |-> x.LockedFee], {})
  BY <1>2 DEF Total, Balances, Fees
<1> HIDE DEF f, R, b, g
<1>4. SumFunctionOnSet(f, User) = Cardinality(User) * Tokens
  BY <1>1, <1>2, SumSame
<1>5. SumFunctionOnSet(f, R) = 0
  BY <1>1, <1>2, SumZero
<1>6. SumFunctionOnSet(f, User \cup R) = SumFunctionOnSet(f, User) + SumFunctionOnSet(f, R)
  BY <1>1, <1>2, SumUnion
<1>7. SumFunctionOnSet(b, Contract) = 0
  BY <1>2, ContractsFinite, SumZero
<1>8. SumFunctionOnSet([x \in {} |-> x.LockedFee], {}) = 0
  BY SumEmpty
<1>9. SumFunctionOnSet(f, User) = Pool /\ SumFunctionOnSet(f, Account) = SumFunctionOnSet(f, User) + 0
  BY <1>1, <1>4, <1>5, <1>6 DEF Pool
<1>10. Total(g) = SumFunctionOnSet(f, Account) + 0 + 0
  BY <1>3, <1>7, <1>8
<1>11. Total(g) = Pool
  BY <1>9, <1>10, PoolNat
<1> QED
  BY <1>11 DEF g

LEMMA GenesisSound == HostSound(GenesisState(Tokens))
<1> DEFINE g == GenesisState(Tokens)
<1>1. /\ g.balance = [a \in Account |-> IF a \in User THEN Tokens ELSE 0]
      /\ g.contracts = [c \in Contract |-> [Status |-> "none", Balance |-> 0, CodeHash |-> None, Admin |-> None]]
      /\ g.codes = [h \in Code |-> 0] /\ g.kv = [c \in Contract |-> NoKeys]
      /\ g.crons = [c \in Contract |-> <<>>] /\ g.subs = [c \in Contract |-> {}]
      /\ g.pending = <<>> /\ g.nonce = 0
      /\ g.intents = {} /\ g.escrows = {} /\ g.collections = {} /\ g.records = {}
  BY DEF GenesisState
<1>2. Tokens \in Nat /\ MaxWasmNonce \in Nat /\ None \notin Code
  BY ContractsAssumption, WasmHostAssumption
<1>3. g \in HostState
  <2>1. g.balance \in [Account -> Nat]
    BY <1>1, <1>2
  <2>2. g.contracts \in [Contract -> WasmContract]
    BY <1>1 DEF WasmContract
  <2>3. g.codes \in [Code -> Nat] /\ g.crons \in [Contract -> Seq(WasmCronJob)]
        /\ g.subs \in [Contract -> SUBSET Contract] /\ g.pending \in Seq(WasmPendingEvent)
    BY <1>1
  <2>4. g.kv \in [Contract -> [Key -> Val \cup {None}]]
    BY <1>1 DEF NoKeys
  <2>5. g = [balance |-> g.balance, contracts |-> g.contracts, codes |-> g.codes, kv |-> g.kv,
             crons |-> g.crons, subs |-> g.subs, pending |-> g.pending, nonce |-> 0,
             intents |-> {}, escrows |-> {}, collections |-> {}, records |-> {}]
    BY DEF GenesisState
  <2> HIDE DEF g
  <2> QED
    BY <2>1, <2>2, <2>3, <2>4, <2>5 DEF HostState
<1> HIDE DEF g
<1>4. Orderly(g)
  BY <1>1, <1>3, FS_EmptySet DEF Orderly, Unique
<1>5. Fresh(g)
  BY <1>1 DEF Fresh
<1>6. Counted(g)
  <2> SUFFICES ASSUME NEW h \in Code PROVE g.codes[h] = Cardinality(Running(g, h))
    BY DEF Counted
  <2>1. Running(g, h) = {}
    BY <1>1, <1>2 DEF Running
  <2> QED
    BY <1>1, <2>1, FS_EmptySet
<1>7. Clean(g) /\ Lively(g.pending, g)
  BY <1>1 DEF Clean, Lively
<1>8. HostSound(g)
  BY <1>1, <1>2, <1>4, <1>5, <1>6, <1>7 DEF HostSound
<1> QED
  BY <1>8 DEF g

LEMMA ContractsStart == ContractsInit => ContractsInv
<1> SUFFICES ASSUME ContractsInit PROVE ContractsInv
  OBVIOUS
<1> DEFINE g == GenesisState(Tokens)
<1>1. HostSound(g) /\ Total(g) = Pool
  BY GenesisSound, GenesisTotal
<1>2. Pair(g, g) /\ g \in HostState
  BY <1>1 DEF Pair, Agreed, Same, Ident, HostSound, Orderly
<1>3. /\ st = [n \in Node |-> g] /\ engine = [n \in Node |-> None] /\ turn \in Node /\ work = Idle
      /\ height = 0 /\ runs = 0 /\ doubled = 0 /\ gone = 0
  BY DEF ContractsInit
<1> HIDE DEF g
<1>4. Left = Pool
  BY <1>3, PoolNat DEF Left
<1>5. HostsInv
  BY <1>1, <1>2, <1>3, <1>4 DEF HostsInv, Hosts
<1>6. PlainInv
  BY <1>3, ContractsAssumption DEF PlainInv
<1>7. WorkInv
  <2>1. <<>> \in Seq(WasmCronJob) /\ <<>> \in Seq(WasmPendingEvent) /\ {} \in SUBSET Contract
    OBVIOUS
  <2>2. Idle \in WorkSet /\ Idle.phase = "requests"
    BY <2>1 DEF Idle, WorkSet
  <2> QED
    BY <1>3, <2>2 DEF WorkInv
<1> QED
  BY <1>5, <1>6, <1>7 DEF ContractsInv

LEMMA ContractsStep == ContractsInv /\ [ContractsNext]_contractVars => ContractsInv'
<1> SUFFICES ASSUME ContractsInv, [ContractsNext]_contractVars PROVE ContractsInv'
  OBVIOUS
<1>1. ASSUME NEW u \in User, NEW h \in Code, NEW fund \in Fund, NEW o \in Outcome, NEW methods \in CronSpec,
             DeployContract(u, h, fund, methods, o)
      PROVE  ContractsInv'
  BY <1>1, DeployKeeps
<1>2. ASSUME NEW u \in User, NEW c \in Contract, NEW fund \in Fund, NEW o \in Outcome,
             CallContract(u, c, fund, o)
      PROVE  ContractsInv'
  BY <1>2, CallKeeps
<1>3. ASSUME NEW u \in User, NEW c \in Contract, DestroyContract(u, c) PROVE ContractsInv'
  BY <1>3, DestroyKeeps
<1>4. CASE BeginBlock
  BY <1>4, BeginKeeps
<1>5. CASE SkipJob
  BY <1>5, SkipKeeps
<1>6. CASE StartEvents
  BY <1>6, StartEventsKeeps
<1>7. CASE PassEvent
  BY <1>7, PassKeeps
<1>8. CASE ProduceBlock
  BY <1>8, ProduceKeeps
<1>9. CASE BudgetSpent
  BY <1>9, BudgetKeeps
<1>10. ASSUME NEW c \in Contract, CronContract(c) PROVE ContractsInv'
  BY <1>10, CronContractKeeps
<1>11. ASSUME NEW o \in Outcome, CronExec(o) PROVE ContractsInv'
  BY <1>11, CronExecKeeps
<1>12. ASSUME NEW c \in Contract, NEW o \in Outcome, DeliverEvent(c, o) PROVE ContractsInv'
  BY <1>12, DeliverKeeps
<1>13. ASSUME NEW n \in Node, Restart(n) PROVE ContractsInv'
  BY <1>13, RestartKeeps
<1>14. CASE UNCHANGED contractVars
  BY <1>14 DEF contractVars, ContractsInv, HostsInv, Hosts, Left, Pool, PlainInv, WorkInv
<1> QED
  BY <1>1, <1>2, <1>3, <1>4, <1>5, <1>6, <1>7, <1>8, <1>9, <1>10, <1>11, <1>12, <1>13, <1>14
     DEF ContractsNext

THEOREM ContractsHold == ContractsSpec => []ContractsInv
BY ContractsStart, ContractsStep, PTL DEF ContractsSpec

\* A node that runs a contract and one that only applies the difference hold the
\* same money, stores, codes and objects, whoever produced the block, whatever
\* failed and wherever a node restarted (wasm_delta.go).
THEOREM ContractsAgree == ContractsSpec => []ReplicasAgree
<1>1. ContractsInv => ReplicasAgree
  <2> SUFFICES ASSUME ContractsInv, NEW m \in Node, NEW n \in Node
               PROVE  Same(st[n], st[m]) /\ st[m].nonce = st[n].nonce
    BY DEF ReplicasAgree, Same
  <2>1. Pair(st[n], st[m])
    BY DEF ContractsInv, HostsInv, Hosts
  <2> QED
    BY <2>1 DEF Pair, Agreed
<1> QED
  BY <1>1, ContractsHold, PTL

LEMMA HostTyped ==
  ASSUME NEW s, HostSound(s)
  PROVE  s \in WasmState
<1>1. Orderly(s) /\ s \in HostState /\ s.nonce <= MaxWasmNonce /\ s.nonce \in Nat /\ MaxWasmNonce \in Nat
  BY WasmHostAssumption DEF HostSound, Orderly, HostState
<1>2. \A k \in Nat : k < s.nonce => k \in 0..MaxWasmNonce
  BY <1>1
<1>3. /\ s.intents \in SUBSET NewIntent /\ s.escrows \in SUBSET DealEscrow
      /\ s.collections \in SUBSET DataCollection /\ s.records \in SUBSET DataRecord
  <2>1. \A x \in s.intents : x \in NewIntent
    BY <1>1, <1>2 DEF Orderly, HostState, NewIntent
  <2>2. \A x \in s.escrows : x \in DealEscrow
    BY <1>1, <1>2 DEF Orderly, HostState, DealEscrow
  <2>3. \A x \in s.collections : x \in DataCollection
    BY <1>1, <1>2 DEF Orderly, HostState, DataCollection
  <2>4. \A x \in s.records : x \in DataRecord
    BY <1>1, <1>2 DEF Orderly, HostState, DataRecord
  <2> QED
    BY <2>1, <2>2, <2>3, <2>4
<1> QED
  BY <1>1, <1>3 DEF HostState, WasmState

\* The tokens of users, contracts and intents, with what was paid, are those of
\* the genesis and the second credit of every InitFund; every part of the state
\* stays in its domain (wasm.go, wasm_host.go, wasm_delta.go).
THEOREM ContractSupply == ContractsSpec => []WasmSupply
<1>1. ContractsInv => WasmSupply
  <2> SUFFICES ASSUME ContractsInv PROVE WasmSupply
    OBVIOUS
  <2>1. HostsInv /\ PlainInv
    BY DEF ContractsInv
  <2>2. \A n \in Node : st[n] \in WasmState
    BY <2>1, HostTyped DEF HostsInv, Hosts, Pair
  <2>3. ContractsTypeOK
    BY <2>1, <2>2 DEF ContractsTypeOK, HostsInv, Hosts, PlainInv
  <2>4. \A n \in Node : Total(st[n]) = Left
    BY <2>1 DEF HostsInv, Hosts
  <2>5. gone \in Int /\ doubled \in Int /\ Pool \in Nat
    BY <2>1, PoolNat DEF PlainInv
  <2>6. \A n \in Node : Total(st[n]) + gone = Pool + doubled
    BY <2>4, <2>5 DEF Left
  <2> QED
    BY <2>3, <2>6 DEF WasmSupply, Total, Balances, Fees, Pool
<1> QED
  BY <1>1, ContractsHold, PTL

\* A code is held once for every contract that runs it and is not destroyed, and
\* a destroyed contract leaves nothing of its own (wasm.go).
THEOREM DestroyedIsGone == ContractsSpec => []DestroyedCleanly
<1>1. ContractsInv => DestroyedCleanly
  <2> SUFFICES ASSUME ContractsInv PROVE DestroyedCleanly
    OBVIOUS
  <2>1. \A n \in Node : HostSound(st[n])
    BY DEF ContractsInv, HostsInv, Hosts, Pair
  <2>2. CodeForEveryContract
    <3> SUFFICES ASSUME NEW n \in Node, NEW h \in Code
                 PROVE  st[n].codes[h] = Cardinality(Running(st[n], h))
      BY DEF CodeForEveryContract, Running
    <3>1. Counted(st[n])
      BY <2>1 DEF HostSound
    <3> QED
      BY <3>1 DEF Counted
  <2>3. \A n \in Node : \A k \in DOMAIN st[n].pending :
          st[n].contracts[st[n].pending[k].EmitterAddress].Status # "destroyed"
    <3> SUFFICES ASSUME NEW n \in Node, NEW k \in DOMAIN st[n].pending
                 PROVE  st[n].contracts[st[n].pending[k].EmitterAddress].Status # "destroyed"
      OBVIOUS
    <3>1. Lively(st[n].pending, st[n]) /\ st[n].pending \in Seq(WasmPendingEvent)
      BY <2>1 DEF HostSound, Orderly, HostState
    <3> QED
      BY <3>1 DEF Lively
  <2>4. DestroyedLeavesNothing
    BY <2>1, <2>3 DEF DestroyedLeavesNothing, HostSound, Clean
  <2> QED
    BY <2>2, <2>4 DEF DestroyedCleanly
<1> QED
  BY <1>1, ContractsHold, PTL
=============================================================================
