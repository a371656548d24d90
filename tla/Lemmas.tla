------------------------------- MODULE Lemmas -------------------------------
(***************************************************************************)
(* What the proofs of this project need of its data: sums over finite      *)
(* sets, as its ledgers are added up, the largest and least of some        *)
(* numbers, sorting, and functions defined by recursion on a number.       *)
(*                                                                         *)
(* A sum is a fold along an order CHOOSE picks.  It is shown to count a    *)
(* set of tokens, f[x] of them for each x (and debts where f[x] < 0), so   *)
(* the order does not matter and one element can be split off.  What is    *)
(* said of all sums is then proved by induction on the set.                *)
(***************************************************************************)
EXTENDS Integers, Sequences, FiniteSets, FiniteSetsExt, Ordering, FiniteSetTheorems, TLAPS

-----------------------------------------------------------------------------
(***************************************************************************)
(* Induction on finite sets                                                *)
(***************************************************************************)
\* A family of subsets of S that contains each set all of whose strict subsets it
\* contains is all of SUBSET S.
LEMMA StrictSubsetInduction ==
  ASSUME NEW S, IsFiniteSet(S), NEW T \in SUBSET SUBSET S,
         \A s \in SUBSET S : (\A t \in SUBSET s : t # s => t \in T) => s \in T
  PROVE  T = SUBSET S
<1> DEFINE missing == (SUBSET S) \ T
<1> SUFFICES ASSUME missing # {} PROVE FALSE
  OBVIOUS
<1>1. IsWellFoundedOn(StrictSubsetOrdering(S), SUBSET S)
  BY FS_StrictSubsetOrderingWellFounded, FS_FiniteSubsetsOfFinite
<1>2. PICK s \in missing : \A t \in missing : ~ (<<t, s>> \in StrictSubsetOrdering(S))
  <2>1. missing \subseteq SUBSET S
    OBVIOUS
  <2> HIDE DEF missing
  <2> QED BY <1>1, <2>1, WFMin
<1>3. \A t \in SUBSET s : t # s => t \in T
  BY <1>2 DEF StrictSubsetOrdering
<1> QED
  BY <1>3

\* A family that contains {} and is closed under adding an element of S is all of SUBSET S.
LEMMA FiniteInduction ==
  ASSUME NEW S, IsFiniteSet(S), NEW T \in SUBSET SUBSET S, {} \in T,
         \A s \in T : \A x \in S \ s : s \cup {x} \in T
  PROVE  T = SUBSET S
<1>1. ASSUME NEW s \in SUBSET S, \A t \in SUBSET s : t # s => t \in T
      PROVE  s \in T
  <2>1. CASE s = {}
    BY <2>1
  <2>2. CASE s # {}
    <3>1. PICK x \in s : TRUE
      BY <2>2
    <3>2. s \ {x} \in T /\ s = (s \ {x}) \cup {x}
      BY <1>1
    <3> QED
      BY <3>2
  <2> QED
    BY <2>1, <2>2
<1> QED
  BY <1>1, StrictSubsetInduction

-----------------------------------------------------------------------------
(***************************************************************************)
(* A sum counts tokens                                                     *)
(***************************************************************************)
\* Tokens of f over S: as many for each element as f says.
TokensOf(f, S) == UNION {{x} \X (1..f[x]) : x \in S}

\* The tokens of one element are apart from the others.
LEMMA TokensSplit ==
  ASSUME NEW f, NEW S, NEW x \in S, f[x] \in Int, IsFiniteSet(TokensOf(f, S \ {x}))
  PROVE  /\ IsFiniteSet(TokensOf(f, S))
         /\ Cardinality(TokensOf(f, S))
              = Cardinality(TokensOf(f, S \ {x})) + (IF f[x] > 0 THEN f[x] ELSE 0)
<1> DEFINE rest == TokensOf(f, S \ {x})
           own == {x} \X (1..f[x])
<1>1. TokensOf(f, S) = rest \cup own
  BY DEF TokensOf
<1>2. rest \cap own = {}
  BY DEF TokensOf
<1>3. IsFiniteSet(own) /\ Cardinality(own) = IF f[x] > 0 THEN f[x] ELSE 0
  <2>1. IsFiniteSet(1..f[x]) /\ Cardinality(1..f[x]) = IF f[x] > 0 THEN f[x] ELSE 0
    BY FS_Interval
  <2>2. IsFiniteSet({x}) /\ Cardinality({x}) = 1
    BY FS_Singleton
  <2>3. IsFiniteSet(own) /\ Cardinality(own) = Cardinality({x}) * Cardinality(1..f[x])
    BY <2>1, <2>2, FS_Product
  <2> HIDE DEF own
  <2> QED
    BY <2>1, <2>2, <2>3
<1>4. Cardinality({}) = 0
  BY FS_EmptySet
<1>5. IsFiniteSet(rest)
  OBVIOUS
<1> HIDE DEF rest, own
<1>6. /\ IsFiniteSet(rest \cup own)
      /\ Cardinality(rest \cup own)
           = Cardinality(rest) + Cardinality(own) - Cardinality(rest \cap own)
  BY <1>3, <1>5, FS_Union
<1>7. Cardinality(rest) \in Nat /\ Cardinality(own) \in Nat
  BY <1>3, <1>5, FS_CardinalityType
<1>8. Cardinality(rest \cap own) = 0
  BY <1>2, <1>4, Zenon
<1>9. Cardinality(rest \cup own) = Cardinality(rest) + Cardinality(own)
  BY <1>6, <1>7, <1>8
<1> QED
  BY <1>1, <1>3, <1>6, <1>9 DEF rest

\* Finitely many elements have finitely many tokens.
LEMMA TokensFinite ==
  ASSUME NEW S, IsFiniteSet(S), NEW f, \A x \in S : f[x] \in Int
  PROVE  IsFiniteSet(TokensOf(f, S))
<1> DEFINE T == {s \in SUBSET S : IsFiniteSet(TokensOf(f, s))}
<1>1. {} \in T
  <2>1. TokensOf(f, {}) = {}
    BY DEF TokensOf
  <2> QED
    BY <2>1, FS_EmptySet
<1>2. ASSUME NEW s \in T, NEW x \in S \ s PROVE s \cup {x} \in T
  <2>1. (s \cup {x}) \ {x} = s
    OBVIOUS
  <2>2. IsFiniteSet(TokensOf(f, (s \cup {x}) \ {x}))
    BY <2>1
  <2>3. IsFiniteSet(TokensOf(f, s \cup {x}))
    BY <2>2, TokensSplit
  <2> QED
    BY <2>3
<1>3. T = SUBSET S
  <2> HIDE DEF T
  <2>1. T \in SUBSET SUBSET S
    BY DEF T
  <2> QED
    BY <1>1, <1>2, <2>1, FiniteInduction
<1> QED
  BY <1>3

\* What f owes for each element.
DebtOf(f, S) == [x \in S |-> -f[x]]

\* The tokens of f less its debts.
NetOf(f, S) ==
  Cardinality(TokensOf(f, S)) - Cardinality(TokensOf(DebtOf(f, S), S))

\* One element's value splits off the net.
LEMMA NetSplit ==
  ASSUME NEW S, IsFiniteSet(S), NEW f, \A y \in S : f[y] \in Int, NEW x \in S
  PROVE  /\ NetOf(f, S) \in Int
         /\ NetOf(f, S) = f[x] + NetOf(f, S \ {x})
<1> DEFINE d == DebtOf(f, S)
           r == S \ {x}
<1>1. IsFiniteSet(r) /\ r \subseteq S
  BY FS_RemoveElement
<1>2. \A y \in S : d[y] \in Int /\ d[y] = -f[y]
  BY DEF DebtOf
<1>3. TokensOf(DebtOf(f, r), r) = TokensOf(d, r)
  BY <1>1 DEF TokensOf, DebtOf
<1>4. /\ IsFiniteSet(TokensOf(f, r)) /\ IsFiniteSet(TokensOf(d, r))
      /\ IsFiniteSet(TokensOf(f, S)) /\ IsFiniteSet(TokensOf(d, S))
  <2> HIDE DEF d, r
  <2> QED
    BY <1>1, <1>2, TokensFinite
<1>5. Cardinality(TokensOf(f, S)) = Cardinality(TokensOf(f, r)) + (IF f[x] > 0 THEN f[x] ELSE 0)
  <2>1. f[x] \in Int /\ IsFiniteSet(TokensOf(f, S \ {x}))
    BY <1>4
  <2>2. Cardinality(TokensOf(f, S))
          = Cardinality(TokensOf(f, S \ {x})) + (IF f[x] > 0 THEN f[x] ELSE 0)
    <3> HIDE DEF d, r
    <3> DEFINE k == f[x]
    <3>1. k \in Int /\ f[x] = k
      BY <2>1
    <3>2. IsFiniteSet(TokensOf(f, S \ {x}))
      BY <2>1
    <3> HIDE DEF k
    <3>3. \A z \in S : f[z] \in Int /\ IsFiniteSet(TokensOf(f, S \ {z})) =>
             Cardinality(TokensOf(f, S))
          = Cardinality(TokensOf(f, S \ {z})) + (IF f[z] > 0 THEN f[z] ELSE 0)
      BY TokensSplit
    <3> QED BY <3>1, <3>2, <3>3
  <2> QED
    BY <2>2
<1>6. Cardinality(TokensOf(d, S)) = Cardinality(TokensOf(d, r)) + (IF d[x] > 0 THEN d[x] ELSE 0)
  BY <1>2, <1>4, TokensSplit, ZenonT(40)
<1>7. /\ Cardinality(TokensOf(f, r)) \in Nat /\ Cardinality(TokensOf(d, r)) \in Nat
      /\ Cardinality(TokensOf(f, S)) \in Nat /\ Cardinality(TokensOf(d, S)) \in Nat
  BY <1>4, FS_CardinalityType
<1>8. /\ NetOf(f, S) = Cardinality(TokensOf(f, S)) - Cardinality(TokensOf(d, S))
      /\ NetOf(f, r) = Cardinality(TokensOf(f, r)) - Cardinality(TokensOf(d, r))
  BY <1>3 DEF NetOf
<1>9. d[x] = -f[x] /\ f[x] \in Int
  BY <1>2
<1> HIDE DEF d, r
<1> QED
  BY <1>5, <1>6, <1>7, <1>8, <1>9 DEF r

\* Nothing adds up to 0.
LEMMA NetEmpty == ASSUME NEW f PROVE NetOf(f, {}) = 0
<1>1. TokensOf(f, {}) = {} /\ TokensOf(DebtOf(f, {}), {}) = {}
  BY DEF TokensOf
<1> QED
  BY <1>1, FS_EmptySet DEF NetOf

-----------------------------------------------------------------------------
(***************************************************************************)
(* The fold is that net                                                    *)
(***************************************************************************)
\* The equation the fold's recursive function satisfies.
SumsUp(g, f, S) ==
  g = [s \in SUBSET S |-> IF s = {} THEN 0
                          ELSE f[CHOOSE x \in s : TRUE] + g[s \ {CHOOSE x \in s : TRUE}]]

\* What the fold is by definition.
LEMMA SumUnfold ==
  ASSUME NEW f, NEW S
  PROVE  SumFunctionOnSet(f, S) = (CHOOSE g : SumsUp(g, f, S))[S]
  BY DEF SumFunctionOnSet, FoldFunctionOnSet, MapThenFoldSet, SumsUp

\* The nets satisfy the equation,
LEMMA NetsSumUp ==
  ASSUME NEW S, IsFiniteSet(S), NEW f, \A x \in S : f[x] \in Int
  PROVE  SumsUp([s \in SUBSET S |-> NetOf(f, s)], f, S)
<1> DEFINE g == [s \in SUBSET S |-> NetOf(f, s)]
           h == [s \in SUBSET S |-> IF s = {} THEN 0
                   ELSE f[CHOOSE x \in s : TRUE] + g[s \ {CHOOSE x \in s : TRUE}]]
<1>1. ASSUME NEW s \in SUBSET S PROVE g[s] = h[s]
  <2>1. CASE s = {}
    BY <2>1, NetEmpty
  <2>2. CASE s # {}
    <3> DEFINE x == CHOOSE x \in s : TRUE
    <3>1. x \in s
      BY <2>2
    <3>2. IsFiniteSet(s) /\ \A y \in s : f[y] \in Int
      BY FS_Subset
    <3>3. h[s] = f[x] + g[s \ {x}] /\ g[s \ {x}] = NetOf(f, s \ {x})
      BY <2>2
    <3> HIDE DEF x
    <3>4. NetOf(f, s) = f[x] + NetOf(f, s \ {x})
      BY <3>1, <3>2, NetSplit
    <3> QED
      BY <3>3, <3>4
  <2> QED
    BY <2>1, <2>2
<1>2. g = h
  BY <1>1
<1> QED
  BY <1>2 DEF SumsUp

\* and nothing else does.
LEMMA SumsUpUnique ==
  ASSUME NEW S, IsFiniteSet(S), NEW f, \A x \in S : f[x] \in Int, NEW g, SumsUp(g, f, S)
  PROVE  g[S] = NetOf(f, S)
<1> DEFINE T == {s \in SUBSET S : g[s] = NetOf(f, s)}
<1>1. \A s \in SUBSET S : g[s] = IF s = {} THEN 0
        ELSE f[CHOOSE x \in s : TRUE] + g[s \ {CHOOSE x \in s : TRUE}]
  <2> DEFINE h == [s \in SUBSET S |-> IF s = {} THEN 0
                     ELSE f[CHOOSE x \in s : TRUE] + g[s \ {CHOOSE x \in s : TRUE}]]
  <2>1. g = h
    BY DEF SumsUp
  <2>2. \A s \in SUBSET S : h[s] = IF s = {} THEN 0
          ELSE f[CHOOSE x \in s : TRUE] + g[s \ {CHOOSE x \in s : TRUE}]
    OBVIOUS
  <2> HIDE DEF h
  <2> QED
    BY <2>1, <2>2
<1>2. ASSUME NEW s \in SUBSET S, \A t \in SUBSET s : t # s => t \in T
      PROVE  s \in T
  <2>1. CASE s = {}
    BY <1>1, <2>1, NetEmpty
  <2>2. CASE s # {}
    <3> DEFINE x == CHOOSE x \in s : TRUE
    <3>1. x \in s
      BY <2>2
    <3>2. IsFiniteSet(s) /\ \A y \in s : f[y] \in Int
      BY FS_Subset
    <3>3. g[s] = f[x] + g[s \ {x}]
      BY <1>1, <2>2
    <3> HIDE DEF x
    <3>4. g[s \ {x}] = NetOf(f, s \ {x})
      BY <1>2, <3>1
    <3>5. NetOf(f, s) = f[x] + NetOf(f, s \ {x})
      BY <3>1, <3>2, NetSplit
    <3> QED
      BY <3>3, <3>4, <3>5
  <2> QED
    BY <2>1, <2>2
<1>3. T = SUBSET S
  <2> HIDE DEF T
  <2>1. T \in SUBSET SUBSET S
    BY DEF T
  <2> QED
    BY <1>2, <2>1, StrictSubsetInduction
<1> QED
  BY <1>3

\* The library's fold over a finite set adds up: it is the net.
LEMMA SumIsNet ==
  ASSUME NEW S, IsFiniteSet(S), NEW f, \A x \in S : f[x] \in Int
  PROVE  SumFunctionOnSet(f, S) = NetOf(f, S)
<1>1. SumsUp(CHOOSE g : SumsUp(g, f, S), f, S)
  <2>1. \E g : SumsUp(g, f, S)
    BY NetsSumUp
  <2> QED
    BY <2>1, Zenon
<1> DEFINE g == CHOOSE g : SumsUp(g, f, S)
<1>2. SumFunctionOnSet(f, S) = g[S]
  BY SumUnfold
<1> HIDE DEF g
<1>3. g[S] = NetOf(f, S)
  BY <1>1, SumsUpUnique DEF g
<1> QED
  BY <1>2, <1>3

-----------------------------------------------------------------------------
(***************************************************************************)
(* Sums                                                                    *)
(***************************************************************************)
\* Nothing adds up to zero.
THEOREM SumEmpty == ASSUME NEW f PROVE SumFunctionOnSet(f, {}) = 0
<1>1. IsFiniteSet({})
  BY FS_EmptySet
<1> QED
  BY <1>1, SumIsNet, NetEmpty

\* Any element splits off a sum.
THEOREM SumSplit ==
  ASSUME NEW S, IsFiniteSet(S), NEW f, \A y \in S : f[y] \in Int, NEW x \in S
  PROVE  /\ SumFunctionOnSet(f, S) \in Int
         /\ SumFunctionOnSet(f, S \ {x}) \in Int
         /\ SumFunctionOnSet(f, S) = f[x] + SumFunctionOnSet(f, S \ {x})
<1>1. IsFiniteSet(S \ {x}) /\ \A y \in S \ {x} : f[y] \in Int
  BY FS_RemoveElement
<1>2. /\ SumFunctionOnSet(f, S) = NetOf(f, S)
      /\ SumFunctionOnSet(f, S \ {x}) = NetOf(f, S \ {x})
  BY <1>1, SumIsNet
<1>3. NetOf(f, S \ {x}) \in Int
  <2>1. CASE S \ {x} = {}
    BY <2>1, NetEmpty
  <2>2. CASE S \ {x} # {}
    BY <1>1, <2>2, NetSplit
  <2> QED
    BY <2>1, <2>2
<1> QED
  BY <1>2, <1>3, NetSplit

\* A sum of integers is an integer.
THEOREM SumInt ==
  ASSUME NEW S, IsFiniteSet(S), NEW f, \A y \in S : f[y] \in Int
  PROVE  SumFunctionOnSet(f, S) \in Int
<1>1. CASE S = {}
  BY <1>1, SumEmpty
<1>2. CASE S # {}
  BY <1>2, SumSplit
<1> QED
  BY <1>1, <1>2

\* A sum is monotone in its function.
THEOREM SumMonotone ==
  ASSUME NEW S, IsFiniteSet(S), NEW f, NEW g,
         \A y \in S : f[y] \in Int /\ g[y] \in Int /\ f[y] <= g[y]
  PROVE  SumFunctionOnSet(f, S) <= SumFunctionOnSet(g, S)
<1> DEFINE T == {s \in SUBSET S : SumFunctionOnSet(f, s) <= SumFunctionOnSet(g, s)}
<1>1. {} \in T
  BY SumEmpty
<1>2. ASSUME NEW s \in T, NEW x \in S \ s PROVE s \cup {x} \in T
  <2> DEFINE u == s \cup {x}
  <2>1. IsFiniteSet(u) /\ u \subseteq S /\ x \in u /\ u \ {x} = s
    BY FS_Subset
  <2>2. SumFunctionOnSet(f, u) = f[x] + SumFunctionOnSet(f, s) /\ SumFunctionOnSet(f, s) \in Int
    <3> HIDE DEF u
    <3> QED BY <2>1, SumSplit
  <2>3. SumFunctionOnSet(g, u) = g[x] + SumFunctionOnSet(g, s) /\ SumFunctionOnSet(g, s) \in Int
    <3> HIDE DEF u
    <3> QED BY <2>1, SumSplit
  <2>4. SumFunctionOnSet(f, u) <= SumFunctionOnSet(g, u)
    <3> HIDE DEF u
    <3> QED BY <2>2, <2>3
  <2> QED
    BY <2>1, <2>4
<1>3. T = SUBSET S
  <2> HIDE DEF T
  <2>1. T \in SUBSET SUBSET S
    BY DEF T
  <2> QED
    BY <1>1, <1>2, <2>1, FiniteInduction
<1> QED
  BY <1>3

\* Functions that agree on a set have the same sum over it.
THEOREM SumEqual ==
  ASSUME NEW S, IsFiniteSet(S), NEW f, NEW g, \A y \in S : f[y] \in Int /\ f[y] = g[y]
  PROVE  SumFunctionOnSet(f, S) = SumFunctionOnSet(g, S)
<1>1. /\ SumFunctionOnSet(f, S) <= SumFunctionOnSet(g, S)
      /\ SumFunctionOnSet(g, S) <= SumFunctionOnSet(f, S)
  BY SumMonotone
<1>2. SumFunctionOnSet(f, S) \in Int /\ SumFunctionOnSet(g, S) \in Int
  BY SumInt
<1> QED
  BY <1>1, <1>2

\* A sum of zeroes is zero.
THEOREM SumZero ==
  ASSUME NEW S, IsFiniteSet(S), NEW f, \A y \in S : f[y] = 0
  PROVE  SumFunctionOnSet(f, S) = 0
<1> DEFINE T == {s \in SUBSET S : SumFunctionOnSet(f, s) = 0}
<1>1. {} \in T
  BY SumEmpty
<1>2. ASSUME NEW s \in T, NEW x \in S \ s PROVE s \cup {x} \in T
  <2> DEFINE u == s \cup {x}
  <2>1. IsFiniteSet(u) /\ u \subseteq S /\ x \in u /\ u \ {x} = s
    BY FS_Subset
  <2>2. SumFunctionOnSet(f, u) = f[x] + SumFunctionOnSet(f, s)
    <3> HIDE DEF u
    <3> QED BY <2>1, SumSplit
  <2> QED
    BY <2>1, <2>2
<1>3. T = SUBSET S
  <2> HIDE DEF T
  <2>1. T \in SUBSET SUBSET S
    BY DEF T
  <2> QED
    BY <1>1, <1>2, <2>1, FiniteInduction
<1> QED
  BY <1>3

\* A sum of natural numbers is one, and no less than any of them.
THEOREM SumNat ==
  ASSUME NEW S, IsFiniteSet(S), NEW f, \A y \in S : f[y] \in Nat
  PROVE  /\ SumFunctionOnSet(f, S) \in Nat
         /\ \A x \in S : f[x] <= SumFunctionOnSet(f, S)
<1> DEFINE zero == [y \in S |-> 0]
<1>1. ASSUME NEW R \in SUBSET S PROVE SumFunctionOnSet(f, R) \in Nat
  <2>1. IsFiniteSet(R)
    BY FS_Subset
  <2>2. SumFunctionOnSet(zero, R) = 0
    BY <2>1, SumZero
  <2>3. SumFunctionOnSet(zero, R) <= SumFunctionOnSet(f, R)
    BY <2>1, SumMonotone
  <2>4. SumFunctionOnSet(f, R) \in Int
    BY <2>1, SumInt
  <2> QED
    BY <2>2, <2>3, <2>4
<1>2. ASSUME NEW x \in S PROVE f[x] <= SumFunctionOnSet(f, S)
  <2>1. SumFunctionOnSet(f, S) = f[x] + SumFunctionOnSet(f, S \ {x})
    BY SumSplit
  <2>2. SumFunctionOnSet(f, S \ {x}) \in Nat
    BY <1>1
  <2> QED
    BY <2>1, <2>2
<1> QED
  BY <1>1, <1>2

\* A function changed at one point.
THEOREM SumUpdate ==
  ASSUME NEW S, IsFiniteSet(S), NEW f, NEW g, NEW x \in S,
         \A y \in S : f[y] \in Int /\ g[y] \in Int,
         \A y \in S \ {x} : g[y] = f[y]
  PROVE  SumFunctionOnSet(g, S) = SumFunctionOnSet(f, S) + (g[x] - f[x])
<1>1. IsFiniteSet(S \ {x})
  BY FS_RemoveElement
<1>2. SumFunctionOnSet(g, S \ {x}) = SumFunctionOnSet(f, S \ {x})
  BY <1>1, SumEqual
<1>3. SumFunctionOnSet(f, S) = f[x] + SumFunctionOnSet(f, S \ {x})
  BY SumSplit
<1>4. SumFunctionOnSet(g, S) = g[x] + SumFunctionOnSet(g, S \ {x})
  BY SumSplit
<1>5. SumFunctionOnSet(f, S \ {x}) \in Int
  BY SumSplit
<1> QED
  BY <1>2, <1>3, <1>4, <1>5

\* A function changed at two points.
THEOREM SumUpdateTwo ==
  ASSUME NEW S, IsFiniteSet(S), NEW f, NEW g, NEW x \in S, NEW z \in S, x # z,
         \A y \in S : f[y] \in Int /\ g[y] \in Int,
         \A y \in S \ {x, z} : g[y] = f[y]
  PROVE  SumFunctionOnSet(g, S) = SumFunctionOnSet(f, S) + (g[x] - f[x]) + (g[z] - f[z])
<1> DEFINE h == [y \in S |-> IF y = x THEN g[x] ELSE f[y]]
<1>1. \A y \in S : h[y] \in Int
  OBVIOUS
<1>2. SumFunctionOnSet(h, S) = SumFunctionOnSet(f, S) + (h[x] - f[x])
  <2>1. \A y \in S \ {x} : h[y] = f[y]
    OBVIOUS
  <2> HIDE DEF h
  <2> QED
    BY <1>1, <2>1, SumUpdate
<1>3. SumFunctionOnSet(g, S) = SumFunctionOnSet(h, S) + (g[z] - h[z])
  <2>1. \A y \in S \ {z} : g[y] = h[y]
    OBVIOUS
  <2> HIDE DEF h
  <2> QED
    BY <1>1, <2>1, SumUpdate
<1>4. h[x] = g[x] /\ h[z] = f[z]
  OBVIOUS
<1>5. SumFunctionOnSet(f, S) \in Int
  BY SumInt
<1> HIDE DEF h
<1> QED
  BY <1>2, <1>3, <1>4, <1>5

\* The sum of a pointwise sum.
THEOREM SumAdd ==
  ASSUME NEW S, IsFiniteSet(S), NEW f, NEW g, NEW h,
         \A y \in S : f[y] \in Int /\ g[y] \in Int /\ h[y] = f[y] + g[y]
  PROVE  SumFunctionOnSet(h, S) = SumFunctionOnSet(f, S) + SumFunctionOnSet(g, S)
<1> DEFINE T == {s \in SUBSET S : SumFunctionOnSet(h, s)
                                    = SumFunctionOnSet(f, s) + SumFunctionOnSet(g, s)}
<1>1. {} \in T
  BY SumEmpty
<1>2. ASSUME NEW s \in T, NEW x \in S \ s PROVE s \cup {x} \in T
  <2> DEFINE u == s \cup {x}
  <2>1. IsFiniteSet(u) /\ u \subseteq S /\ x \in u /\ u \ {x} = s
    BY FS_Subset
  <2>2. SumFunctionOnSet(f, u) = f[x] + SumFunctionOnSet(f, s) /\ SumFunctionOnSet(f, s) \in Int
    <3> HIDE DEF u
    <3> QED BY <2>1, SumSplit
  <2>3. SumFunctionOnSet(g, u) = g[x] + SumFunctionOnSet(g, s) /\ SumFunctionOnSet(g, s) \in Int
    <3> HIDE DEF u
    <3> QED BY <2>1, SumSplit
  <2>4. SumFunctionOnSet(h, u) = h[x] + SumFunctionOnSet(h, s)
    <3>1. \A y \in S : h[y] \in Int
      OBVIOUS
    <3> HIDE DEF u
    <3> QED BY <2>1, <3>1, SumSplit
  <2>5. SumFunctionOnSet(h, s) = SumFunctionOnSet(f, s) + SumFunctionOnSet(g, s)
    OBVIOUS
  <2>6. SumFunctionOnSet(h, u) = SumFunctionOnSet(f, u) + SumFunctionOnSet(g, u)
    <3> HIDE DEF u
    <3> QED BY <2>2, <2>3, <2>4, <2>5
  <2> QED
    BY <2>1, <2>6
<1>3. T = SUBSET S
  <2> HIDE DEF T
  <2>1. T \in SUBSET SUBSET S
    BY DEF T
  <2> QED
    BY <1>1, <1>2, <2>1, FiniteInduction
<1> QED
  BY <1>3

\* What is added up over a larger set is more.
THEOREM SumSubset ==
  ASSUME NEW S, IsFiniteSet(S), NEW R \in SUBSET S, NEW f, \A y \in S : f[y] \in Nat
  PROVE  SumFunctionOnSet(f, R) <= SumFunctionOnSet(f, S)
<1> DEFINE T == {s \in SUBSET S : SumFunctionOnSet(f, s \cap R) <= SumFunctionOnSet(f, s)}
<1>1. {} \in T
  BY SumEmpty
<1>2. ASSUME NEW s \in T, NEW x \in S \ s PROVE s \cup {x} \in T
  <2> DEFINE u == s \cup {x}
  <2>1. IsFiniteSet(u) /\ u \subseteq S /\ x \in u /\ u \ {x} = s
    BY FS_Subset
  <2>2. SumFunctionOnSet(f, u) = f[x] + SumFunctionOnSet(f, s) /\ SumFunctionOnSet(f, s) \in Int
    <3> HIDE DEF u
    <3> QED BY <2>1, SumSplit
  <2>3. SumFunctionOnSet(f, s \cap R) <= SumFunctionOnSet(f, s)
    OBVIOUS
  <2>4. SumFunctionOnSet(f, s \cap R) \in Int
    <3>1. IsFiniteSet(s \cap R)
      BY FS_Subset
    <3> QED BY <3>1, SumInt
  <2>5. CASE x \notin R
    <3>1. u \cap R = s \cap R /\ f[x] \in Nat
      BY <2>5
    <3> HIDE DEF u
    <3>2. SumFunctionOnSet(f, u \cap R) = SumFunctionOnSet(f, s \cap R)
      BY <3>1, Zenon
    <3>3. SumFunctionOnSet(f, u \cap R) <= SumFunctionOnSet(f, u)
      <4> HIDE DEF T
      <4> QED BY <2>2, <2>3, <2>4, <3>1, <3>2
    <3> QED BY <2>1, <3>3 DEF u
  <2>6. CASE x \in R
    <3>1. (u \cap R) \ {x} = s \cap R /\ x \in u \cap R
      BY <2>6
    <3>2. IsFiniteSet(u \cap R) /\ \A y \in u \cap R : f[y] \in Int
      BY <2>1, FS_Subset
    <3> HIDE DEF u
    <3>3. SumFunctionOnSet(f, u \cap R) = f[x] + SumFunctionOnSet(f, s \cap R)
      BY <3>1, <3>2, SumSplit
    <3>4. SumFunctionOnSet(f, u \cap R) <= SumFunctionOnSet(f, u)
      BY <2>2, <2>3, <2>4, <3>3
    <3> QED BY <2>1, <3>4 DEF u
  <2> QED
    BY <2>5, <2>6
<1>3. T = SUBSET S
  <2> HIDE DEF T
  <2>1. T \in SUBSET SUBSET S
    BY DEF T
  <2> QED
    BY <1>1, <1>2, <2>1, FiniteInduction
<1>4. S \cap R = R
  OBVIOUS
<1> QED
  BY <1>3, <1>4

\* A sum over two parts.
THEOREM SumUnion ==
  ASSUME NEW A, IsFiniteSet(A), NEW B, IsFiniteSet(B), A \cap B = {}, NEW f,
         \A y \in A \cup B : f[y] \in Int
  PROVE  SumFunctionOnSet(f, A \cup B) = SumFunctionOnSet(f, A) + SumFunctionOnSet(f, B)
<1> DEFINE T == {s \in SUBSET A : SumFunctionOnSet(f, s \cup B)
                                    = SumFunctionOnSet(f, s) + SumFunctionOnSet(f, B)}
<1>0. SumFunctionOnSet(f, B) \in Int
  BY SumInt
<1>1. {} \in T
  <2>1. {} \cup B = B
    OBVIOUS
  <2>2. SumFunctionOnSet(f, {}) = 0
    BY SumEmpty
  <2>3. SumFunctionOnSet(f, {} \cup B) = SumFunctionOnSet(f, B)
    BY <2>1
  <2> QED
    BY <1>0, <2>2, <2>3
<1>2. ASSUME NEW s \in T, NEW x \in A \ s PROVE s \cup {x} \in T
  <2> DEFINE u == s \cup {x}
  <2>1. /\ IsFiniteSet(u) /\ x \in u /\ u \ {x} = s /\ \A y \in u : f[y] \in Int
        /\ IsFiniteSet(s)
    <3>1. u \subseteq A /\ s \subseteq A
      OBVIOUS
    <3>2. IsFiniteSet(u) /\ IsFiniteSet(s)
      BY <3>1, FS_Subset
    <3> QED
      BY <3>2
  <2>2. IsFiniteSet(u \cup B) /\ x \in u \cup B /\ (u \cup B) \ {x} = s \cup B
    <3>1. IsFiniteSet(u \cup B)
      BY <2>1, FS_Union
    <3> QED
      BY <3>1
  <2>3. \A y \in u \cup B : f[y] \in Int
    OBVIOUS
  <2>4. f[x] \in Int /\ SumFunctionOnSet(f, s) \in Int
    BY <2>1, SumInt
  <2>5. SumFunctionOnSet(f, s \cup B) = SumFunctionOnSet(f, s) + SumFunctionOnSet(f, B)
    OBVIOUS
  <2>6. SumFunctionOnSet(f, u \cup B) = SumFunctionOnSet(f, u) + SumFunctionOnSet(f, B)
    <3> HIDE DEF u, T
    <3>1. SumFunctionOnSet(f, u) = f[x] + SumFunctionOnSet(f, s)
      BY <2>1, SumSplit
    <3>2. SumFunctionOnSet(f, u \cup B) = f[x] + SumFunctionOnSet(f, s \cup B)
      BY <2>2, <2>3, SumSplit
    <3> QED
      BY <1>0, <2>4, <2>5, <3>1, <3>2
  <2>7. u \in SUBSET A
    OBVIOUS
  <2> QED
    BY <2>6, <2>7
<1>3. T = SUBSET A
  <2> HIDE DEF T
  <2>1. T \in SUBSET SUBSET A
    BY DEF T
  <2> QED
    BY <1>1, <1>2, <2>1, FiniteInduction
<1> QED
  BY <1>3

\* A sum of multiples.
THEOREM SumTimes ==
  ASSUME NEW S, IsFiniteSet(S), NEW f, NEW g, NEW c \in Int,
         \A y \in S : f[y] \in Int /\ g[y] = c * f[y]
  PROVE  SumFunctionOnSet(g, S) = c * SumFunctionOnSet(f, S)
<1> DEFINE T == {s \in SUBSET S : SumFunctionOnSet(g, s) = c * SumFunctionOnSet(f, s)}
<1>1. {} \in T
  BY SumEmpty
<1>2. ASSUME NEW s \in T, NEW x \in S \ s PROVE s \cup {x} \in T
  <2> DEFINE u == s \cup {x}
  <2>1. IsFiniteSet(u) /\ u \subseteq S /\ x \in u /\ u \ {x} = s
    BY FS_Subset
  <2>2. SumFunctionOnSet(f, u) = f[x] + SumFunctionOnSet(f, s) /\ SumFunctionOnSet(f, s) \in Int
    <3> HIDE DEF u
    <3> QED BY <2>1, SumSplit
  <2>3. SumFunctionOnSet(g, u) = g[x] + SumFunctionOnSet(g, s)
    <3>1. \A y \in S : g[y] \in Int
      OBVIOUS
    <3> HIDE DEF u
    <3> QED BY <2>1, <3>1, SumSplit
  <2>4. SumFunctionOnSet(g, s) = c * SumFunctionOnSet(f, s)
    OBVIOUS
  <2>5. g[x] = c * f[x] /\ f[x] \in Int
    OBVIOUS
  <2>6. SumFunctionOnSet(g, u) = c * SumFunctionOnSet(f, u)
    <3> HIDE DEF u, T
    <3>1. c * (f[x] + SumFunctionOnSet(f, s)) = c * f[x] + c * SumFunctionOnSet(f, s)
      BY <2>2, <2>5
    <3> QED BY <2>2, <2>3, <2>4, <2>5, <3>1
  <2> QED
    BY <2>1, <2>6
<1>3. T = SUBSET S
  <2> HIDE DEF T
  <2>1. T \in SUBSET SUBSET S
    BY DEF T
  <2> QED
    BY <1>1, <1>2, <2>1, FiniteInduction
<1> QED
  BY <1>3

\* A sum of amounts none of which is more than c.
THEOREM SumBounded ==
  ASSUME NEW S, IsFiniteSet(S), NEW f, NEW c \in Nat, \A y \in S : f[y] \in Int /\ f[y] <= c
  PROVE  SumFunctionOnSet(f, S) <= Cardinality(S) * c
<1> DEFINE T == {s \in SUBSET S : SumFunctionOnSet(f, s) <= Cardinality(s) * c}
<1>1. {} \in T
  <2>1. Cardinality({}) = 0
    BY FS_EmptySet
  <2> QED
    BY <2>1, SumEmpty
<1>2. ASSUME NEW s \in T, NEW x \in S \ s PROVE s \cup {x} \in T
  <2> DEFINE u == s \cup {x}
  <2>1. IsFiniteSet(s) /\ IsFiniteSet(u) /\ u \subseteq S /\ x \in u /\ u \ {x} = s
    BY FS_Subset
  <2>2. SumFunctionOnSet(f, u) = f[x] + SumFunctionOnSet(f, s) /\ SumFunctionOnSet(f, s) \in Int
    <3> HIDE DEF u
    <3> QED BY <2>1, SumSplit
  <2>3. Cardinality(u) = Cardinality(s) + 1 /\ Cardinality(s) \in Nat
    BY <2>1, FS_AddElement, FS_CardinalityType
  <2>4. SumFunctionOnSet(f, s) <= Cardinality(s) * c
    OBVIOUS
  <2>5. f[x] \in Int /\ f[x] <= c
    OBVIOUS
  <2>6. SumFunctionOnSet(f, u) <= Cardinality(u) * c
    <3> HIDE DEF u, T
    <3>0. \A n \in Nat : (n + 1) * c = n * c + c /\ n * c \in Int
      OBVIOUS
    <3>1. (Cardinality(s) + 1) * c = Cardinality(s) * c + c /\ Cardinality(s) * c \in Int
      BY <2>3, <3>0
    <3> QED BY <2>2, <2>3, <2>4, <2>5, <3>1
  <2> QED
    BY <2>1, <2>6
<1>3. T = SUBSET S
  <2> HIDE DEF T
  <2>1. T \in SUBSET SUBSET S
    BY DEF T
  <2> QED
    BY <1>1, <1>2, <2>1, FiniteInduction
<1> QED
  BY <1>3

\* Rows first or columns first.
RowSums(f, A, B) == [x \in A |-> SumFunctionOnSet([y \in B |-> f[x][y]], B)]

ColumnSums(f, A, B) == [y \in B |-> SumFunctionOnSet([x \in A |-> f[x][y]], A)]

THEOREM SumSwap ==
  ASSUME NEW A, IsFiniteSet(A), NEW B, IsFiniteSet(B), NEW f,
         \A x \in A, y \in B : f[x][y] \in Int
  PROVE  SumFunctionOnSet(RowSums(f, A, B), A) = SumFunctionOnSet(ColumnSums(f, A, B), B)
<1> USE DEF RowSums, ColumnSums
<1> DEFINE row(x) == [y \in B |-> f[x][y]]
           column(y) == [x \in A |-> f[x][y]]
           rows == [x \in A |-> SumFunctionOnSet(row(x), B)]
           columns(s) == [y \in B |-> SumFunctionOnSet(column(y), s)]
           T == {s \in SUBSET A : SumFunctionOnSet(rows, s) = SumFunctionOnSet(columns(s), B)}
<1>1. \A x \in A : rows[x] = SumFunctionOnSet(row(x), B) /\ rows[x] \in Int
  <2> SUFFICES ASSUME NEW x \in A
               PROVE  rows[x] = SumFunctionOnSet(row(x), B) /\ rows[x] \in Int
    OBVIOUS
  <2>1. \A y \in B : row(x)[y] \in Int
    OBVIOUS
  <2>2. rows[x] = SumFunctionOnSet(row(x), B)
    OBVIOUS
  <2>3. SumFunctionOnSet(row(x), B) \in Int
    <3> HIDE DEF row
    <3> QED BY <2>1, SumInt
  <2> QED
    BY <2>2, <2>3
<1>2. \A y \in B : \A x \in A : column(y)[x] = f[x][y] /\ column(y)[x] \in Int
  OBVIOUS
<1>3. {} \in T
  <2>1. \A y \in B : columns({})[y] = 0
    <3> HIDE DEF column
    <3> QED BY SumEmpty
  <2>2. SumFunctionOnSet(columns({}), B) = 0
    <3> HIDE DEF columns
    <3> QED BY <2>1, SumZero
  <2>3. SumFunctionOnSet(rows, {}) = 0
    BY SumEmpty
  <2> QED
    BY <2>2, <2>3
<1>4. ASSUME NEW s \in T, NEW x \in A \ s PROVE s \cup {x} \in T
  <2> DEFINE u == s \cup {x}
  <2>1. IsFiniteSet(u) /\ u \subseteq A /\ x \in u /\ u \ {x} = s
    BY FS_Subset
  <2>2. SumFunctionOnSet(rows, u) = rows[x] + SumFunctionOnSet(rows, s)
    <3> HIDE DEF u, rows
    <3> QED BY <1>1, <2>1, SumSplit
  <2>3. \A y \in B : /\ columns(u)[y] = row(x)[y] + columns(s)[y]
                     /\ columns(s)[y] \in Int /\ row(x)[y] \in Int
    <3> SUFFICES ASSUME NEW y \in B
                 PROVE  /\ columns(u)[y] = row(x)[y] + columns(s)[y]
                        /\ columns(s)[y] \in Int /\ row(x)[y] \in Int
      OBVIOUS
    <3>1. /\ SumFunctionOnSet(column(y), u) = column(y)[x] + SumFunctionOnSet(column(y), s)
          /\ SumFunctionOnSet(column(y), s) \in Int
      <4>1. \A z \in u : column(y)[z] \in Int
        BY <1>2, <2>1
      <4> HIDE DEF u, column
      <4> QED BY <2>1, <4>1, SumSplit
    <3>2. column(y)[x] = row(x)[y] /\ row(x)[y] \in Int
      OBVIOUS
    <3>3. /\ columns(u)[y] = SumFunctionOnSet(column(y), u)
          /\ columns(s)[y] = SumFunctionOnSet(column(y), s)
      <4> HIDE DEF column, u
      <4> QED OBVIOUS
    <3> HIDE DEF columns, column, row, u
    <3> QED
      BY <3>1, <3>2, <3>3
  <2>4. SumFunctionOnSet(columns(u), B)
          = SumFunctionOnSet(row(x), B) + SumFunctionOnSet(columns(s), B)
    <3> HIDE DEF columns, row, u
    <3> QED BY <2>3, SumAdd
  <2>5. SumFunctionOnSet(rows, s) = SumFunctionOnSet(columns(s), B)
    OBVIOUS
  <2>6. SumFunctionOnSet(rows, u) = SumFunctionOnSet(columns(u), B)
    <3> HIDE DEF columns, row, rows, u
    <3> QED BY <1>1, <2>2, <2>4, <2>5
  <2> QED
    BY <2>1, <2>6
<1>5. T = SUBSET A
  <2> HIDE DEF T
  <2>1. T \in SUBSET SUBSET A
    BY DEF T
  <2> QED
    BY <1>3, <1>4, <2>1, FiniteInduction
<1> QED
  BY <1>5

\* A part of an amount is no more than the amount.
LEMMA PartOf ==
  ASSUME NEW a \in Nat, NEW b \in Nat, NEW c \in Nat \ {0}, b <= c
  PROVE  (a * b) \div c \in Nat /\ (a * b) \div c <= a
<1> DEFINE q == (a * b) \div c
<1>1. a * b \in Nat
  OBVIOUS
<1>2. \A n \in Nat : n \div c \in Nat /\ c * (n \div c) <= n
  OBVIOUS
<1>3. q \in Nat /\ c * q <= a * b
  BY <1>1, <1>2
<1> HIDE DEF q
<1>4. a * b <= a * c /\ a * c = c * a /\ c * a \in Nat
  <2>1. \E k \in Nat : c = b + k
    <3>1. c - b \in Nat /\ c = b + (c - b)
      OBVIOUS
    <3> QED
      BY <3>1
  <2>2. PICK k \in Nat : c = b + k
    BY <2>1
  <2>3. a * c = a * b + a * k /\ a * k \in Nat
    BY <2>2
  <2> QED
    BY <1>1, <2>3
<1>5. ASSUME q > a PROVE FALSE
  <2>1. PICK k \in Nat : q = a + 1 + k
    <3>1. q - a - 1 \in Nat /\ q = a + 1 + (q - a - 1)
      BY <1>3, <1>5
    <3> QED
      BY <3>1
  <2>2. c * q = c * a + c + c * k /\ c * k \in Nat
    BY <2>1
  <2> QED
    BY <1>3, <1>4, <2>2
<1> QED
  BY <1>3, <1>5 DEF q

-----------------------------------------------------------------------------
\* A finite set of numbers that is not empty has a largest element.
THEOREM MaximumExists ==
  ASSUME NEW S \in SUBSET Int, IsFiniteSet(S), S # {}
  PROVE  \E m \in S : \A x \in S : m >= x
<1> DEFINE T == {s \in SUBSET S : s # {} => \E m \in s : \A x \in s : m >= x}
<1>1. {} \in T
  OBVIOUS
<1>2. ASSUME NEW s \in T, NEW x \in S \ s PROVE s \cup {x} \in T
  <2>1. CASE s = {}
    BY <2>1
  <2>2. CASE s # {}
    <3>1. PICK m \in s : \A y \in s : m >= y
      BY <2>2
    <3>2. m \in Int /\ x \in Int /\ \A y \in s : y \in Int
      OBVIOUS
    <3>3. CASE m >= x
      BY <3>1, <3>3
    <3>4. CASE ~(m >= x)
      BY <3>1, <3>2, <3>4
    <3> QED
      BY <3>3, <3>4
  <2> QED
    BY <2>1, <2>2
<1>3. T = SUBSET S
  <2> HIDE DEF T
  <2>1. T \in SUBSET SUBSET S
    BY DEF T
  <2> QED
    BY <1>1, <1>2, <2>1, FiniteInduction
<1> QED
  BY <1>3

\* And a smallest one.
THEOREM MinimumExists ==
  ASSUME NEW S \in SUBSET Int, IsFiniteSet(S), S # {}
  PROVE  Min(S) \in S /\ \A x \in S : Min(S) <= x
<1> DEFINE T == {s \in SUBSET S : s # {} => \E m \in s : \A x \in s : m <= x}
<1>1. {} \in T
  OBVIOUS
<1>2. ASSUME NEW s \in T, NEW x \in S \ s PROVE s \cup {x} \in T
  <2>1. CASE s = {}
    BY <2>1
  <2>2. CASE s # {}
    <3>1. PICK m \in s : \A y \in s : m <= y
      BY <2>2
    <3>2. m \in Int /\ x \in Int /\ \A y \in s : y \in Int
      OBVIOUS
    <3>3. CASE m <= x
      BY <3>1, <3>3
    <3>4. CASE ~(m <= x)
      BY <3>1, <3>2, <3>4
    <3> QED
      BY <3>3, <3>4
  <2> QED
    BY <2>1, <2>2
<1>3. T = SUBSET S
  <2> HIDE DEF T
  <2>1. T \in SUBSET SUBSET S
    BY DEF T
  <2> QED
    BY <1>1, <1>2, <2>1, FiniteInduction
<1>4. \E m \in S : \A x \in S : m <= x
  BY <1>3
<1> QED
  BY <1>4 DEF Min

-----------------------------------------------------------------------------
(***************************************************************************)
(* Recursion on a number                                                   *)
(***************************************************************************)
\* What holds of 0, and of k + 1 if it does of k, holds of all numbers up to n.
THEOREM IntervalInduction ==
  ASSUME NEW n \in Nat, NEW T, 0 \in T, \A k \in 0..(n - 1) : k \in T => k + 1 \in T
  PROVE  \A k \in 0..n : k \in T
<1> DEFINE S == {k \in 0..n : \A j \in 0..k : j \in T}
<1>1. S \in SUBSET Int /\ IsFiniteSet(S)
  <2>1. IsFiniteSet(0..n)
    BY FS_Interval
  <2>2. S \subseteq 0..n
    OBVIOUS
  <2> QED
    BY <2>1, <2>2, FS_Subset
<1>2. 0 \in S
  OBVIOUS
<1>3. PICK m \in S : \A x \in S : m >= x
  <2> HIDE DEF S
  <2> QED
    BY <1>1, <1>2, MaximumExists
<1>4. CASE m = n
  BY <1>4
<1>5. CASE m # n
  <2>1. m \in 0..(n - 1) /\ m + 1 \in 0..n
    BY <1>5
  <2>2. m + 1 \in T
    BY <2>1
  <2>3. m + 1 \in S
    BY <2>1, <2>2
  <2> QED
    BY <1>3, <2>1, <2>3
<1> QED
  BY <1>4, <1>5

\* Steps that stay in R, and a function that takes them from b on.
StepsIn(F, n, R) == \A k \in 1..n : F[k] \in [R -> R]

Recurs(g, n, R, b, F) ==
  g \in [0..n -> R] /\ g[0] = b /\ \A k \in 1..n : g[k] = F[k][g[k - 1]]

\* There is one.
THEOREM Recursion ==
  ASSUME NEW n \in Nat, NEW R, NEW b \in R, NEW F, StepsIn(F, n, R)
  PROVE  \E g : Recurs(g, n, R, b, F)
<1> USE DEF StepsIn, Recurs
<1> DEFINE Upto(m, g) == g \in [0..m -> R] /\ g[0] = b /\ \A k \in 1..m : g[k] = F[k][g[k - 1]]
           T == {m \in 0..n : \E g : Upto(m, g)}
<1>1. 0 \in T
  <2>1. Upto(0, [k \in 0..0 |-> b])
    OBVIOUS
  <2> HIDE DEF Upto
  <2>2. \E g : Upto(0, g)
    BY <2>1
  <2>3. 0 \in 0..n
    OBVIOUS
  <2> QED
    BY <2>2, <2>3
<1>2. ASSUME NEW m \in 0..(n - 1), m \in T PROVE m + 1 \in T
  <2>1. PICK g : Upto(m, g)
    BY <1>2
  <2> DEFINE h == [k \in 0..(m + 1) |-> IF k = m + 1 THEN F[m + 1][g[m]] ELSE g[k]]
  <2>2. m + 1 \in 1..n /\ m \in 0..m
    OBVIOUS
  <2>3. F[m + 1][g[m]] \in R
    BY <2>1, <2>2
  <2>4. h \in [0..(m + 1) -> R]
    BY <2>1, <2>3
  <2>5. h[0] = b
    BY <2>1
  <2>6. ASSUME NEW k \in 1..(m + 1) PROVE h[k] = F[k][h[k - 1]]
    <3>1. CASE k = m + 1
      BY <3>1
    <3>2. CASE k # m + 1
      <4>1. k \in 1..m /\ k - 1 \in 0..m /\ k - 1 # m + 1
        BY <3>2
      <4>2. h[k] = g[k] /\ h[k - 1] = g[k - 1]
        BY <4>1
      <4> QED
        BY <2>1, <4>1, <4>2
    <3> QED
      BY <3>1, <3>2
  <2>7. Upto(m + 1, h)
    BY <2>4, <2>5, <2>6
  <2> HIDE DEF Upto
  <2> QED
    BY <2>2, <2>7
<1>3. n \in T
  <2> HIDE DEF T
  <2>1. \A k \in 0..n : k \in T
    BY <1>1, <1>2, IntervalInduction
  <2> QED
    BY <2>1
<1> QED
  BY <1>3

-----------------------------------------------------------------------------
(***************************************************************************)
(* Sorting                                                                 *)
(***************************************************************************)
\* A relation that orders a set from its first element to its last.
Orders(S, before) ==
  /\ \A a \in S : <<a, a>> \notin before
  /\ \A a, b \in S : a # b => (<<a, b>> \in before) # (<<b, a>> \in before)
  /\ \A a, b, c \in S : <<a, b>> \in before /\ <<b, c>> \in before => <<a, c>> \in before

\* Sorting a finite set lists its elements, each of them once (sort.SliceStable).
LEMMA OrderedLists ==
  ASSUME NEW S, IsFiniteSet(S), NEW before, Orders(S, before)
  PROVE  /\ Ordered(S, before) \in Seq(S)
         /\ Len(Ordered(S, before)) = Cardinality(S)
         /\ \A r \in S : \E i \in 1..Len(Ordered(S, before)) : Ordered(S, before)[i] = r
         /\ \A i, j \in 1..Len(Ordered(S, before)) :
              Ordered(S, before)[i] = Ordered(S, before)[j] => i = j
<1> DEFINE below(r) == {x \in S : <<x, r>> \in before}
           n == Cardinality(S)
           rank == [r \in S |-> Cardinality(below(r)) + 1]
<1>1. n \in Nat
  BY FS_CardinalityType
<1>2. \A r \in S : IsFiniteSet(below(r)) /\ Cardinality(below(r)) \in Nat /\ Cardinality(below(r)) < n
  <2> SUFFICES ASSUME NEW r \in S
               PROVE  IsFiniteSet(below(r)) /\ Cardinality(below(r)) \in Nat /\ Cardinality(below(r)) < n
    OBVIOUS
  <2>1. below(r) \subseteq S /\ r \notin below(r)
    BY DEF Orders
  <2> HIDE DEF below
  <2>2. IsFiniteSet(below(r)) /\ Cardinality(below(r)) <= n /\ (Cardinality(below(r)) = n => below(r) = S)
    BY <2>1, FS_Subset DEF n
  <2>3. Cardinality(below(r)) \in Nat
    BY <2>2, FS_CardinalityType
  <2> QED
    BY <1>1, <2>1, <2>2, <2>3
\* Of two elements the later one has more below it.
<1>3. \A a, b \in S : a # b => Cardinality(below(a)) # Cardinality(below(b))
  <2>1. ASSUME NEW a \in S, NEW b \in S, <<a, b>> \in before
        PROVE  Cardinality(below(a)) < Cardinality(below(b))
    <3>1. below(a) \subseteq below(b) /\ a \in below(b) /\ a \notin below(a)
      BY <2>1 DEF Orders
    <3> HIDE DEF below
    <3>2. /\ Cardinality(below(a)) <= Cardinality(below(b))
          /\ Cardinality(below(a)) = Cardinality(below(b)) => below(a) = below(b)
      BY <1>2, <3>1, FS_Subset
    <3> QED
      BY <1>2, <3>1, <3>2
  <2> SUFFICES ASSUME NEW a \in S, NEW b \in S, a # b
               PROVE  Cardinality(below(a)) # Cardinality(below(b))
    OBVIOUS
  <2>2. <<a, b>> \in before \/ <<b, a>> \in before
    BY DEF Orders
  <2>3. Cardinality(below(a)) < Cardinality(below(b)) \/ Cardinality(below(b)) < Cardinality(below(a))
    BY <2>1, <2>2
  <2> HIDE DEF below
  <2> QED
    BY <1>2, <2>3
<1> HIDE DEF below, n
<1>4. rank \in Injection(S, 1..n)
  <2>1. rank \in [S -> 1..n]
    BY <1>1, <1>2
  <2>2. \A a, b \in S : rank[a] = rank[b] => a = b
    BY <1>2, <1>3
  <2> QED
    BY <2>1, <2>2 DEF Injection, IsInjective
<1>5. rank \in Surjection(S, 1..n)
  <2>1. IsFiniteSet(1..n) /\ Cardinality(1..n) = n
    BY <1>1, FS_Interval
  <2> HIDE DEF rank
  <2> QED
    BY <1>4, <2>1, FS_Injection DEF n
<1>6. \A i \in 1..n : \E r \in S : Cardinality(below(r)) = i - 1
  <2>1. \A i \in 1..n : \E r \in S : rank[r] = i
    BY <1>5 DEF Surjection
  <2> QED
    BY <1>1, <1>2, <2>1
<1>7. Ordered(S, before) = [i \in 1..n |-> CHOOSE r \in S : Cardinality(below(r)) = i - 1]
  BY DEF Ordered, below, n
<1>8. \A i \in 1..n : Ordered(S, before)[i] \in S /\ Cardinality(below(Ordered(S, before)[i])) = i - 1
  BY <1>6, <1>7
<1>9. Ordered(S, before) \in Seq(S) /\ Len(Ordered(S, before)) = n
  <2> DEFINE listed == Ordered(S, before)
  <2>1. listed \in [1..n -> S]
    BY <1>7, <1>8
  <2> HIDE DEF listed
  <2> QED
    BY <1>1, <2>1 DEF listed
<1>10. \A r \in S : \E i \in 1..n : Ordered(S, before)[i] = r
  <2> SUFFICES ASSUME NEW r \in S PROVE \E i \in 1..n : Ordered(S, before)[i] = r
    OBVIOUS
  <2> DEFINE i == Cardinality(below(r)) + 1
  <2>1. i \in 1..n /\ i - 1 = Cardinality(below(r))
    BY <1>1, <1>2
  <2> HIDE DEF i
  <2>2. Ordered(S, before)[i] \in S /\ Cardinality(below(Ordered(S, before)[i])) = Cardinality(below(r))
    BY <1>8, <2>1
  <2>3. Ordered(S, before)[i] = r
    BY <1>3, <2>2
  <2> QED
    BY <2>1, <2>3
<1>11. \A i, j \in 1..n : Ordered(S, before)[i] = Ordered(S, before)[j] => i = j
  <2> SUFFICES ASSUME NEW i \in 1..n, NEW j \in 1..n, Ordered(S, before)[i] = Ordered(S, before)[j]
               PROVE  i = j
    OBVIOUS
  <2>1. i - 1 = j - 1
    BY <1>8
  <2> QED
    BY <1>1, <2>1
<1> QED
  BY <1>9, <1>10, <1>11 DEF n
=============================================================================
