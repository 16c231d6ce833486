---------------------------- MODULE DecideProofs ----------------------------
(***************************************************************************)
(* What holds of Decide for any number of requests, postings, candidates   *)
(* and replies.  Of scoring: the strictest reading of every line, a score  *)
(* that no risk vetoes and no evidence lowers, a ranking with the eligible *)
(* first.  Of explanations: what a model says is published only where it   *)
(* is grounded and was said of this very prompt, and a request keeps to    *)
(* its budget of calls and seconds.                                        *)
(***************************************************************************)
EXTENDS Decide, FiniteSetTheorems, SequenceTheorems, WellFoundedInduction, TLAPS

-----------------------------------------------------------------------------
(* Induction over the subsets of a finite set and over the naturals, for   *)
(* the set of those for which a claim holds.                               *)

LEMMA SubsetInduction ==
    ASSUME NEW S, IsFiniteSet(S), NEW T,
           \A s \in SUBSET S : (\A x \in s : s \ {x} \in T) => s \in T
    PROVE  \A s \in SUBSET S : s \in T
<1> DEFINE Bad == {s \in SUBSET S : s \notin T}
<1>1. SUFFICES ASSUME Bad # {} PROVE FALSE
  OBVIOUS
<1>2. IsWellFoundedOn(StrictSubsetOrdering(S), SUBSET S)
  BY FS_StrictSubsetOrderingWellFounded, FS_FiniteSubsetsOfFinite
<1>3. PICK s \in Bad : \A t \in Bad : ~(<<t, s>> \in StrictSubsetOrdering(S))
  BY <1>1, <1>2, WFMin
<1>4. ASSUME NEW x \in s PROVE s \ {x} \in T
  <2>1. s \ {x} \in SUBSET S /\ <<s \ {x}, s>> \in StrictSubsetOrdering(S)
    BY DEF StrictSubsetOrdering
  <2> QED BY <1>3, <2>1
<1> QED BY <1>4

LEMMA LeastNatural ==
    ASSUME NEW T \in SUBSET Nat, T # {}
    PROVE  \E n \in T : \A m \in T : n <= m
<1>1. PICK n \in T : \A m \in T : ~(<<m, n>> \in OpToRel(<, Nat))
  BY NatLessThanWellFounded, WFMin
<1>2. \A m \in T : ~(m < n)
  BY <1>1 DEF OpToRel
<1> QED BY <1>2

LEMMA NaturalInduction ==
    ASSUME NEW T, 0 \in T, \A n \in Nat : n \in T => n + 1 \in T
    PROVE  Nat \subseteq T
<1>1. SUFFICES ASSUME Nat \ T # {} PROVE FALSE
  OBVIOUS
<1>2. PICK n \in Nat \ T : \A m \in Nat \ T : n <= m
  BY <1>1, LeastNatural
<1>3. n - 1 \in Nat /\ n - 1 \notin Nat \ T
  BY <1>2
<1> QED BY <1>2, <1>3

-----------------------------------------------------------------------------
(* Sums.  SumFunctionOnSet folds in an order that CHOOSE picks; the result *)
(* does not depend on it.                                                  *)

Picked(s) == CHOOSE x \in s : TRUE
Summed(f, s, g) == IF s = {} THEN 0 ELSE f[Picked(s)] + g[s \ {Picked(s)}]
IsSum(f, D, g) == g = [s \in D |-> Summed(f, s, g)]
SumOf(f, S) == CHOOSE g : IsSum(f, SUBSET S, g)

LEMMA PickedIn == ASSUME NEW s, s # {} PROVE Picked(s) \in s
BY DEF Picked

LEMMA SumIsFold ==
    ASSUME NEW f, NEW S
    PROVE  SumFunctionOnSet(f, S) = SumOf(f, S)[S]
BY DEF SumFunctionOnSet, FoldFunctionOnSet, MapThenFoldSet, SumOf, IsSum, Summed, Picked

\* The fold is defined on every subset of a finite set: by the size of subsets.
LEMMA SumExists ==
    ASSUME NEW f, NEW S, IsFiniteSet(S)
    PROVE  IsSum(f, SUBSET S, SumOf(f, S))
<1> DEFINE D(n) == {s \in SUBSET S : Cardinality(s) <= n}
           T == {n \in Nat : \E g : IsSum(f, D(n), g)}
<1>0. \A s \in SUBSET S : IsFiniteSet(s) /\ Cardinality(s) \in Nat
                          /\ (Cardinality(s) = 0 <=> s = {})
  BY FS_Subset, FS_CardinalityType, FS_EmptySet
<1>1. 0 \in T
  <2> DEFINE g == [s \in D(0) |-> 0]
  <2>1. \A s \in D(0) : s = {}
    BY <1>0
  <2>2. IsSum(f, D(0), g)
    BY <2>1 DEF IsSum, Summed
  <2> QED BY <2>2
<1>2. ASSUME NEW n \in Nat, n \in T PROVE n + 1 \in T
  <2>1. PICK h : IsSum(f, D(n), h)
    BY <1>2
  <2>g. PICK g : g = [s \in D(n + 1) |-> Summed(f, s, h)]
    OBVIOUS
  <2>2. ASSUME NEW s \in D(n + 1), s # {}
        PROVE  g[s \ {Picked(s)}] = h[s \ {Picked(s)}]
    <3> DEFINE t == s \ {Picked(s)}
    <3>1. t \in D(n)
      <4>1. Picked(s) \in s
        BY <2>2, PickedIn
      <4>2. Cardinality(t) = Cardinality(s) - 1
        BY <1>0, <4>1, FS_RemoveElement
      <4> QED BY <1>0, <4>2
    <3>2. t \in D(n + 1)
      BY <1>0, <3>1
    <3> HIDE DEF t
    <3>3. h[t] = Summed(f, t, h)
      BY <2>1, <3>1 DEF IsSum
    <3> QED BY <2>g, <3>2, <3>3 DEF t
  <2>3. \A s \in D(n + 1) : Summed(f, s, g) = Summed(f, s, h)
    BY <2>2 DEF Summed
  <2>4. IsSum(f, D(n + 1), g)
    BY <2>g, <2>3 DEF IsSum
  <2> QED BY <2>4
<1>3. Cardinality(S) \in T
  <2> HIDE DEF T
  <2> QED BY <1>1, <1>2, <1>0, NaturalInduction
<1>4. D(Cardinality(S)) = SUBSET S
  BY <1>0, FS_Subset
<1>5. \E g : IsSum(f, SUBSET S, g)
  BY <1>3, <1>4
<1> QED BY <1>5 DEF SumOf

\* Whichever element is taken out first.
LEMMA SumTakesOut ==
    ASSUME NEW f, NEW S, IsFiniteSet(S), \A x \in S : f[x] \in Int, NEW g,
           IsSum(f, SUBSET S, g)
    PROVE  \A s \in SUBSET S : g[s] \in Int /\ \A x \in s : g[s] = f[x] + g[s \ {x}]
<1>1. \A s \in SUBSET S : g[s] \in Int
  <2> DEFINE T == {s \in SUBSET S : g[s] \in Int}
  <2>1. ASSUME NEW s \in SUBSET S, \A x \in s : s \ {x} \in T PROVE s \in T
    <3>1. g[s] = Summed(f, s, g)
      BY DEF IsSum
    <3>2. CASE s # {}
      <4>1. Picked(s) \in s
        BY <3>2, PickedIn
      <4> QED BY <2>1, <3>1, <3>2, <4>1 DEF Summed
    <3> QED BY <3>1, <3>2 DEF Summed
  <2> HIDE DEF T
  <2>2. \A s \in SUBSET S : s \in T
    BY <2>1, SubsetInduction
  <2> QED BY <2>2 DEF T
<1> DEFINE T == {s \in SUBSET S : \A x \in s : g[s] = f[x] + g[s \ {x}]}
<1>2. ASSUME NEW s \in SUBSET S, \A x \in s : s \ {x} \in T PROVE s \in T
  <2> SUFFICES ASSUME s # {}, NEW x \in s PROVE g[s] = f[x] + g[s \ {x}]
    OBVIOUS
  <2>1. PICK c \in s : g[s] = f[c] + g[s \ {c}]
    BY PickedIn DEF IsSum, Summed
  <2>2. CASE x # c
    <3> DEFINE t == (s \ {c}) \ {x}
    <3>1. g[s \ {c}] = f[x] + g[t]
      BY <1>2, <2>2
    <3>2. g[s \ {x}] = f[c] + g[t]
      <4>1. s \ {x} \in T /\ c \in s \ {x} /\ (s \ {x}) \ {c} = t
        BY <1>2, <2>2
      <4> QED BY <4>1
    <3>3. f[x] \in Int /\ f[c] \in Int /\ g[t] \in Int
      <4>1. t \in SUBSET S
        OBVIOUS
      <4> QED BY <1>1, <4>1
    <3> HIDE DEF t
    <3> QED BY <2>1, <3>1, <3>2, <3>3
  <2> QED BY <2>1, <2>2
<1> HIDE DEF T
<1>3. \A s \in SUBSET S : s \in T
  BY <1>2, SubsetInduction
<1> QED BY <1>1, <1>3 DEF T

\* The sum over a subset is read off the fold over any set that holds it, for
\* any function that agrees on it.
LEMMA SumOfSubset ==
    ASSUME NEW f, NEW h, NEW S, IsFiniteSet(S), NEW R, IsFiniteSet(R), NEW t \in SUBSET S,
           t \subseteq R, \A x \in t : f[x] = h[x]
    PROVE  SumOf(f, S)[t] = SumOf(h, R)[t]
<1> DEFINE g == SumOf(f, S)
           k == SumOf(h, R)
           T == {s \in SUBSET t : g[s] = k[s]}
<1>1. IsSum(f, SUBSET S, g) /\ IsSum(h, SUBSET R, k)
  BY SumExists
<1> HIDE DEF g, k
<1>2. ASSUME NEW s \in SUBSET t, \A x \in s : s \ {x} \in T PROVE s \in T
  <2>1. s \in SUBSET S /\ s \in SUBSET R
    OBVIOUS
  <2>2. g[s] = Summed(f, s, g) /\ k[s] = Summed(h, s, k)
    BY <1>1, <2>1 DEF IsSum
  <2>3. Summed(f, s, g) = Summed(h, s, k)
    BY <1>2, PickedIn DEF Summed
  <2> QED BY <2>2, <2>3
<1> HIDE DEF T
<1>3. IsFiniteSet(t)
  BY FS_Subset
<1>4. \A s \in SUBSET t : s \in T
  BY <1>2, <1>3, SubsetInduction
<1> QED BY <1>4 DEF T, g, k

LEMMA SumEmpty == ASSUME NEW f PROVE SumFunctionOnSet(f, {}) = 0
<1>1. IsSum(f, SUBSET {}, SumOf(f, {}))
  BY SumExists, FS_EmptySet
<1>2. SumOf(f, {})[{}] = 0
  BY <1>1 DEF IsSum, Summed
<1> QED BY <1>2, SumIsFold

LEMMA SumRemove ==
    ASSUME NEW f, NEW S, IsFiniteSet(S), \A x \in S : f[x] \in Int
    PROVE  /\ SumFunctionOnSet(f, S) \in Int
           /\ \A x \in S : SumFunctionOnSet(f, S) = f[x] + SumFunctionOnSet(f, S \ {x})
<1>1. IsSum(f, SUBSET S, SumOf(f, S))
  BY SumExists
<1>2. /\ SumOf(f, S)[S] \in Int
      /\ \A x \in S : SumOf(f, S)[S] = f[x] + SumOf(f, S)[S \ {x}]
  BY <1>1, SumTakesOut
<1>3. ASSUME NEW x \in S PROVE SumOf(f, S)[S \ {x}] = SumOf(f, S \ {x})[S \ {x}]
  BY SumOfSubset, FS_RemoveElement
<1> QED BY <1>2, <1>3, SumIsFold

LEMMA SumAgrees ==
    ASSUME NEW f, NEW h, NEW S, IsFiniteSet(S), \A x \in S : f[x] = h[x]
    PROVE  SumFunctionOnSet(f, S) = SumFunctionOnSet(h, S)
BY SumIsFold, SumOfSubset

LEMMA SumMonotone ==
    ASSUME NEW f, NEW h, NEW S, IsFiniteSet(S),
           \A x \in S : f[x] \in Int /\ h[x] \in Int /\ f[x] <= h[x]
    PROVE  SumFunctionOnSet(f, S) <= SumFunctionOnSet(h, S)
<1> DEFINE T == {s \in SUBSET S : SumFunctionOnSet(f, s) <= SumFunctionOnSet(h, s)}
<1>1. ASSUME NEW s \in SUBSET S, \A x \in s : s \ {x} \in T PROVE s \in T
  <2>1. CASE s = {}
    BY <2>1, SumEmpty
  <2>2. ASSUME NEW x \in s PROVE s \in T
    <3>1. IsFiniteSet(s) /\ IsFiniteSet(s \ {x})
      BY FS_Subset
    <3>2. /\ SumFunctionOnSet(f, s) = f[x] + SumFunctionOnSet(f, s \ {x})
          /\ SumFunctionOnSet(f, s \ {x}) \in Int
      BY <3>1, SumRemove
    <3>3. /\ SumFunctionOnSet(h, s) = h[x] + SumFunctionOnSet(h, s \ {x})
          /\ SumFunctionOnSet(h, s \ {x}) \in Int
      BY <3>1, SumRemove
    <3>4. SumFunctionOnSet(f, s \ {x}) <= SumFunctionOnSet(h, s \ {x})
      BY <1>1
    <3> QED BY <3>2, <3>3, <3>4
  <2> QED BY <2>1, <2>2
<1> HIDE DEF T
<1>2. \A s \in SUBSET S : s \in T
  BY <1>1, SubsetInduction
<1> QED BY <1>2 DEF T

\* Shares of ten thousand: no more than that for each, and that much if each
\* is full.
Shares(f, S) == \A x \in S : f[x] \in Nat /\ f[x] <= 10000
FullShares(f, S) == \A x \in S : f[x] = 10000

LEMMA SumOfShares ==
    ASSUME NEW f, NEW S, IsFiniteSet(S), Shares(f, S)
    PROVE  SumFunctionOnSet(f, S) \in Nat /\ SumFunctionOnSet(f, S) <= 10000 * Cardinality(S)
<1> DEFINE Good(s) == /\ SumFunctionOnSet(f, s) \in Nat
                      /\ SumFunctionOnSet(f, s) <= 10000 * Cardinality(s)
           T == {s \in SUBSET S : Good(s)}
<1> HIDE DEF T, Good
<1>1. ASSUME NEW s \in SUBSET S, \A x \in s : s \ {x} \in T PROVE s \in T
  <2>1. CASE s = {}
    <3>1. SumFunctionOnSet(f, s) = 0 /\ Cardinality(s) = 0
      BY <2>1, SumEmpty, FS_EmptySet
    <3> QED BY <3>1 DEF T, Good
  <2>2. ASSUME NEW x \in s PROVE s \in T
    <3>1. IsFiniteSet(s) /\ Cardinality(s \ {x}) \in Nat
          /\ Cardinality(s) = Cardinality(s \ {x}) + 1
      BY FS_Subset, FS_RemoveElement, FS_CardinalityType
    <3>2. \A y \in s : f[y] \in Int
      BY DEF Shares
    <3>3. SumFunctionOnSet(f, s) = f[x] + SumFunctionOnSet(f, s \ {x})
      BY <3>1, <3>2, SumRemove
    <3>4. Good(s \ {x})
      BY <1>1 DEF T
    <3>5. f[x] \in Nat /\ f[x] <= 10000
      BY DEF Shares
    <3>6. Good(s)
      BY <3>1, <3>3, <3>4, <3>5 DEF Good
    <3> QED BY <3>6 DEF T
  <2> QED BY <2>1, <2>2
<1>2. \A s \in SUBSET S : s \in T
  BY <1>1, SubsetInduction
<1>3. Good(S)
  BY <1>2 DEF T
<1> QED BY <1>3 DEF Good

LEMMA SumOfFullShares ==
    ASSUME NEW f, NEW S, IsFiniteSet(S), FullShares(f, S)
    PROVE  SumFunctionOnSet(f, S) = 10000 * Cardinality(S)
<1> DEFINE T == {s \in SUBSET S : SumFunctionOnSet(f, s) = 10000 * Cardinality(s)}
<1> HIDE DEF T
<1>1. ASSUME NEW s \in SUBSET S, \A x \in s : s \ {x} \in T PROVE s \in T
  <2>1. CASE s = {}
    <3>1. SumFunctionOnSet(f, s) = 0 /\ Cardinality(s) = 0
      BY <2>1, SumEmpty, FS_EmptySet
    <3> QED BY <3>1 DEF T
  <2>2. ASSUME NEW x \in s PROVE s \in T
    <3>1. IsFiniteSet(s) /\ Cardinality(s \ {x}) \in Nat
          /\ Cardinality(s) = Cardinality(s \ {x}) + 1
      BY FS_Subset, FS_RemoveElement, FS_CardinalityType
    <3>2. \A y \in s : f[y] \in Int
      BY DEF FullShares
    <3>3. SumFunctionOnSet(f, s) = f[x] + SumFunctionOnSet(f, s \ {x})
      BY <3>1, <3>2, SumRemove
    <3>4. SumFunctionOnSet(f, s \ {x}) = 10000 * Cardinality(s \ {x})
      BY <1>1 DEF T
    <3>5. f[x] = 10000
      BY DEF FullShares
    <3>6. SumFunctionOnSet(f, s) = 10000 * Cardinality(s)
      BY <3>1, <3>3, <3>4, <3>5
    <3> QED BY <3>6 DEF T
  <2> QED BY <2>1, <2>2
<1>2. \A s \in SUBSET S : s \in T
  BY <1>1, SubsetInduction
<1> QED BY <1>2 DEF T

LEMMA SumNotNegative ==
    ASSUME NEW f, NEW S, IsFiniteSet(S), \A x \in S : f[x] \in Nat
    PROVE  SumFunctionOnSet(f, S) \in Nat
<1> DEFINE T == {s \in SUBSET S : SumFunctionOnSet(f, s) \in Nat}
<1>1. ASSUME NEW s \in SUBSET S, \A x \in s : s \ {x} \in T PROVE s \in T
  <2>1. CASE s = {}
    BY <2>1, SumEmpty
  <2>2. ASSUME NEW x \in s PROVE s \in T
    <3>0. IsFiniteSet(s) /\ \A y \in s : f[y] \in Int
      BY FS_Subset
    <3>1. SumFunctionOnSet(f, s) = f[x] + SumFunctionOnSet(f, s \ {x})
      BY <3>0, SumRemove
    <3> QED BY <1>1, <3>1
  <2> QED BY <2>1, <2>2
<1> HIDE DEF T
<1>2. \A s \in SUBSET S : s \in T
  BY <1>1, SubsetInduction
<1> QED BY <1>2 DEF T

Image(k, S) == {k[x] : x \in S}

\* A sum over the values of an injection, and how many there are.
LEMMA SumOverImage ==
    ASSUME NEW S, IsFiniteSet(S), NEW k, \A x, y \in S : k[x] = k[y] => x = y,
           NEW f, NEW h, \A x \in S : h[x] \in Int /\ f[k[x]] = h[x]
    PROVE  SumFunctionOnSet(f, Image(k, S)) = SumFunctionOnSet(h, S)
<1> DEFINE T == {s \in SUBSET S : SumFunctionOnSet(f, Image(k, s)) = SumFunctionOnSet(h, s)}
<1>1. ASSUME NEW s \in SUBSET S, \A x \in s : s \ {x} \in T PROVE s \in T
  <2>1. CASE s = {}
    BY <2>1, SumEmpty DEF Image
  <2>2. ASSUME NEW x \in s PROVE s \in T
    <3>1. IsFiniteSet(s)
      BY FS_Subset
    <3>2. IsFiniteSet(Image(k, s))
      <4> DEFINE m == [y \in s |-> k[y]]
      <4>1. m \in Surjection(s, Image(k, s))
        BY DEF Surjection, Image
      <4> QED BY <3>1, <4>1, FS_Surjection
    <3>3. k[x] \in Image(k, s) /\ \A y \in Image(k, s) : f[y] \in Int
      BY DEF Image
    <3>4. Image(k, s) \ {k[x]} = Image(k, s \ {x})
      BY DEF Image
    <3>y. \A y \in s : h[y] \in Int
      OBVIOUS
    <3>5. SumFunctionOnSet(f, Image(k, s)) = f[k[x]] + SumFunctionOnSet(f, Image(k, s \ {x}))
      <4>i. PICK J : J = Image(k, s)
        OBVIOUS
      <4>1. SumFunctionOnSet(f, J) = f[k[x]] + SumFunctionOnSet(f, J \ {k[x]})
        <5>1. IsFiniteSet(J) /\ k[x] \in J /\ \A y \in J : f[y] \in Int
          BY <4>i, <3>2, <3>3
        <5> QED BY <5>1, SumRemove
      <4> QED BY <4>i, <4>1, <3>4
    <3>6. SumFunctionOnSet(h, s) = h[x] + SumFunctionOnSet(h, s \ {x})
      BY <3>1, <3>y, SumRemove
    <3>7. s \ {x} \in T
      BY <1>1
    <3> QED BY <3>5, <3>6, <3>7
  <2> QED BY <2>1, <2>2
<1> HIDE DEF T
<1>2. \A s \in SUBSET S : s \in T
  BY <1>1, SubsetInduction
<1> QED BY <1>2 DEF T

LEMMA SizeOfImage ==
    ASSUME NEW S, IsFiniteSet(S), NEW k, \A x, y \in S : k[x] = k[y] => x = y
    PROVE  IsFiniteSet(Image(k, S)) /\ Cardinality(Image(k, S)) = Cardinality(S)
<1> DEFINE m == [y \in S |-> k[y]]
<1>1. m \in Surjection(S, Image(k, S)) /\ m \in Injection(S, Image(k, S))
  BY DEF Surjection, Injection, IsInjective, Image
<1> QED BY <1>1, FS_Surjection

-----------------------------------------------------------------------------
(* Rounded ratios.                                                         *)

LEMMA DivisionMonotone ==
    ASSUME NEW a \in Int, NEW b \in Int, NEW d \in Nat \ {0}, a <= b
    PROVE  a \div d <= b \div d
  OBVIOUS

LEMMA RatioOfShares ==
    ASSUME NEW d \in Nat \ {0}, NEW n \in Nat, n <= 10000 * d
    PROVE  /\ Ratio(n, d) \in Nat /\ Ratio(n, d) <= 10000
           /\ n = 10000 * d => Ratio(n, d) = 10000
  BY DEF Ratio

-----------------------------------------------------------------------------
(* The scan of a posting's lines.                                          *)

ScanStep(lines, g, i) ==
    IF i = 0 THEN [section |-> "neutral", rows |-> {}]
    ELSE ScanLine(lines, g[i - 1], i)
IsScan(lines, n, g) == g = [i \in 0 .. n |-> ScanStep(lines, g, i)]

\* The scan is defined, line by line.
LEMMA ScanExists ==
    ASSUME NEW lines, Len(lines) \in Nat
    PROVE  IsScan(lines, Len(lines), ScanAll(lines))
<1> DEFINE T == {n \in Nat : \E g : IsScan(lines, n, g)}
<1>1. 0 \in T
  <2> DEFINE g == [i \in 0 .. 0 |-> [section |-> "neutral", rows |-> {}]]
  <2>1. IsScan(lines, 0, g)
    BY DEF IsScan, ScanStep
  <2> QED BY <2>1
<1>2. ASSUME NEW n \in Nat, n \in T PROVE n + 1 \in T
  <2>1. PICK h : IsScan(lines, n, h)
    BY <1>2
  <2>2. PICK g : g = [i \in 0 .. n + 1 |-> ScanStep(lines, h, i)]
    OBVIOUS
  <2>3. ASSUME NEW i \in 0 .. n + 1 PROVE ScanStep(lines, g, i) = ScanStep(lines, h, i)
    <3>1. CASE i = 0
      BY <3>1 DEF ScanStep
    <3>2. CASE i # 0
      <4>1. i - 1 \in 0 .. n /\ i - 1 \in 0 .. n + 1
        BY <3>2
      <4>2. h[i - 1] = ScanStep(lines, h, i - 1)
        BY <2>1, <4>1 DEF IsScan
      <4>3. g[i - 1] = ScanStep(lines, h, i - 1)
        BY <2>2, <4>1
      <4> QED BY <3>2, <4>2, <4>3 DEF ScanStep
    <3> QED BY <3>1, <3>2
  <2>4. IsScan(lines, n + 1, g)
    BY <2>2, <2>3 DEF IsScan
  <2> QED BY <2>4
<1>3. Len(lines) \in T
  <2> HIDE DEF T
  <2> QED BY <1>1, <1>2, NaturalInduction
<1>4. \E g : IsScan(lines, Len(lines), g)
  BY <1>3
<1>5. ScanAll(lines) = CHOOSE g : IsScan(lines, Len(lines), g)
  BY DEF ScanAll, IsScan, ScanStep
<1> QED BY <1>4, <1>5

\* The lines up to the i-th that ask for these options, and whether one of
\* them requires it.
AskingTo(lines, i, options) ==
    {j \in 1 .. i : lines[j].header = "none" /\ options \in AsksOf(lines[j])}
RequiredBy(lines, i, options) ==
    \E j \in AskingTo(lines, i, options) :
        LineImportance(lines[j], SectionOf(lines, j)) = "required"

\* The rows that name options and the lines that ask for them agree.
RowsAgree(lines, i, rows) ==
    /\ \A r \in rows : r.options # {} =>
          /\ AskingTo(lines, i, r.options) # {}
          /\ r.importance \in Importances
          /\ r.importance = "required" <=> RequiredBy(lines, i, r.options)
    /\ \A options : AskingTo(lines, i, options) # {} => \E r \in rows : r.options = options
    /\ IsFiniteSet(rows)
    /\ \A r \in rows : r.options = {} => r.years \in Nat

LEMMA FiniteImage == ASSUME NEW S, IsFiniteSet(S), NEW f PROVE IsFiniteSet(Image(f, S))
<1> DEFINE m == [y \in S |-> f[y]]
<1>1. m \in Surjection(S, Image(f, S))
  BY DEF Surjection, Image
<1> QED BY <1>1, FS_Surjection

LEMMA AsksOfLine ==
    ASSUME NEW line, IsFiniteSet(line.skills)
    PROVE  IsFiniteSet(AsksOf(line)) /\ {} \notin AsksOf(line)
<1>1. IsFiniteSet({line.skills})
  BY FS_Singleton
<1>2. IsFiniteSet({{s} : s \in line.skills})
  <2>1. PICK f : f = [s \in line.skills |-> {s}]
    OBVIOUS
  <2>2. Image(f, line.skills) = {{s} : s \in line.skills}
    BY <2>1 DEF Image
  <2> QED BY <2>2, FiniteImage
<1>3. Cardinality(line.skills) > 1 => line.skills # {}
  BY FS_EmptySet
<1> QED BY <1>1, <1>2, <1>3 DEF AsksOf

LEMMA LineImportances ==
    ASSUME NEW line, NEW section PROVE LineImportance(line, section) \in Importances
BY DEF LineImportance, Importances

\* The section carries over.
LEMMA SectionCarries ==
    ASSUME NEW lines, NEW i \in Nat \ {0}
    PROVE  SectionOf(lines, i + 1) = IF lines[i].header # "none" THEN lines[i].header
                                     ELSE SectionOf(lines, i)
<1> DEFINE H(k) == {j \in 1 .. k - 1 : lines[j].header # "none"}
<1>1. CASE lines[i].header # "none"
  <2>1. i \in H(i + 1) /\ \A k \in H(i + 1) : k \in Int /\ k <= i
    BY <1>1
  <2>2. (CHOOSE j \in H(i + 1) : \A k \in H(i + 1) : k <= j) = i
    <3>1. i \in H(i + 1) /\ \A k \in H(i + 1) : k <= i
      BY <2>1
    <3>2. PICK c : c = CHOOSE j \in H(i + 1) : \A k \in H(i + 1) : k <= j
      OBVIOUS
    <3>3. c \in H(i + 1) /\ \A k \in H(i + 1) : k <= c
      BY <3>1, <3>2
    <3>4. i <= c /\ c <= i /\ c \in Int
      BY <2>1, <3>3
    <3> QED BY <3>2, <3>4
  <2> QED BY <1>1, <2>1, <2>2 DEF SectionOf
<1>2. CASE lines[i].header = "none"
  <2>1. H(i + 1) = H(i)
    BY <1>2
  <2>2. \A k : SectionOf(lines, k) =
              IF H(k) = {} THEN "neutral"
              ELSE lines[CHOOSE j \in H(k) : \A m \in H(k) : m <= j].header
    BY DEF SectionOf
  <2> HIDE DEF H
  <2>3. SectionOf(lines, i + 1) = SectionOf(lines, i)
    BY <2>1, <2>2
  <2> QED BY <1>2, <2>3
<1> QED BY <1>1, <1>2

\* One line more.
LEMMA AskingMore ==
    ASSUME NEW lines, NEW i \in Nat \ {0}, NEW options
    PROVE  /\ AskingTo(lines, i, options) =
                 AskingTo(lines, i - 1, options) \cup
                     (IF lines[i].header = "none" /\ options \in AsksOf(lines[i])
                      THEN {i} ELSE {})
           /\ RequiredBy(lines, i, options) <=>
                 \/ RequiredBy(lines, i - 1, options)
                 \/ /\ lines[i].header = "none" /\ options \in AsksOf(lines[i])
                    /\ LineImportance(lines[i], SectionOf(lines, i)) = "required"
<1>1. 1 .. i = (1 .. i - 1) \cup {i}
  OBVIOUS
<1>2. AskingTo(lines, i, options) =
                 AskingTo(lines, i - 1, options) \cup
                     (IF lines[i].header = "none" /\ options \in AsksOf(lines[i])
                      THEN {i} ELSE {})
  BY <1>1 DEF AskingTo
<1> QED BY <1>2 DEF RequiredBy

LEMMA MergeAgrees ==
    ASSUME NEW lines, NEW i \in Nat \ {0}, NEW rows, RowsAgree(lines, i - 1, rows),
           lines[i].header = "none", IsFiniteSet(lines[i].skills),
           IsFiniteSet(lines[i].years), lines[i].years \subseteq Nat
    PROVE  LET importance == LineImportance(lines[i], SectionOf(lines, i))
               aged == {Requirement({}, y, i, importance) :
                           y \in IF lines[i].skills = {} THEN lines[i].years ELSE {}}
           IN  RowsAgree(lines, i, MergeAsks(rows, AsksOf(lines[i]), importance) \cup aged)
<1> DEFINE line == lines[i]
           imp  == LineImportance(line, SectionOf(lines, i))
           asks == AsksOf(line)
           old  == {r \in rows : r.options \in asks}
           new  == {options \in asks :
                      \A r \in rows : r.options = options =>
                          r.importance = "preferred" /\ imp = "required"}
           kept == {r \in rows : r.options \notin new}
           made == {Requirement(options, 0, 0, imp) : options \in new}
           ages == IF line.skills = {} THEN line.years ELSE {}
           aged == {Requirement({}, y, i, imp) : y \in ages}
<1>1. imp \in Importances /\ "required" # "preferred" /\ Importances = {"required", "preferred"}
  BY LineImportances DEF Importances
<1>2. IsFiniteSet(asks) /\ {} \notin asks
  BY AsksOfLine
<1>3. MergeAsks(rows, asks, imp) \cup aged = kept \cup made \cup aged
  BY DEF MergeAsks
<1>4. IsFiniteSet(kept \cup made \cup aged)
  <2>1. IsFiniteSet(kept)
    BY FS_Subset DEF RowsAgree
  <2>2. IsFiniteSet(made)
    <3>1. PICK f : f = [options \in new |-> Requirement(options, 0, 0, imp)]
      OBVIOUS
    <3>2. Image(f, new) = made
      BY <3>1 DEF Image
    <3>3. IsFiniteSet(new)
      BY <1>2, FS_Subset
    <3> QED BY <3>2, <3>3, FiniteImage
  <2>3. IsFiniteSet(aged)
    <3>1. PICK f : f = [y \in ages |-> Requirement({}, y, i, imp)]
      OBVIOUS
    <3>2. Image(f, ages) = aged
      BY <3>1 DEF Image
    <3>3. IsFiniteSet(ages)
      BY FS_EmptySet
    <3> QED BY <3>2, <3>3, FiniteImage
  <2> HIDE DEF kept, made, aged
  <2> QED BY <2>1, <2>2, <2>3, FS_Union
<1>5. \A options :
         /\ AskingTo(lines, i, options) =
                AskingTo(lines, i - 1, options) \cup (IF options \in asks THEN {i} ELSE {})
         /\ RequiredBy(lines, i, options) <=>
                RequiredBy(lines, i - 1, options) \/ (options \in asks /\ imp = "required")
  BY AskingMore
<1>6. /\ \A r \in made : r.options \in new /\ r.importance = imp
      /\ \A r \in aged : r.options = {} /\ r.years \in Nat
      /\ \A options \in new : \E r \in made : r.options = options
  <2>1. \A options, y : /\ Requirement(options, y, 0, imp).options = options
                        /\ Requirement(options, y, 0, imp).importance = imp
    BY DEF Requirement
  <2>2. \A y : /\ Requirement({}, y, i, imp).options = {}
               /\ Requirement({}, y, i, imp).years = y
    BY DEF Requirement
  <2>3. ages \subseteq Nat
    OBVIOUS
  <2> HIDE DEF new, ages, imp
  <2>4. \A r \in made : r.options \in new /\ r.importance = imp
    BY <2>1
  <2>5. \A r \in aged : r.options = {} /\ r.years \in Nat
    BY <2>2, <2>3
  <2>6. \A options \in new : \E r \in made : r.options = options
    BY <2>1
  <2> QED BY <2>4, <2>5, <2>6
<1>7. ASSUME NEW r \in kept, r.options # {}
      PROVE  /\ AskingTo(lines, i, r.options) # {}
             /\ r.importance \in Importances
             /\ r.importance = "required" <=> RequiredBy(lines, i, r.options)
  <2>1. /\ AskingTo(lines, i - 1, r.options) # {}
        /\ r.importance \in Importances
        /\ r.importance = "required" <=> RequiredBy(lines, i - 1, r.options)
    BY <1>7 DEF RowsAgree
  <2>2. AskingTo(lines, i, r.options) # {}
    BY <1>5, <2>1
  <2>3. CASE r.options \in asks
    <3>1. PICK s \in rows : s.options = r.options
                            /\ ~(s.importance = "preferred" /\ imp = "required")
      BY <2>3
    <3>2. /\ s.importance \in Importances
          /\ s.importance = "required" <=> RequiredBy(lines, i - 1, s.options)
      BY <1>7, <3>1 DEF RowsAgree
    <3> QED BY <1>1, <1>5, <2>1, <2>2, <2>3, <3>1, <3>2
  <2>4. CASE r.options \notin asks
    BY <1>5, <2>1, <2>2, <2>4
  <2> QED BY <2>3, <2>4
<1>8. ASSUME NEW r \in made
      PROVE  /\ AskingTo(lines, i, r.options) # {}
             /\ r.importance \in Importances
             /\ r.importance = "required" <=> RequiredBy(lines, i, r.options)
  <2>1. r.options \in asks /\ r.options # {} /\ r.importance = imp
    BY <1>2, <1>6
  <2>2. CASE imp = "required"
    BY <1>1, <1>5, <2>1, <2>2
  <2>3. CASE imp # "required"
    <3>1. \A s \in rows : s.options # r.options
      BY <1>6, <2>3
    <3>2. AskingTo(lines, i - 1, r.options) = {}
      BY <3>1 DEF RowsAgree
    <3>3. ~RequiredBy(lines, i - 1, r.options)
      BY <3>2 DEF RequiredBy
    <3> QED BY <1>1, <1>5, <2>1, <2>3, <3>3
  <2> QED BY <2>2, <2>3
<1>9. ASSUME NEW options, AskingTo(lines, i, options) # {}
      PROVE  \E r \in kept \cup made : r.options = options
  <2>1. CASE options \in new
    BY <1>6, <2>1
  <2>2. CASE options \notin new
    <3>1. CASE options \in asks
      BY <2>2, <3>1
    <3>2. CASE options \notin asks
      <4>1. AskingTo(lines, i - 1, options) # {}
        BY <1>5, <1>9, <3>2
      <4>2. \E r \in rows : r.options = options
        BY <4>1 DEF RowsAgree
      <4> QED BY <2>2, <4>2
    <3> QED BY <3>1, <3>2
  <2> QED BY <2>1, <2>2
<1>10. \A r \in kept \cup made \cup aged : r.options = {} => r.years \in Nat
  <2>1. \A r \in made : r.options # {}
    BY <1>2, <1>6
  <2>2. \A r \in kept : r.options = {} => r.years \in Nat
    BY DEF RowsAgree
  <2> QED BY <1>6, <2>1, <2>2
<1>11. RowsAgree(lines, i, kept \cup made \cup aged)
  <2> HIDE DEF kept, made, aged
  <2> QED BY <1>4, <1>6, <1>7, <1>8, <1>9, <1>10 DEF RowsAgree
<1> QED BY <1>3, <1>11

\* After i lines: the section of the next, and rows that agree with them.
LEMMA ScanAgrees ==
    ASSUME NEW job \in Postings
    PROVE  RowsAgree(job.lines, Len(job.lines), ScanAll(job.lines)[Len(job.lines)].rows)
<1> DEFINE lines == job.lines
           scan == ScanAll(lines)
           Good(i) == /\ scan[i].section = SectionOf(lines, i + 1)
                      /\ RowsAgree(lines, i, scan[i].rows)
                      /\ DOMAIN scan[i] = {"section", "rows"}
           T == {i \in Nat : i <= Len(lines) => Good(i)}
<1>1. /\ Len(lines) \in Nat /\ DOMAIN lines = 1 .. Len(lines)
      /\ \A i \in DOMAIN lines : /\ IsFiniteSet(lines[i].skills) /\ IsFiniteSet(lines[i].years)
                                 /\ lines[i].years \subseteq Nat
  BY DecideAssumption DEF PostingAssumption
<1>2. IsScan(lines, Len(lines), scan)
  BY <1>1, ScanExists
<1>3. \A i \in 0 .. Len(lines) : scan[i] = ScanStep(lines, scan, i)
  BY <1>2 DEF IsScan
<1> HIDE DEF scan, lines
<1>4. 0 \in T
  <2>1. scan[0] = [section |-> "neutral", rows |-> {}]
    BY <1>1, <1>3 DEF ScanStep
  <2>2. SectionOf(lines, 0 + 1) = "neutral"
    BY DEF SectionOf
  <2>3. \A options : AskingTo(lines, 0, options) = {}
    BY DEF AskingTo
  <2>4. RowsAgree(lines, 0, {})
    BY <2>3, FS_EmptySet DEF RowsAgree
  <2>5. scan[0].section = "neutral" /\ scan[0].rows = {} /\ DOMAIN scan[0] = {"section", "rows"}
    BY <2>1
  <2>6. Good(0)
    BY <2>2, <2>4, <2>5
  <2> QED BY <2>6
<1>5. ASSUME NEW n \in Nat, n \in T PROVE n + 1 \in T
  <2> DEFINE i == n + 1
             importance == LineImportance(lines[i], SectionOf(lines, i))
             asked == MergeAsks(scan[n].rows, AsksOf(lines[i]), importance)
             aged == {Requirement({}, y, i, importance) :
                           y \in IF lines[i].skills = {} THEN lines[i].years ELSE {}}
  <2> SUFFICES ASSUME i <= Len(lines) PROVE Good(i)
    OBVIOUS
  <2>1. Good(n) /\ i \in Nat \ {0} /\ i - 1 = n /\ i \in 0 .. Len(lines) /\ i \in DOMAIN lines
    BY <1>1, <1>5
  <2>2. scan[i] = ScanLine(lines, scan[n], i)
    BY <1>3, <2>1 DEF ScanStep
  <2>3. scan[i] = IF lines[i].header # "none" THEN [scan[n] EXCEPT !.section = lines[i].header]
                  ELSE [scan[n] EXCEPT !.rows = asked \cup aged]
    BY <2>1, <2>2 DEF ScanLine
  <2>4. SectionOf(lines, i + 1) = IF lines[i].header # "none" THEN lines[i].header
                                  ELSE SectionOf(lines, i)
    BY <2>1, SectionCarries
  <2>5. CASE lines[i].header # "none"
    <3>1. /\ scan[i].section = lines[i].header /\ scan[i].rows = scan[n].rows
          /\ DOMAIN scan[i] = {"section", "rows"}
      BY <2>1, <2>3, <2>5
    <3>2. \A options : /\ AskingTo(lines, i, options) = AskingTo(lines, n, options)
                       /\ RequiredBy(lines, i, options) <=> RequiredBy(lines, n, options)
      <4>1. \A options : /\ AskingTo(lines, i, options) = AskingTo(lines, i - 1, options)
                         /\ RequiredBy(lines, i, options) <=> RequiredBy(lines, i - 1, options)
        <5> HIDE DEF i
        <5>1. i \in Nat \ {0} /\ ~(lines[i].header = "none")
          BY <2>1, <2>5
        <5>2. ASSUME NEW options
              PROVE  /\ AskingTo(lines, i, options) =
                           AskingTo(lines, i - 1, options) \cup
                               (IF lines[i].header = "none" /\ options \in AsksOf(lines[i])
                                THEN {i} ELSE {})
                     /\ RequiredBy(lines, i, options) <=>
                           \/ RequiredBy(lines, i - 1, options)
                           \/ /\ lines[i].header = "none" /\ options \in AsksOf(lines[i])
                              /\ LineImportance(lines[i], SectionOf(lines, i)) = "required"
          BY <5>1, AskingMore
        <5> QED BY <5>1, <5>2
      <4> QED BY <2>1, <4>1
    <3>3. RowsAgree(lines, i, scan[i].rows)
      BY <2>1, <3>1, <3>2 DEF RowsAgree
    <3> QED BY <2>4, <2>5, <3>1, <3>3
  <2>6. CASE lines[i].header = "none"
    <3>1. /\ scan[i].section = scan[n].section /\ scan[i].rows = asked \cup aged
          /\ DOMAIN scan[i] = {"section", "rows"}
      BY <2>1, <2>3, <2>6
    <3>2. RowsAgree(lines, i - 1, scan[n].rows)
      BY <2>1
    <3>3. RowsAgree(lines, i, asked \cup aged)
      BY <1>1, <2>1, <2>6, <3>2, MergeAgrees
    <3> QED BY <2>1, <2>4, <2>6, <3>1, <3>3
  <2> QED BY <2>5, <2>6
<1>6. Len(lines) \in T
  <2> HIDE DEF T
  <2> QED BY <1>1, <1>4, <1>5, NaturalInduction
<1> QED BY <1>1, <1>6 DEF lines, scan

\* The requirements of a posting: finitely many, and the strictest reading of
\* the lines that ask for each.
LEMMA Requirements ==
    ASSUME NEW job \in Postings
    PROVE  /\ IsFiniteSet(FindRequirements(job))
           /\ \A r \in FindRequirements(job) :
                 /\ r.options = {} => r.years \in Nat
                 /\ r.options # {} =>
                      (r.importance = "required" <=>
                          \/ AskingTo(job.lines, Len(job.lines), r.options) = {}
                          \/ RequiredBy(job.lines, Len(job.lines), r.options))
<1> DEFINE rows == ScanAll(job.lines)[Len(job.lines)].rows
           silent == {t \in job.titleSkills : \A r \in rows : r.options # {t}}
           titled == {Requirement({s}, 0, 0, "required") : s \in silent}
<1>1. RowsAgree(job.lines, Len(job.lines), rows)
  BY ScanAgrees
<1>2. FindRequirements(job) = rows \cup titled
  BY DEF FindRequirements
<1>3. IsFiniteSet(titled)
  <2>1. PICK f : f = [s \in silent |-> Requirement({s}, 0, 0, "required")]
    OBVIOUS
  <2>2. Image(f, silent) = titled
    BY <2>1 DEF Image
  <2>3. IsFiniteSet(silent)
    BY FS_Subset, DecideAssumption DEF PostingAssumption
  <2> QED BY <2>2, <2>3, FiniteImage
<1>4. ASSUME NEW r \in titled
      PROVE  /\ r.options # {} /\ r.importance = "required"
             /\ AskingTo(job.lines, Len(job.lines), r.options) = {}
  <2>1. PICK s \in silent : r = Requirement({s}, 0, 0, "required")
    BY <1>4
  <2>2. r.options = {s} /\ r.importance = "required"
    BY <2>1 DEF Requirement
  <2> QED BY <1>1, <2>2 DEF RowsAgree
<1> HIDE DEF rows, titled
<1>5. IsFiniteSet(rows \cup titled)
  BY <1>1, <1>3, FS_Union DEF RowsAgree
<1>6. ASSUME NEW r \in rows
      PROVE  /\ r.options = {} => r.years \in Nat
             /\ r.options # {} =>
                  (r.importance = "required" <=>
                      \/ AskingTo(job.lines, Len(job.lines), r.options) = {}
                      \/ RequiredBy(job.lines, Len(job.lines), r.options))
  BY <1>1 DEF RowsAgree
<1> QED BY <1>2, <1>4, <1>5, <1>6

-----------------------------------------------------------------------------
(* The coverage of the requirements.                                       *)

Grades == {10000, 7500, 5500, 4000}

\* The strongest evidence is the one whose grade is highest.
LEMMA BestIsHighest ==
    ASSUME NEW scored, scored # {},
           \A e \in scored : e.score \in Grades /\ e.unit.id \in Nat
    PROVE  /\ BestScore(scored) \in Grades
           /\ \E e \in scored : e.score = BestScore(scored)
           /\ \A f \in scored : f.score <= BestScore(scored)
<1> DEFINE D == {10000 - e.score : e \in scored}
<1>1. D # {} /\ D \in SUBSET Nat
  <2>1. \A e \in scored : 10000 - e.score \in Nat
    BY DEF Grades
  <2> QED BY <2>1
<1>2. PICK d \in D : \A m \in D : d <= m
  <2> HIDE DEF D
  <2> QED BY <1>1, LeastNatural
<1> DEFINE top == {e \in scored : 10000 - e.score = d}
           I == {e.unit.id : e \in top}
<1>3. I # {} /\ I \in SUBSET Nat
  <2>1. top # {} /\ \A e \in top : e.unit.id \in Nat
    BY <1>2
  <2> HIDE DEF top
  <2> QED BY <2>1
<1>4. PICK i \in I : \A m \in I : i <= m
  <2> HIDE DEF I
  <2> QED BY <1>3, LeastNatural
<1>5. PICK e \in top : e.unit.id = i
  BY <1>4
<1>6. ASSUME NEW f \in scored PROVE ~Outranks(f, e)
  <2>1. /\ e.score \in Nat /\ f.score \in Nat /\ e.unit.id \in Nat /\ f.unit.id \in Nat
        /\ 10000 - e.score = d
    BY DEF Grades
  <2>2. d <= 10000 - f.score
    BY <1>2
  <2>3. f.score = e.score => f \in top
    BY <2>1
  <2>4. f \in top => e.unit.id <= f.unit.id
    BY <1>4, <1>5
  <2> QED BY <2>1, <2>2, <2>3, <2>4 DEF Outranks
<1>7. PICK b : b = CHOOSE x \in scored : \A f \in scored : ~Outranks(f, x)
  OBVIOUS
<1>8. b \in scored /\ \A f \in scored : ~Outranks(f, b)
  BY <1>6, <1>7
<1>9. BestScore(scored) = b.score
  BY <1>7 DEF BestScore
<1>10. ASSUME NEW f \in scored PROVE f.score <= b.score
  <2>1. b.score \in Nat /\ f.score \in Nat
    BY <1>8 DEF Grades
  <2> QED BY <1>8, <2>1 DEF Outranks
<1> QED BY <1>8, <1>9, <1>10

LEMMA ScoredGrades ==
    ASSUME NEW options, NEW units, \A u \in units : u.id \in Nat
    PROVE  \A e \in Scored(options, units) : e.score \in Grades /\ e.unit.id \in Nat
<1>1. \A relation, demonstrated : ScoreFor(relation, demonstrated) \in Grades
  BY DEF ScoreFor, Grades
<1> SUFFICES ASSUME NEW e \in Scored(options, units)
             PROVE  e.score \in Grades /\ e.unit.id \in Nat
  OBVIOUS
<1>2. PICK x \in units \X options :
         e = [unit |-> x[1], option |-> x[2],
              score |-> ScoreFor(IF x[2] \in x[1].direct THEN "direct" ELSE "implied",
                                 x[1].demonstrated)]
  BY DEF Scored
<1>3. x[1] \in units
  OBVIOUS
<1> HIDE DEF Scored
<1> QED BY <1>1, <1>2, <1>3

\* More units, more evidence.
LEMMA ScoredGrows ==
    ASSUME NEW options, NEW units, NEW less, less \subseteq units
    PROVE  Scored(options, less) \subseteq Scored(options, units)
<1>1. {x \in less \X options : x[2] \in x[1].direct \cup x[1].implied}
        \subseteq {x \in units \X options : x[2] \in x[1].direct \cup x[1].implied}
  OBVIOUS
<1> QED BY <1>1 DEF Scored

ScoreOfRow(r, p) == CoverRequirement(r, p).score

\* A requirement is covered to some share.
LEMMA RowIsShare ==
    ASSUME NEW r, r.options = {} => r.years \in Nat, NEW p, CandidateAssumption(p)
    PROVE  ScoreOfRow(r, p) \in Nat /\ ScoreOfRow(r, p) <= 10000
<1> DEFINE scored == Scored(r.options, p.units)
<1>1. ScoreOfRow(r, p) = IF r.options = {} THEN CoverYears(r.years, p)
                         ELSE IF scored = {} THEN 0 ELSE BestScore(scored)
  BY DEF ScoreOfRow, CoverRequirement
<1>2. CASE r.options = {}
  <2>1. SeniorityTenths[p.seniority] \in {5, 15, 35, 70, 100}
    BY DEF CandidateAssumption, CandidateLevel, SeniorityTenths
  <2>2. r.years # 0 => Ratio(SeniorityTenths[p.seniority] * 1000, r.years) \in Nat
    <3> SUFFICES ASSUME r.years # 0
                 PROVE  Ratio(SeniorityTenths[p.seniority] * 1000, r.years) \in Nat
      OBVIOUS
    <3> DEFINE d == r.years
               x == SeniorityTenths[p.seniority] * 1000
    <3>1. d \in Nat \ {0}
      BY <1>2
    <3>2. x \in Nat
      BY <2>1
    <3> HIDE DEF d, x
    <3>3. 2 * x + d \in Nat /\ 2 * d \in Nat \ {0}
      BY <3>1, <3>2
    <3>4. Ratio(x, d) \in Nat
      BY <3>3 DEF Ratio
    <3> QED BY <3>4 DEF d, x
  <2> QED BY <1>1, <1>2, <2>2 DEF CoverYears, AtMost
<1>3. CASE r.options # {} /\ scored = {}
  BY <1>1, <1>3
<1>4. CASE r.options # {} /\ scored # {}
  <2>1. BestScore(scored) \in Grades
    BY <1>4, ScoredGrades, BestIsHighest DEF CandidateAssumption
  <2> QED BY <1>1, <1>4, <2>1 DEF Grades
<1> QED BY <1>2, <1>3, <1>4

\* A resume with less in it covers no requirement better.
LEMMA RowGrows ==
    ASSUME NEW r, r.options = {} => r.years \in Nat,
           NEW p, CandidateAssumption(p), NEW q, CandidateAssumption(q),
           q.units \subseteq p.units, q.seniority = p.seniority
    PROVE  ScoreOfRow(r, q) <= ScoreOfRow(r, p)
<1> DEFINE more == Scored(r.options, p.units)
           less == Scored(r.options, q.units)
<1>1. ScoreOfRow(r, p) = IF r.options = {} THEN CoverYears(r.years, p)
                         ELSE IF more = {} THEN 0 ELSE BestScore(more)
  BY DEF ScoreOfRow, CoverRequirement
<1>2. ScoreOfRow(r, q) = IF r.options = {} THEN CoverYears(r.years, q)
                         ELSE IF less = {} THEN 0 ELSE BestScore(less)
  BY DEF ScoreOfRow, CoverRequirement
<1>3. ScoreOfRow(r, p) \in Nat /\ ScoreOfRow(r, q) \in Nat
  BY RowIsShare
<1>4. CASE r.options = {}
  BY <1>1, <1>2, <1>3, <1>4 DEF CoverYears
<1>5. CASE r.options # {} /\ less # {}
  <2>1. less \subseteq more /\ more # {}
    BY <1>5, ScoredGrows
  <2>2. \A e \in more : e.score \in Grades /\ e.unit.id \in Nat
    BY ScoredGrades DEF CandidateAssumption
  <2>3. \A f \in more : f.score <= BestScore(more)
    BY <2>1, <2>2, BestIsHighest
  <2>4. \E e \in less : e.score = BestScore(less)
    BY <1>5, <2>1, <2>2, BestIsHighest
  <2> QED BY <1>1, <1>2, <1>5, <2>1, <2>3, <2>4
<1>6. CASE r.options # {} /\ less = {}
  BY <1>2, <1>3, <1>6
<1> QED BY <1>4, <1>5, <1>6

RowsOf(job, importance) == {r \in FindRequirements(job) : r.importance = importance}
CoveragesOf(job, p, importance) ==
    {c \in CoverAll(job, p) : c.requirement.importance = importance}
ScoresOf(R, p) == [r \in R |-> ScoreOfRow(r, p)]

\* There is a coverage for each requirement, and the average is over them.
LEMMA AverageOfRows ==
    ASSUME NEW job \in Postings, NEW p, CandidateAssumption(p), NEW importance
    PROVE  LET R == RowsOf(job, importance)
           IN  Average(CoveragesOf(job, p, importance)) =
                   IF R = {} THEN 10000
                   ELSE Ratio(SumFunctionOnSet(ScoresOf(R, p), R), Cardinality(R))
<1> DEFINE R == RowsOf(job, importance)
           C == CoveragesOf(job, p, importance)
<1>k. PICK k : k = [r \in R |-> CoverRequirement(r, p)]
  OBVIOUS
<1>1. \A r : CoverRequirement(r, p).requirement = r
  BY DEF CoverRequirement
<1>2. C = Image(k, R)
  BY <1>1, <1>k DEF CoveragesOf, RowsOf, CoverAll, Image
<1>3. \A x, y \in R : k[x] = k[y] => x = y
  BY <1>1, <1>k
<1>4. IsFiniteSet(R)
  BY Requirements, FS_Subset DEF RowsOf
<1>5. IsFiniteSet(C) /\ Cardinality(C) = Cardinality(R)
  BY <1>2, <1>3, <1>4, SizeOfImage
<1>f. PICK f : f = [c \in C |-> c.score]
  OBVIOUS
<1>h. PICK h : h = ScoresOf(R, p)
  OBVIOUS
<1>6. \A r \in R : h[r] \in Int /\ f[k[r]] = h[r]
  <2> SUFFICES ASSUME NEW r \in R PROVE h[r] \in Int /\ f[k[r]] = h[r]
    OBVIOUS
  <2>1. h[r] = CoverRequirement(r, p).score /\ k[r] = CoverRequirement(r, p)
    BY <1>h, <1>k DEF ScoresOf, ScoreOfRow
  <2>2. k[r] \in C
    BY <1>2 DEF Image
  <2>3. h[r] \in Int
    <3>1. r.options = {} => r.years \in Nat
      BY Requirements DEF RowsOf
    <3> QED BY <2>1, <3>1, RowIsShare DEF ScoreOfRow
  <2> QED BY <1>f, <2>1, <2>2, <2>3
<1> HIDE DEF R, C
<1>7. SumFunctionOnSet(f, C) = SumFunctionOnSet(h, R)
  <2>1. SumFunctionOnSet(f, Image(k, R)) = SumFunctionOnSet(h, R)
    BY <1>3, <1>4, <1>6, SumOverImage
  <2> QED BY <1>2, <2>1
<1>8. SumFunction([c \in C |-> c.score]) = SumFunctionOnSet(f, C)
  BY <1>f DEF SumFunction
<1>9. C = {} <=> R = {}
  BY <1>2 DEF Image
<1>10. Average(C) = IF R = {} THEN 10000
                   ELSE Ratio(SumFunctionOnSet(h, R), Cardinality(R))
  BY <1>5, <1>7, <1>8, <1>9 DEF Average
<1> QED BY <1>10, <1>h DEF R, C

\* The average of shares is a share.
LEMMA AverageIsShare ==
    ASSUME NEW job \in Postings, NEW p, CandidateAssumption(p), NEW importance
    PROVE  LET a == Average(CoveragesOf(job, p, importance))
           IN  a \in Nat /\ a <= 10000
<1> DEFINE R == RowsOf(job, importance)
           h == ScoresOf(R, p)
           s == SumFunctionOnSet(h, R)
           n == Cardinality(R)
<1>1. IsFiniteSet(R)
  BY Requirements, FS_Subset DEF RowsOf
<1>2. Shares(h, R)
  <2> SUFFICES ASSUME NEW r \in R PROVE h[r] \in Nat /\ h[r] <= 10000
    BY DEF Shares
  <2>1. r.options = {} => r.years \in Nat
    BY Requirements DEF RowsOf
  <2> QED BY <2>1, RowIsShare DEF ScoresOf
<1> HIDE DEF R, h
<1>3. s \in Nat /\ s <= 10000 * n
  BY <1>1, <1>2, SumOfShares
<1>4. R # {} => n \in Nat \ {0}
  BY <1>1, FS_CardinalityType, FS_EmptySet
<1>5. Average(CoveragesOf(job, p, importance)) = IF R = {} THEN 10000 ELSE Ratio(s, n)
  BY AverageOfRows DEF R, h
<1> HIDE DEF s, n
<1>6. CASE R # {}
  <2>1. Ratio(s, n) \in Nat /\ Ratio(s, n) <= 10000
    BY <1>3, <1>4, <1>6, RatioOfShares
  <2> QED BY <1>5, <1>6, <2>1
<1> QED BY <1>5, <1>6

\* Everything covered is ten thousand.
LEMMA AverageOfFull ==
    ASSUME NEW job \in Postings, NEW p, CandidateAssumption(p), NEW importance,
           \A c \in CoverAll(job, p) : c.score = 10000
    PROVE  Average(CoveragesOf(job, p, importance)) = 10000
<1> DEFINE R == RowsOf(job, importance)
           h == ScoresOf(R, p)
           s == SumFunctionOnSet(h, R)
           n == Cardinality(R)
<1>1. IsFiniteSet(R)
  BY Requirements, FS_Subset DEF RowsOf
<1>2. FullShares(h, R)
  BY DEF FullShares, RowsOf, ScoresOf, ScoreOfRow, CoverAll
<1> HIDE DEF R, h
<1>3. s = 10000 * n
  BY <1>1, <1>2, SumOfFullShares
<1>4. R # {} => n \in Nat \ {0}
  BY <1>1, FS_CardinalityType, FS_EmptySet
<1>5. Average(CoveragesOf(job, p, importance)) = IF R = {} THEN 10000 ELSE Ratio(s, n)
  BY AverageOfRows DEF R, h
<1> HIDE DEF s, n
<1>6. CASE R # {}
  <2>1. s \in Nat /\ s <= 10000 * n
    BY <1>3, <1>4, <1>6
  <2>2. Ratio(s, n) = 10000
    BY <1>3, <1>4, <1>6, <2>1, RatioOfShares
  <2> QED BY <1>5, <1>6, <2>2
<1> QED BY <1>5, <1>6

LEMMA AverageGrows ==
    ASSUME NEW job \in Postings, NEW importance,
           NEW p, CandidateAssumption(p), NEW q, CandidateAssumption(q),
           q.units \subseteq p.units, q.seniority = p.seniority
    PROVE  Average(CoveragesOf(job, q, importance)) <= Average(CoveragesOf(job, p, importance))
<1> DEFINE R == RowsOf(job, importance)
           n == Cardinality(R)
           Sum(x) == SumFunctionOnSet(ScoresOf(R, x), R)
<1>1. IsFiniteSet(R)
  BY Requirements, FS_Subset DEF RowsOf
<1>2. \A r \in R : /\ ScoresOf(R, q)[r] \in Int /\ ScoresOf(R, p)[r] \in Int
                   /\ ScoresOf(R, q)[r] <= ScoresOf(R, p)[r]
  <2> SUFFICES ASSUME NEW r \in R
               PROVE  /\ ScoresOf(R, q)[r] \in Int /\ ScoresOf(R, p)[r] \in Int
                      /\ ScoresOf(R, q)[r] <= ScoresOf(R, p)[r]
    OBVIOUS
  <2>1. r.options = {} => r.years \in Nat
    BY Requirements DEF RowsOf
  <2>2. /\ ScoreOfRow(r, q) \in Int /\ ScoreOfRow(r, p) \in Int
        /\ ScoreOfRow(r, q) <= ScoreOfRow(r, p)
    BY <2>1, RowIsShare, RowGrows
  <2> QED BY <2>2 DEF ScoresOf
<1>3. /\ Average(CoveragesOf(job, q, importance)) = IF R = {} THEN 10000 ELSE Ratio(Sum(q), n)
      /\ Average(CoveragesOf(job, p, importance)) = IF R = {} THEN 10000 ELSE Ratio(Sum(p), n)
  BY AverageOfRows
<1> HIDE DEF R
<1>4. Sum(q) \in Int /\ Sum(p) \in Int
  BY <1>1, <1>2, SumRemove
<1>5. Sum(q) <= Sum(p)
  BY <1>1, <1>2, SumMonotone
<1>6. R # {} => n \in Nat \ {0}
  BY <1>1, FS_CardinalityType, FS_EmptySet
<1> HIDE DEF Sum, n
<1>7. R # {} => Ratio(Sum(q), n) <= Ratio(Sum(p), n)
  <2> SUFFICES ASSUME R # {} PROVE Ratio(Sum(q), n) <= Ratio(Sum(p), n)
    OBVIOUS
  <2>1. 2 * Sum(q) + n \in Int /\ 2 * Sum(p) + n \in Int /\ 2 * n \in Nat \ {0}
        /\ 2 * Sum(q) + n <= 2 * Sum(p) + n
    BY <1>4, <1>5, <1>6
  <2>2. (2 * Sum(q) + n) \div (2 * n) <= (2 * Sum(p) + n) \div (2 * n)
    BY <2>1, DivisionMonotone
  <2> QED BY <2>2 DEF Ratio
<1> QED BY <1>3, <1>7

-----------------------------------------------------------------------------
(* Ranking by counting what comes before.                                  *)

Behind(B, D, i) == {j \in D : <<j, i>> \in B}
CountRank(B, D, i) == 1 + Cardinality(Behind(B, D, i))

StrictTotal(B, D) ==
    /\ \A i \in D : <<i, i>> \notin B
    /\ \A i, j, k \in D : <<i, j>> \in B /\ <<j, k>> \in B => <<i, k>> \in B
    /\ \A i, j \in D : i # j => <<i, j>> \in B \/ <<j, i>> \in B

\* Under a strict total order the counts are the places, one for each.
Placed(B, D) ==
    /\ \A i \in D : CountRank(B, D, i) \in D
    /\ \A i, k \in D : CountRank(B, D, i) < CountRank(B, D, k) <=> <<i, k>> \in B
    /\ \A m \in D : \E i \in D : CountRank(B, D, i) = m

LEMMA CountsArePlaces ==
    ASSUME NEW n \in Nat, NEW D, D = 1 .. n, NEW B, StrictTotal(B, D)
    PROVE  Placed(B, D)
<1>0. /\ \A i \in D : <<i, i>> \notin B
      /\ \A i, j, k \in D : <<i, j>> \in B /\ <<j, k>> \in B => <<i, k>> \in B
      /\ \A i, j \in D : i # j => <<i, j>> \in B \/ <<j, i>> \in B
  BY DEF StrictTotal
<1>1. IsFiniteSet(D) /\ Cardinality(D) = n
  BY FS_Interval
<1>2. ASSUME NEW i \in D
      PROVE  /\ IsFiniteSet(Behind(B, D, i)) /\ Cardinality(Behind(B, D, i)) \in Nat
             /\ Cardinality(Behind(B, D, i)) < n
  <2>1. Behind(B, D, i) \in SUBSET D /\ i \notin Behind(B, D, i)
    BY <1>0 DEF Behind
  <2>2. /\ IsFiniteSet(Behind(B, D, i)) /\ Cardinality(Behind(B, D, i)) <= n
        /\ Cardinality(Behind(B, D, i)) # n
    <3> HIDE DEF Behind
    <3>1. /\ Cardinality(Behind(B, D, i)) <= Cardinality(D)
          /\ Cardinality(D) = Cardinality(Behind(B, D, i)) => D = Behind(B, D, i)
          /\ IsFiniteSet(Behind(B, D, i))
      BY <1>1, <2>1, FS_Subset
    <3> QED BY <1>1, <2>1, <3>1
  <2>3. Cardinality(Behind(B, D, i)) \in Nat
    BY <2>2, FS_CardinalityType
  <2> QED BY <2>2, <2>3
<1>3. \A i \in D : CountRank(B, D, i) \in D
  BY <1>2 DEF CountRank
<1>4. ASSUME NEW i \in D, NEW k \in D, <<i, k>> \in B
      PROVE  CountRank(B, D, i) < CountRank(B, D, k)
  <2> DEFINE S == Behind(B, D, i)
             U == Behind(B, D, k)
  <2>1. S \in SUBSET U /\ i \in U /\ i \notin S
    BY <1>0, <1>4 DEF Behind
  <2>2. /\ IsFiniteSet(U) /\ Cardinality(U) \in Nat /\ Cardinality(S) \in Nat
    BY <1>2
  <2> HIDE DEF S, U
  <2>3. Cardinality(S) <= Cardinality(U) /\ (Cardinality(U) = Cardinality(S) => U = S)
    BY <2>1, <2>2, FS_Subset
  <2>4. Cardinality(S) < Cardinality(U)
    BY <2>1, <2>2, <2>3
  <2> QED BY <2>2, <2>4 DEF CountRank, S, U
<1>5. ASSUME NEW i \in D, NEW k \in D, CountRank(B, D, i) < CountRank(B, D, k)
      PROVE  <<i, k>> \in B
  <2>1. CountRank(B, D, i) \in Nat /\ CountRank(B, D, k) \in Nat
    BY <1>3
  <2>2. i # k
    BY <1>5, <2>1
  <2>3. <<k, i>> \notin B
    BY <1>4, <1>5, <2>1
  <2> QED BY <1>0, <2>2, <2>3
<1>6. \A m \in D : \E i \in D : CountRank(B, D, i) = m
  <2>f. PICK f : f = [i \in D |-> CountRank(B, D, i)]
    OBVIOUS
  <2>1. f \in [D -> D]
    BY <1>3, <2>f
  <2>2. ASSUME NEW i \in D, NEW k \in D, f[i] = f[k] PROVE i = k
    <3>1. f[i] \in Nat /\ f[k] \in Nat /\ ~(f[i] < f[k]) /\ ~(f[k] < f[i])
      BY <2>1, <2>2
    <3>2. <<i, k>> \notin B /\ <<k, i>> \notin B
      BY <1>4, <2>f, <3>1
    <3> QED BY <1>0, <3>2
  <2>3. f \in Injection(D, D)
    BY <2>1, <2>2 DEF Injection, IsInjective
  <2>4. f \in Surjection(D, D)
    BY <1>1, <2>3, FS_Injection
  <2> QED BY <2>f, <2>4 DEF Surjection
<1> QED BY <1>3, <1>4, <1>5, <1>6 DEF Placed

-----------------------------------------------------------------------------
(* Scores.                                                                 *)

LEMMA ShareBounds == \A n : n \in Share <=> n \in Nat /\ n <= 10000
<1>1. \A n \in Nat : n <= 10000 => n \in Share
  BY DEF Share
<1>2. \A n \in Share : n \in Nat /\ n <= 10000
  BY DEF Share
<1> QED BY <1>1, <1>2

LEMMA ConstraintsFinite ==
    ASSUME NEW job \in Postings PROVE IsFiniteSet(Constraints(job))
<1> DEFINE lines == job.lines
           asked == UNION {lines[i].asks : i \in DOMAIN lines}
           found == FindConstraints(lines)
<1>1. /\ Len(lines) \in Nat /\ DOMAIN lines = 1 .. Len(lines)
      /\ \A i \in DOMAIN lines : IsFiniteSet(lines[i].asks)
  BY DecideAssumption DEF PostingAssumption
<1>2. IsFiniteSet({lines[i].asks : i \in DOMAIN lines})
  <2>1. IsFiniteSet(DOMAIN lines)
    BY <1>1, FS_Interval
  <2>2. PICK f : f = [i \in DOMAIN lines |-> lines[i].asks]
    OBVIOUS
  <2>3. Image(f, DOMAIN lines) = {lines[i].asks : i \in DOMAIN lines}
    BY <2>2 DEF Image
  <2> QED BY <2>1, <2>3, FiniteImage
<1>3. IsFiniteSet(asked)
  BY <1>1, <1>2, FS_UNION
<1>4. found \in SUBSET asked
  BY DEF FindConstraints, FirstAsks
<1>5. IsFiniteSet(found)
  BY <1>3, <1>4, FS_Subset
<1>6. \E x, y : Constraints(job) \subseteq (found \cup {x}) \cup {y}
  BY DEF Constraints
<1> HIDE DEF found
<1>7. PICK x, y : Constraints(job) \subseteq (found \cup {x}) \cup {y}
  BY <1>6
<1>8. IsFiniteSet((found \cup {x}) \cup {y})
  BY <1>5, FS_AddElement
<1> QED BY <1>7, <1>8, FS_Subset

LEMMA GateFinite ==
    ASSUME NEW job \in Postings, NEW p PROVE IsFiniteSet(Evaluate(job, p))
<1>1. PICK f : f = [c \in Constraints(job) |-> [constraint |-> c, status |-> StatusOf(c, p)]]
  OBVIOUS
<1>2. Image(f, Constraints(job)) = Evaluate(job, p)
  BY <1>1 DEF Image, Evaluate
<1> QED BY <1>2, ConstraintsFinite, FiniteImage

LEMMA PenaltyIsCapped ==
    ASSUME NEW gate, IsFiniteSet(gate)
    PROVE  RiskPenalty(gate) \in Nat /\ RiskPenalty(gate) <= 3000
<1> DEFINE R == Risks(gate)
<1>f. PICK f : f = [v \in R |-> RiskWeight(v.constraint.kind)]
  OBVIOUS
<1>1. \A kind : RiskWeight(kind) \in Nat
  BY DEF RiskWeight
<1>2. \A v \in R : f[v] \in Nat
  BY <1>f, <1>1
<1>3. IsFiniteSet(R)
  BY FS_Subset DEF Risks
<1> HIDE DEF R
<1>4. SumFunctionOnSet(f, R) \in Nat
  BY <1>2, <1>3, SumNotNegative
<1>5. RiskPenalty(gate) = AtMost(3000, SumFunctionOnSet(f, R))
  BY <1>f DEF RiskPenalty, SumFunction, R
<1> QED BY <1>4, <1>5 DEF AtMost

\* The score, from shares that are none the worse for having no fraction.
LEMMA ScoreIsShare ==
    ASSUME NEW required \in Int, NEW preferred \in Int, NEW similarity \in Int,
           NEW fit \in Int, NEW penalty \in Int
    PROVE  /\ ScoreOf(required, preferred, similarity, fit, penalty) \in Nat
           /\ ScoreOf(required, preferred, similarity, fit, penalty) <= 10000
<1>r. PICK raw : raw = 50 * required + 15 * preferred + 20 * similarity + 15 * fit - 100 * penalty
  OBVIOUS
<1>1. raw \in Int
  BY <1>r
<1>2. raw >= 0 => Ratio(raw, 100) \in Nat
  BY <1>1 DEF Ratio
<1>3. ScoreOf(required, preferred, similarity, fit, penalty) =
          IF raw < 0 THEN 0 ELSE AtMost(10000, Ratio(raw, 100))
  BY <1>r DEF ScoreOf
<1> QED BY <1>1, <1>2, <1>3 DEF AtMost

LEMMA FitIsInteger ==
    ASSUME NEW job \in Postings, NEW p, CandidateAssumption(p)
    PROVE  SeniorityFit(job, p) \in Int
<1>1. job.seniority # "unknown" => JobLevel[job.seniority] \in Int
  BY DecideAssumption DEF PostingAssumption, JobLevel
<1>2. CandidateLevel[p.seniority] \in Int
  BY DEF CandidateAssumption, CandidateLevel
<1> QED BY <1>1, <1>2 DEF SeniorityFit, AtMost

LEMMA DecisionFields ==
    ASSUME NEW job \in Postings, NEW p, CandidateAssumption(p)
    PROVE  LET d == DecidePrepared(job, p)
               required == Average(CoveragesOf(job, p, "required"))
               preferred == Average(CoveragesOf(job, p, "preferred"))
           IN  /\ d.job = job.key /\ d.company = job.company /\ d.company \in Nat
               /\ d.gate = Evaluate(job, p) /\ d.coverages = CoverAll(job, p)
               /\ d.score = ScoreOf(required, preferred, job.similarity,
                                    SeniorityFit(job, p), RiskPenalty(d.gate))
               /\ d.verdict = VerdictOf(d.score, d.gate, required)
               /\ d.score \in Nat /\ d.score <= 10000
<1> DEFINE d == DecidePrepared(job, p)
           required == Average(CoveragesOf(job, p, "required"))
           preferred == Average(CoveragesOf(job, p, "preferred"))
<1>1. /\ RequiredCoverage(CoverAll(job, p)) = required
      /\ PreferredCoverage(CoverAll(job, p)) = preferred
  BY DEF RequiredCoverage, PreferredCoverage, CoveragesOf
<1>2. /\ required \in Int /\ preferred \in Int
  BY AverageIsShare
<1>3. job.similarity \in Int /\ job.company \in Nat
  <2>1. PostingAssumption(job)
    BY DecideAssumption
  <2>2. job.similarity \in Share /\ job.company \in Nat
    BY <2>1 DEF PostingAssumption
  <2> QED BY <2>2, ShareBounds
<1>4. RiskPenalty(Evaluate(job, p)) \in Int
  BY GateFinite, PenaltyIsCapped
<1>5. SeniorityFit(job, p) \in Int
  BY FitIsInteger
<1> HIDE DEF required, preferred
<1>6. /\ d.job = job.key /\ d.company = job.company
      /\ d.gate = Evaluate(job, p) /\ d.coverages = CoverAll(job, p)
      /\ d.score = ScoreOf(required, preferred, job.similarity,
                           SeniorityFit(job, p), RiskPenalty(d.gate))
      /\ d.verdict = VerdictOf(d.score, d.gate, required)
  BY <1>1 DEF DecidePrepared
<1> HIDE DEF d
<1>7. d.score \in Nat /\ d.score <= 10000
  <2> DEFINE similarity == job.similarity
             fit == SeniorityFit(job, p)
             penalty == RiskPenalty(d.gate)
  <2>1. /\ required \in Int /\ preferred \in Int /\ similarity \in Int /\ fit \in Int
        /\ penalty \in Int
    BY <1>2, <1>3, <1>4, <1>5, <1>6
  <2>2. d.score = ScoreOf(required, preferred, similarity, fit, penalty)
    BY <1>6
  <2> HIDE DEF similarity, fit, penalty
  <2>3. /\ ScoreOf(required, preferred, similarity, fit, penalty) \in Nat
        /\ ScoreOf(required, preferred, similarity, fit, penalty) <= 10000
    BY <2>1, ScoreIsShare
  <2> QED BY <2>2, <2>3
<1> QED BY <1>3, <1>6, <1>7 DEF d, required, preferred

\* A perfect match stands at the threshold at least, whatever the flags.
LEMMA PerfectApplies ==
    ASSUME NEW job \in Postings, NEW p, CandidateAssumption(p),
           Passed(Evaluate(job, p)), \A c \in CoverAll(job, p) : c.score = 10000,
           job.similarity = 10000, SeniorityFit(job, p) = 10000
    PROVE  DecidePrepared(job, p).verdict = "apply"
<1> DEFINE d == DecidePrepared(job, p)
           required == Average(CoveragesOf(job, p, "required"))
           preferred == Average(CoveragesOf(job, p, "preferred"))
           penalty == RiskPenalty(Evaluate(job, p))
<1>1. required = 10000 /\ preferred = 10000
  BY AverageOfFull
<1>2. penalty \in Nat /\ penalty <= 3000
  BY GateFinite, PenaltyIsCapped
<1>3. /\ d.gate = Evaluate(job, p)
      /\ d.score = ScoreOf(required, preferred, job.similarity,
                           SeniorityFit(job, p), RiskPenalty(d.gate))
      /\ d.verdict = VerdictOf(d.score, d.gate, required)
  BY DecisionFields
<1> HIDE DEF d, required, preferred, penalty
<1>4. ScoreOf(10000, 10000, 10000, 10000, penalty) >= 7000
  <2>1. PICK raw : raw = 50 * 10000 + 15 * 10000 + 20 * 10000 + 15 * 10000 - 100 * penalty
    OBVIOUS
  <2>2. raw \in Nat /\ raw >= 700000
    BY <1>2, <2>1
  <2>3. Ratio(raw, 100) \in Nat /\ Ratio(raw, 100) >= 7000
    BY <2>2 DEF Ratio
  <2> QED BY <2>1, <2>2, <2>3 DEF ScoreOf, AtMost
<1>5. d.score >= 7000
  BY <1>1, <1>3, <1>4 DEF penalty
<1>6. VerdictOf(d.score, d.gate, required) = "apply"
  BY <1>1, <1>3, <1>5 DEF VerdictOf, APPLY_THRESHOLD, APPLY_MIN_REQUIRED
<1> QED BY <1>3, <1>6 DEF d

-----------------------------------------------------------------------------
(* A ranking.                                                              *)

Keyed(d) == d.score \in Nat /\ d.company \in Nat

\* The sort key orders decisions, with ties.
LEMMA PrecedesOrders ==
    ASSUME NEW c, NEW d, NEW e, Keyed(c), Keyed(d), Keyed(e)
    PROVE  /\ ~Precedes(d, d)
           /\ Precedes(d, e) => ~Precedes(e, d)
           /\ Precedes(c, d) /\ ~Precedes(e, d) => Precedes(c, e)
           /\ ~Precedes(d, c) /\ Precedes(d, e) => Precedes(c, e)
           /\ ~Precedes(d, c) /\ ~Precedes(e, d) => ~Precedes(e, c)
BY DEF Keyed, Precedes

DecisionsOf(pool, p) == [i \in DOMAIN pool |-> DecidePrepared(pool[i], p)]
Ahead(all, j, i) == \/ Precedes(all[j], all[i])
                    \/ j < i /\ ~Precedes(all[i], all[j])
AheadIn(all, D) == {x \in D \X D : Ahead(all, x[1], x[2])}
PlaceOf(all, D, i) == CountRank(AheadIn(all, D), D, i)
At(all, D, n) == CHOOSE i \in D : PlaceOf(all, D, i) = n

\* A ranking shows the decisions in their places.
LEMMA RankingPlaces ==
    ASSUME NEW pool, NEW p, NEW limit
    PROVE  DecideMany(pool, p, limit) =
               [n \in 1 .. AtMost(limit, Len(pool)) |->
                   DecisionsOf(pool, p)[At(DecisionsOf(pool, p), DOMAIN pool, n)]]
<1>a. PICK all : all = DecisionsOf(pool, p)
  OBVIOUS
<1> DEFINE D == DOMAIN pool
           Rank(i) == 1 + Cardinality({j \in D : \/ Precedes(all[j], all[i])
                                                 \/ j < i /\ ~Precedes(all[i], all[j])})
<1>1. ASSUME NEW i \in D PROVE Rank(i) = PlaceOf(all, D, i)
  <2>1. {j \in D : \/ Precedes(all[j], all[i])
                   \/ j < i /\ ~Precedes(all[i], all[j])} = Behind(AheadIn(all, D), D, i)
    BY DEF Behind, AheadIn, Ahead
  <2> QED BY <2>1 DEF PlaceOf, CountRank
<1>2. \A n : (CHOOSE i \in D : Rank(i) = n) = At(all, D, n)
  <2> HIDE DEF Rank
  <2> TAKE n
  <2>1. \A i : (i \in D /\ Rank(i) = n) <=> (i \in D /\ PlaceOf(all, D, i) = n)
    BY <1>1
  <2> QED BY <2>1 DEF At
<1>3. DecideMany(pool, p, limit) = [n \in 1 .. AtMost(limit, Len(pool)) |->
                                       all[CHOOSE i \in D : Rank(i) = n]]
  BY <1>a DEF DecideMany, DecisionsOf
<1> HIDE DEF Rank
<1> QED BY <1>a, <1>2, <1>3

LEMMA PlacesAreOrdered ==
    ASSUME NEW pool \in Pools, NEW p, CandidateAssumption(p)
    PROVE  LET D   == DOMAIN pool
               all == DecisionsOf(pool, p)
           IN  /\ D = 1 .. Len(pool) /\ Len(pool) \in Nat
               /\ \A i \in D : Keyed(all[i])
               /\ \A i \in D : PlaceOf(all, D, i) \in D
               /\ \A i, k \in D : PlaceOf(all, D, i) < PlaceOf(all, D, k) => Ahead(all, i, k)
               /\ \A n \in D : At(all, D, n) \in D /\ PlaceOf(all, D, At(all, D, n)) = n
               /\ \A i \in D : At(all, D, PlaceOf(all, D, i)) = i
<1> DEFINE D == DOMAIN pool
           all == DecisionsOf(pool, p)
           B == AheadIn(all, D)
<1>1. pool \in Seq(Postings)
  BY DecideAssumption DEF PoolAssumption
<1>2. D = 1 .. Len(pool) /\ Len(pool) \in Nat /\ \A i \in D : pool[i] \in Postings
  BY <1>1, LenProperties
<1>3. \A i \in D : Keyed(all[i])
  BY <1>2, DecisionFields DEF DecisionsOf, Keyed
<1> HIDE DEF D, all
<1>4. \A i, j \in D : <<i, j>> \in B <=> Ahead(all, i, j)
  BY DEF AheadIn
<1>5. \A i \in D : <<i, i>> \notin B
  BY <1>2, <1>3, <1>4, PrecedesOrders DEF Ahead
<1>6. ASSUME NEW i \in D, NEW j \in D, NEW k \in D, <<i, j>> \in B, <<j, k>> \in B
      PROVE  <<i, k>> \in B
  <2>1. Ahead(all, i, j) /\ Ahead(all, j, k)
    BY <1>4, <1>6
  <2>2. i \in Int /\ j \in Int /\ k \in Int
    BY <1>2
  <2>3. /\ Precedes(all[i], all[j]) /\ Precedes(all[j], all[k]) => Precedes(all[i], all[k])
        /\ Precedes(all[i], all[j]) /\ ~Precedes(all[k], all[j]) => Precedes(all[i], all[k])
        /\ ~Precedes(all[j], all[i]) /\ Precedes(all[j], all[k]) => Precedes(all[i], all[k])
        /\ ~Precedes(all[j], all[i]) /\ ~Precedes(all[k], all[j]) => ~Precedes(all[k], all[i])
    BY <1>3, PrecedesOrders
  <2>4. Ahead(all, i, k)
    BY <2>1, <2>2, <2>3 DEF Ahead
  <2> QED BY <1>4, <2>4
<1>7. ASSUME NEW i \in D, NEW j \in D, i # j PROVE <<i, j>> \in B \/ <<j, i>> \in B
  <2>1. i \in Int /\ j \in Int
    BY <1>2
  <2>2. Ahead(all, i, j) \/ Ahead(all, j, i)
    BY <1>7, <2>1 DEF Ahead
  <2> QED BY <1>4, <2>2
<1>8. /\ \A i \in D : CountRank(B, D, i) \in D
      /\ \A i, k \in D : CountRank(B, D, i) < CountRank(B, D, k) <=> <<i, k>> \in B
      /\ \A m \in D : \E i \in D : CountRank(B, D, i) = m
  <2> HIDE DEF B
  <2>1. PICK n \in Nat : D = 1 .. n
    BY <1>2
  <2>2. StrictTotal(B, D)
    BY <1>5, <1>6, <1>7 DEF StrictTotal
  <2>3. Placed(B, D)
    BY <2>1, <2>2, CountsArePlaces
  <2> QED BY <2>3 DEF Placed
<1>9. /\ \A i \in D : PlaceOf(all, D, i) \in D
      /\ \A i, k \in D : PlaceOf(all, D, i) < PlaceOf(all, D, k) <=> <<i, k>> \in B
      /\ \A m \in D : \E i \in D : PlaceOf(all, D, i) = m
  BY <1>8 DEF PlaceOf
<1>10. \A n \in D : At(all, D, n) \in D /\ PlaceOf(all, D, At(all, D, n)) = n
  BY <1>9 DEF At
<1>11. ASSUME NEW i \in D PROVE At(all, D, PlaceOf(all, D, i)) = i
  <2> DEFINE n == PlaceOf(all, D, i)
             k == At(all, D, n)
  <2>1. n \in D /\ k \in D /\ PlaceOf(all, D, k) = n
    BY <1>9, <1>10
  <2> HIDE DEF k
  <2>2. n \in Nat /\ n = PlaceOf(all, D, i)
    BY <1>2, <2>1
  <2> HIDE DEF n
  <2>3. ~(n < n)
    BY <2>2
  <2>4. <<i, k>> \notin B /\ <<k, i>> \notin B
    BY <1>9, <2>1, <2>2, <2>3
  <2>5. i = k
    BY <1>7, <2>1, <2>4
  <2> QED BY <2>5 DEF k, n
<1>12. \A i, k \in D : PlaceOf(all, D, i) < PlaceOf(all, D, k) => Ahead(all, i, k)
  BY <1>4, <1>9
<1> QED BY <1>2, <1>3, <1>9, <1>10, <1>11, <1>12 DEF D, all

\* What is ahead is no less eligible and, of its kind, scores no less.
LEMMA AheadIsBetter ==
    ASSUME NEW all, NEW i, NEW k, Keyed(all[i]), Keyed(all[k]), Ahead(all, i, k)
    PROVE  /\ (all[i].verdict = "blocked") => (all[k].verdict = "blocked")
           /\ (all[i].verdict = "blocked") = (all[k].verdict = "blocked")
                => all[i].score >= all[k].score
BY DEF Ahead, Precedes, Keyed

\* decide_many: nothing twice, the eligible first, the best of each kind.
LEMMA RankingIsFair ==
    ASSUME NEW pool \in Pools, NEW p \in Candidates, NEW limit \in Limits
    PROVE  LET shown   == DecideMany(pool, p, limit)
               all     == {DecidePrepared(pool[i], p) : i \in DOMAIN pool}
               Kind(d) == d.verdict = "blocked"
           IN  /\ \A m, n \in DOMAIN shown : m < n =>
                     /\ Kind(shown[m]) => Kind(shown[n])
                     /\ Kind(shown[m]) = Kind(shown[n]) => shown[m].score >= shown[n].score
               /\ \A d \in all \ ToSet(shown) : \A n \in DOMAIN shown :
                     /\ Kind(shown[n]) => Kind(d)
                     /\ Kind(shown[n]) = Kind(d) => shown[n].score >= d.score
               /\ Cardinality(ToSet(shown)) = Len(shown)
               /\ Len(shown) <= Len(pool)
<1> DEFINE D == DOMAIN pool
           all == DecisionsOf(pool, p)
           top == AtMost(limit, Len(pool))
           shown == DecideMany(pool, p, limit)
           Kind(d) == d.verdict = "blocked"
           Place(i) == PlaceOf(all, D, i)
           InPlace(n) == At(all, D, n)
<1>0. CandidateAssumption(p) /\ limit \in Nat
  BY DecideAssumption
<1>1. /\ D = 1 .. Len(pool) /\ Len(pool) \in Nat
      /\ \A i \in D : Keyed(all[i])
      /\ \A i \in D : Place(i) \in D
      /\ \A i, k \in D : Place(i) < Place(k) => Ahead(all, i, k)
      /\ \A n \in D : InPlace(n) \in D /\ Place(InPlace(n)) = n
      /\ \A i \in D : InPlace(Place(i)) = i
  BY <1>0, PlacesAreOrdered
<1>2. shown = [n \in 1 .. top |-> all[InPlace(n)]]
  BY RankingPlaces
<1>3. \A i \in D : all[i] = DecidePrepared(pool[i], p)
  BY DEF DecisionsOf
<1>4. top \in Nat /\ top <= Len(pool) /\ 1 .. top \subseteq D
  BY <1>0, <1>1 DEF AtMost
<1>5. \A i, j \in D : all[i] = all[j] => i = j
  <2>1. pool \in Seq(Postings) /\ \A i, j \in D : pool[i].key = pool[j].key => i = j
    BY DecideAssumption DEF PoolAssumption
  <2>2. \A i \in D : pool[i] \in Postings
    BY <2>1, ElementOfSeq, <1>1
  <2>3. \A i \in D : all[i].job = pool[i].key
    BY <1>0, <1>3, <2>2, DecisionFields
  <2> QED BY <2>1, <2>3
<1> HIDE DEF D, all, top, shown, Place, InPlace
<1>6. DOMAIN shown = 1 .. top /\ \A n \in 1 .. top : shown[n] = all[InPlace(n)]
  BY <1>2
<1>7. \A i, k \in D : Place(i) < Place(k) =>
          /\ Kind(all[i]) => Kind(all[k])
          /\ Kind(all[i]) = Kind(all[k]) => all[i].score >= all[k].score
  BY <1>1, AheadIsBetter
<1>8. ASSUME NEW m \in DOMAIN shown, NEW n \in DOMAIN shown, m < n
      PROVE  /\ Kind(shown[m]) => Kind(shown[n])
             /\ Kind(shown[m]) = Kind(shown[n]) => shown[m].score >= shown[n].score
  <2> HIDE DEF Kind
  <2>1. /\ InPlace(m) \in D /\ InPlace(n) \in D
        /\ Place(InPlace(m)) = m /\ Place(InPlace(n)) = n
    BY <1>1, <1>4, <1>6
  <2>2. Place(InPlace(m)) < Place(InPlace(n))
    BY <1>8, <2>1
  <2> QED BY <1>6, <1>7, <2>1, <2>2
<1>9. ASSUME NEW d \in {DecidePrepared(pool[i], p) : i \in D} \ ToSet(shown),
             NEW n \in DOMAIN shown
      PROVE  /\ Kind(shown[n]) => Kind(d)
             /\ Kind(shown[n]) = Kind(d) => shown[n].score >= d.score
  <2>1. PICK i \in D : d = all[i]
    BY <1>3
  <2>2. Place(i) \notin 1 .. top
    <3> SUFFICES ASSUME Place(i) \in 1 .. top PROVE FALSE
      OBVIOUS
    <3>1. shown[Place(i)] = d
      BY <1>1, <1>6, <2>1
    <3> QED BY <1>6, <3>1 DEF ToSet
  <2>3. InPlace(n) \in D /\ Place(InPlace(n)) = n /\ n \in 1 .. top
    BY <1>1, <1>4, <1>6
  <2>4. Place(i) \in Nat /\ Place(i) >= 1
    BY <1>1
  <2>5. n < Place(i)
    BY <1>4, <2>2, <2>3, <2>4
  <2> HIDE DEF Kind
  <2> QED BY <1>6, <1>7, <2>1, <2>3, <2>5
<1>10. Len(shown) = top
  <2>1. PICK S : S = {shown[n] : n \in 1 .. top}
    OBVIOUS
  <2>2. shown \in [1 .. top -> S]
    BY <1>2, <1>6, <2>1
  <2>3. shown \in Seq(S)
    BY <1>4, <2>2, SeqDef
  <2>4. DOMAIN shown = 1 .. Len(shown) /\ Len(shown) \in Nat
    BY <2>3, LenProperties
  <2> QED BY <1>4, <1>6, <2>4
<1>11. Cardinality(ToSet(shown)) = top
  <2>1. ASSUME NEW m \in 1 .. top, NEW n \in 1 .. top, shown[m] = shown[n] PROVE m = n
    <3>1. /\ InPlace(m) \in D /\ InPlace(n) \in D
          /\ Place(InPlace(m)) = m /\ Place(InPlace(n)) = n
      BY <1>1, <1>4
    <3>2. InPlace(m) = InPlace(n)
      BY <1>5, <1>6, <2>1, <3>1
    <3> QED BY <3>1, <3>2
  <2>2. ToSet(shown) = Image(shown, 1 .. top)
    BY <1>6 DEF ToSet, Image
  <2>3. IsFiniteSet(1 .. top) /\ Cardinality(1 .. top) = top
    BY <1>4, FS_Interval
  <2>4. Cardinality(Image(shown, 1 .. top)) = Cardinality(1 .. top)
    BY <2>1, <2>3, SizeOfImage
  <2> QED BY <2>2, <2>3, <2>4
<1> QED BY <1>4, <1>8, <1>9, <1>10, <1>11 DEF D, shown

-----------------------------------------------------------------------------
(* The inductive invariant.                                                *)

Shaped(q) == DOMAIN q = {"step", "job", "candidate", "decision", "via", "calls",
                         "waited", "client", "reply", "claims"}

\* Calls made and seconds gone by, before the next call and after the last.
\* A dead end is never on its way to the provider.
Within(q) ==
    /\ q.calls \in Nat /\ q.waited \in Nat
    /\ q.step = "lookup" => q.calls = 0 /\ q.waited = 0
    /\ q.step = "call" => /\ q.calls <= MaxRetries
                          /\ q.waited <= q.calls * Timeout + 2 ^ q.calls - 1
    /\ q.calls <= MaxRetries + 1
    /\ q.waited <= (MaxRetries + 1) * Timeout + 2 ^ MaxRetries - 1
    /\ ~Passed(q.decision.gate) => q.step = "done" /\ q.calls = 0

Said(context, reply, said) ==
    \E a \in said : a.context = context /\ reply \subseteq a.reply

\* What is quoted was said of this prompt and is in the evidence it showed.
Quoted(q, said) ==
    /\ q.step \in {"lookup", "call", "store"} => q.claims = {}
    /\ q.step = "store" => Said(Context(q), q.reply, said)
    /\ q.claims # {} => Said(Context(q), q.claims, said)
    /\ \A c \in q.claims :
          /\ c.ids # {} /\ c.ids \subseteq {u.id : u \in ShownEvidence(q)}
          /\ c.numbers \subseteq UNION {u.numbers :
                u \in {v \in ShownEvidence(q) : v.id \in c.ids}}

Served(q, said) ==
    /\ Shaped(q) /\ q.step \in Steps
    /\ q.job \in Postings /\ q.decision = DecidePrepared(q.job, q.candidate)
    /\ q.decision.verdict = "blocked" => ~Passed(q.decision.gate)
    /\ Within(q)
    /\ Quoted(q, said)

\* A file of the cache is what the provider said of the prompt it is kept under.
CacheInv == \A e \in cache : Said(e.key, e.reply, replied)

ExplainInv ==
    /\ DOMAIN req = All
    /\ \A r \in Scorings : req[r].step \in {"new", "ranked"} \/ Served(req[r], replied)
    /\ \A r \in Requests : req[r] = New \/ Served(req[r], replied)
    /\ CacheInv

\* The code's retries are 2; the provers know the powers of two one by one.
FewRetries == MaxRetries \in {0, 1, 2, 3}

\* What n calls may cost with the pauses behind them, what n + 1 with those
\* between them, and the pause behind the last of n + 1.
Before(n) == n * Timeout + 2 ^ n - 1
Total(n) == (n + 1) * Timeout + 2 ^ n - 1
Pause(n) == 2 ^ n

LEMMA Costs ==
    /\ Before(0) = 0 /\ Total(0) = Timeout /\ Pause(0) = 1
    /\ Before(1) = Timeout + 1 /\ Total(1) = 2 * Timeout + 1 /\ Pause(1) = 2
    /\ Before(2) = 2 * Timeout + 3 /\ Total(2) = 3 * Timeout + 3 /\ Pause(2) = 4
    /\ Before(3) = 3 * Timeout + 7 /\ Total(3) = 4 * Timeout + 7 /\ Pause(3) = 8
<1>1. Timeout \in Nat
  BY DecideAssumption
<1>2. 2 ^ 0 = 1 /\ 2 ^ 1 = 2 /\ 2 ^ 2 = 4 /\ 2 ^ 3 = 8
  OBVIOUS
<1> QED BY <1>1, <1>2 DEF Before, Total, Pause

-----------------------------------------------------------------------------
(* Steps of one request.                                                   *)

\* What was said stays said, and the prompt of a request never changes.
LEMMA SaidStays ==
    ASSUME NEW said, NEW more, said \subseteq more, NEW context, NEW reply,
           Said(context, reply, said)
    PROVE  Said(context, reply, more)
BY DEF Said

LEMMA ServedStays ==
    ASSUME NEW said, NEW more, said \subseteq more, NEW q, Served(q, said)
    PROVE  Served(q, more)
BY SaidStays DEF Served, Quoted

LEMMA SamePrompt ==
    ASSUME NEW q, NEW p, p.decision = q.decision, p.candidate = q.candidate
    PROVE  Context(p) = Context(q) /\ ShownEvidence(p) = ShownEvidence(q)
BY DEF Context, ShownEvidence

\* A step of request r that leaves it as p.
LEMMA OneServed ==
    ASSUME ExplainInv, NEW r \in All, NEW p, req' = [req EXCEPT ![r] = p],
           replied \subseteq replied', CacheInv',
           \/ Served(p, replied')
           \/ r \in Scorings /\ p.step = "ranked"
    PROVE  ExplainInv'
<1>1. DOMAIN req' = All /\ req'[r] = p
  BY DEF ExplainInv
<1>2. \A x \in All : x # r => req'[x] = req[x]
  BY DEF ExplainInv
<1>3. ASSUME NEW x \in Scorings
      PROVE  req'[x].step \in {"new", "ranked"} \/ Served(req'[x], replied')
  <2>1. x \in All /\ x \notin Requests
    BY DecideAssumption DEF All
  <2>2. req[x].step \in {"new", "ranked"} \/ Served(req[x], replied')
    BY ServedStays DEF ExplainInv
  <2> QED BY <1>1, <1>2, <2>1, <2>2
<1>4. ASSUME NEW x \in Requests PROVE req'[x] = New \/ Served(req'[x], replied')
  <2>1. x \in All /\ x \notin Scorings
    BY DecideAssumption DEF All
  <2>2. req[x] = New \/ Served(req[x], replied')
    BY ServedStays DEF ExplainInv
  <2> QED BY <1>1, <1>2, <2>1, <2>2
<1> QED BY <1>1, <1>3, <1>4 DEF ExplainInv

\* A decision on its way is in order, at its first step or at its last.
LEMMA DecisionServed ==
    ASSUME FewRetries, NEW job \in Postings, NEW p, NEW via, NEW said
    PROVE  LET q == Decision(job, p, via)
           IN  /\ Served(Deterministic(q), said)
               /\ AsksModel(q) => Served([q EXCEPT !.step = "lookup"], said)
<1> DEFINE q == Decision(job, p, via)
           d == Deterministic(q)
           l == [q EXCEPT !.step = "lookup"]
<1>1. q.decision = DecidePrepared(job, p)
  BY DEF Decision
<1>2. q.decision.verdict = "blocked" => ~Passed(q.decision.gate)
  BY <1>1 DEF DecidePrepared, VerdictOf
<1>3. /\ d.step = "done" /\ d.decision = q.decision /\ d.calls = 0 /\ d.waited = 0
      /\ d.claims = {} /\ d.job = job /\ d.candidate = p
      /\ l.step = "lookup" /\ l.decision = q.decision /\ l.calls = 0 /\ l.waited = 0
      /\ l.claims = {} /\ l.job = job /\ l.candidate = p
  BY DEF Decision, Deterministic, Told
<1>4. Shaped(d) /\ Shaped(l)
  BY DEF Decision, Deterministic, Told, Shaped
<1>5. 0 <= (MaxRetries + 1) * Timeout + 2 ^ MaxRetries - 1
  <2>1. 0 <= Total(MaxRetries)
    BY DecideAssumption, Costs DEF FewRetries
  <2> QED BY <2>1 DEF Total
<1> HIDE DEF q, d, l
<1>6. Served(d, said)
  BY <1>1, <1>2, <1>3, <1>4, <1>5, DecideAssumption DEF Served, Within, Quoted, Steps
<1>7. ASSUME Passed(q.decision.gate) PROVE Served(l, said)
  BY <1>1, <1>2, <1>3, <1>4, <1>5, <1>7, DecideAssumption DEF Served, Within, Quoted, Steps
<1>8. AsksModel(q) => Passed(q.decision.gate)
  BY DEF AsksModel
<1> QED BY <1>6, <1>7, <1>8 DEF q, d, l

\* The calls under way take their seconds.
LEMMA CalledFields ==
    ASSUME NEW q, Shaped(q), NEW seconds
    PROVE  LET p == Called(q, seconds)
           IN  /\ Shaped(p)
               /\ p.step = q.step /\ p.job = q.job
               /\ p.decision = q.decision /\ p.candidate = q.candidate
               /\ p.calls = q.calls + 1 /\ p.waited = q.waited + seconds
               /\ p.reply = q.reply /\ p.claims = q.claims
BY DEF Shaped, Called

LEMMA ToldFields ==
    ASSUME NEW q, Shaped(q), NEW answer
    PROVE  LET p == Told(q, answer)
           IN  /\ Shaped(p) /\ p.step = "done" /\ p.job = q.job
               /\ p.decision = q.decision /\ p.candidate = q.candidate
               /\ p.calls = q.calls /\ p.waited = q.waited
               /\ p.reply = q.reply /\ p.claims = q.claims
BY DEF Shaped, Told

\* An explanation publishes what is left of a reply to its own prompt.
LEMMA ExplanationServed ==
    ASSUME NEW said, NEW q, Served(q, said), NEW reply, q.step # "done",
           Said(Context(q), reply, said)
    PROVE  Served(Explanation(q, reply), said)
<1> DEFINE left == ValidateGrounding(reply, ShownEvidence(q))
           mid  == [q EXCEPT !.claims = left]
           p    == Told(mid, "decided")
<1>1. /\ Shaped(mid) /\ mid.job = q.job /\ mid.decision = q.decision /\ mid.candidate = q.candidate
      /\ mid.calls = q.calls /\ mid.waited = q.waited /\ mid.claims = left
  BY DEF Served, Shaped
<1> HIDE DEF mid
<1>2. /\ Shaped(p) /\ p.step = "done" /\ p.job = q.job
      /\ p.decision = q.decision /\ p.candidate = q.candidate
      /\ p.calls = q.calls /\ p.waited = q.waited /\ p.claims = left
  BY <1>1, ToldFields
<1>3. Explanation(q, reply) = p
  BY DEF Explanation, mid
<1> HIDE DEF p
<1>4. Context(p) = Context(q) /\ ShownEvidence(p) = ShownEvidence(q)
  BY <1>2, SamePrompt
<1>5. left \subseteq reply
  BY DEF ValidateGrounding
<1>6. Said(Context(q), left, said)
  BY <1>5 DEF Said
<1>7. \A c \in left :
         /\ c.ids # {} /\ c.ids \subseteq {u.id : u \in ShownEvidence(q)}
         /\ c.numbers \subseteq UNION {u.numbers :
               u \in {v \in ShownEvidence(q) : v.id \in c.ids}}
  BY DEF ValidateGrounding
<1> HIDE DEF left
<1>8. Quoted(p, said)
  BY <1>2, <1>4, <1>6, <1>7 DEF Quoted
<1>9. Within(p)
  BY <1>2 DEF Served, Within
<1> QED BY <1>2, <1>3, <1>8, <1>9 DEF Served, Steps

-----------------------------------------------------------------------------
(* The routes.                                                             *)

LEMMA RoutesKeep ==
    ASSUME FewRetries, ExplainInv, NEW r \in All, NEW p,
           \/ \E job \in Postings, via \in BOOLEAN : DecideExplained(r, job, p, via)
           \/ \E job \in Postings : DecidePlain(r, job, p)
           \/ r \in Scorings /\ \E pool, limit : RankPool(r, pool, p, limit)
    PROVE  ExplainInv'
<1>1. UNCHANGED <<cache, replied>>
  BY DEF DecideExplained, DecidePlain, RankPool
<1>2. CacheInv' /\ replied \subseteq replied'
  BY <1>1 DEF ExplainInv, CacheInv
<1>3. ASSUME NEW job \in Postings, NEW via, DecideExplained(r, job, p, via) PROVE ExplainInv'
  <2> DEFINE q == Decision(job, p, via)
  <2>1. CASE AsksModel(q)
    <3>1. req' = [req EXCEPT ![r] = [q EXCEPT !.step = "lookup"]]
      BY <1>3, <2>1 DEF DecideExplained
    <3>2. Served([q EXCEPT !.step = "lookup"], replied')
      BY <2>1, DecisionServed
    <3> HIDE DEF q
    <3> QED BY <1>2, <3>1, <3>2, OneServed
  <2>2. CASE ~AsksModel(q)
    <3>1. req' = [req EXCEPT ![r] = Deterministic(q)]
      BY <1>3, <2>2 DEF DecideExplained
    <3>2. Served(Deterministic(q), replied')
      BY DecisionServed
    <3> HIDE DEF q
    <3> QED BY <1>2, <3>1, <3>2, OneServed
  <2> QED BY <2>1, <2>2
<1>4. ASSUME NEW job \in Postings, DecidePlain(r, job, p) PROVE ExplainInv'
  <2>1. req' = [req EXCEPT ![r] = Deterministic(Decision(job, p, FALSE))]
    BY <1>4 DEF DecidePlain
  <2>2. Served(Deterministic(Decision(job, p, FALSE)), replied')
    BY DecisionServed
  <2> QED BY <1>2, <2>1, <2>2, OneServed
<1>5. ASSUME r \in Scorings, NEW pool, NEW limit, RankPool(r, pool, p, limit)
      PROVE  ExplainInv'
  <2> DEFINE q == [step |-> "ranked", pool |-> pool, candidate |-> p,
                   ranking |-> DecideMany(pool, p, limit)]
  <2>1. req' = [req EXCEPT ![r] = q] /\ q.step = "ranked"
    BY <1>5 DEF RankPool
  <2> HIDE DEF q
  <2> QED BY <1>2, <1>5, <2>1, OneServed
<1> QED BY <1>3, <1>4, <1>5

-----------------------------------------------------------------------------
(* complete_json.                                                          *)

\* A request whose step is not "new" is served.
LEMMA Serving ==
    ASSUME ExplainInv, NEW r \in Requests, req[r].step # "new"
    PROVE  r \in All /\ Served(req[r], replied)
BY DEF ExplainInv, New, All

LEMMA LookupKeeps ==
    ASSUME FewRetries, ExplainInv, NEW r \in Requests, CacheHit(r) \/ CacheMiss(r)
    PROVE  ExplainInv'
<1> DEFINE q == req[r]
<1>1. q.step = "lookup" /\ UNCHANGED <<cache, replied>>
  BY DEF CacheHit, CacheMiss
<1>2. r \in All /\ Served(q, replied)
  BY <1>1, Serving
<1>3. CacheInv' /\ replied \subseteq replied'
  BY <1>1 DEF ExplainInv, CacheInv
<1>4. CASE CacheHit(r)
  <2>1. PICK e \in cache : e.key = Key(r) /\ req' = [req EXCEPT ![r] = Explanation(@, e.reply)]
    BY <1>4 DEF CacheHit
  <2>2. Said(Context(q), e.reply, replied)
    BY <2>1 DEF ExplainInv, CacheInv, Key, CacheKey
  <2>3. Served(Explanation(q, e.reply), replied')
    BY <1>1, <1>2, <2>2, ExplanationServed
  <2>4. req' = [req EXCEPT ![r] = Explanation(q, e.reply)]
    BY <2>1
  <2> QED BY <1>2, <1>3, <2>3, <2>4, OneServed
<1>5. CASE CacheMiss(r)
  <2> DEFINE p == [q EXCEPT !.step = "call"]
  <2>1. req' = [req EXCEPT ![r] = p]
    BY <1>5 DEF CacheMiss
  <2>2. /\ Shaped(p) /\ p.step = "call" /\ p.job = q.job /\ p.decision = q.decision
        /\ p.candidate = q.candidate /\ p.calls = q.calls /\ p.waited = q.waited
        /\ p.claims = q.claims
    BY <1>2 DEF Served, Shaped
  <2> HIDE DEF p
  <2>3. Within(p)
    <3>1. q.calls = 0 /\ q.waited = 0
      BY <1>1, <1>2 DEF Served, Within
    <3>2. 0 <= 0 * Timeout + 2 ^ 0 - 1 /\ 0 <= MaxRetries
      BY DecideAssumption, Costs DEF Before
    <3> QED BY <1>1, <1>2, <2>2, <3>1, <3>2 DEF Served, Within
  <2>4. Quoted(p, replied')
    BY <1>1, <1>2, <2>2 DEF Served, Quoted
  <2>5. Served(p, replied')
    BY <1>2, <2>2, <2>3, <2>4 DEF Served, Steps
  <2> QED BY <1>2, <1>3, <2>1, <2>5, OneServed
<1> QED BY <1>4, <1>5

\* One more call keeps to the budget: what it takes and, if it is not the
\* last, the pause behind it.
LEMMA CallCosts ==
    ASSUME FewRetries, NEW calls \in Nat, NEW waited \in Nat, calls <= MaxRetries,
           waited <= calls * Timeout + 2 ^ calls - 1, NEW seconds \in {0, Timeout}
    PROVE  /\ waited + seconds \in Nat
           /\ waited + seconds <= (MaxRetries + 1) * Timeout + 2 ^ MaxRetries - 1
           /\ calls # MaxRetries =>
                /\ waited + (seconds + 2 ^ calls) \in Nat
                /\ waited + (seconds + 2 ^ calls) <=
                        (calls + 1) * Timeout + 2 ^ (calls + 1) - 1
                /\ waited + (seconds + 2 ^ calls) <=
                        (MaxRetries + 1) * Timeout + 2 ^ MaxRetries - 1
<1>1. Timeout \in Nat /\ seconds \in Nat /\ seconds <= Timeout
  BY DecideAssumption
<1>2. calls \in {0, 1, 2, 3} /\ MaxRetries \in {0, 1, 2, 3}
  BY DEF FewRetries
<1>3. waited <= Before(calls)
  BY DEF Before
<1>4. waited + seconds <= Total(MaxRetries)
  BY <1>1, <1>2, <1>3, Costs
<1>5. ASSUME calls # MaxRetries
      PROVE  /\ Pause(calls) \in Nat
             /\ waited + (seconds + Pause(calls)) <= Before(calls + 1)
             /\ waited + (seconds + Pause(calls)) <= Total(MaxRetries)
  <2>1. calls \in {0, 1, 2} /\ calls < MaxRetries
    BY <1>2, <1>5
  <2>2. CASE calls = 0
    BY <1>1, <1>2, <1>3, <2>1, <2>2, Costs
  <2>3. CASE calls = 1
    BY <1>1, <1>2, <1>3, <2>1, <2>3, Costs
  <2>4. CASE calls = 2
    BY <1>1, <1>2, <1>3, <2>1, <2>4, Costs
  <2> QED BY <2>1, <2>2, <2>3, <2>4
<1>6. waited + seconds \in Nat
  BY <1>1
<1>7. calls # MaxRetries => waited + (seconds + Pause(calls)) \in Nat
  BY <1>1, <1>5
<1> QED BY <1>4, <1>5, <1>6, <1>7 DEF Before, Total, Pause

LEMMA CallKeeps ==
    ASSUME FewRetries, ExplainInv, NEW r \in Requests,
           \/ GivesUp(r) \/ Raises(r)
           \/ \E seconds \in {0, Timeout} : Fails(r, seconds)
    PROVE  ExplainInv'
<1> DEFINE q == req[r]
<1>1. q.step = "call" /\ UNCHANGED <<cache, replied>>
  BY DEF GivesUp, Raises, Fails
<1>2. r \in All /\ Served(q, replied) /\ Shaped(q) /\ Within(q)
  BY <1>1, Serving DEF Served
<1>3. CacheInv' /\ replied \subseteq replied'
  BY <1>1 DEF ExplainInv, CacheInv
<1>4. /\ q.calls \in Nat /\ q.waited \in Nat /\ q.calls <= MaxRetries
      /\ q.waited <= q.calls * Timeout + 2 ^ q.calls - 1
      /\ Passed(q.decision.gate) /\ q.claims = {} /\ q.job \in Postings
      /\ q.decision = DecidePrepared(q.job, q.candidate)
      /\ (q.decision.verdict = "blocked" => ~Passed(q.decision.gate))
  BY <1>1, <1>2 DEF Served, Within, Quoted
<1> HIDE DEF q
<1>5. ASSUME NEW p, Shaped(p), p.step \in {"call", "done"}, p.job = q.job,
             p.decision = q.decision,
             p.candidate = q.candidate, p.claims = {}, Within(p),
             req' = [req EXCEPT ![r] = p]
      PROVE  ExplainInv'
  <2>1. Served(p, replied')
    BY <1>4, <1>5 DEF Served, Quoted, Steps
  <2> QED BY <1>2, <1>3, <1>5, <2>1, OneServed
<1>6. ASSUME NEW seconds \in {0, Timeout}, NEW answer,
             req' = [req EXCEPT ![r] = Told(Called(q, seconds), answer)]
      PROVE  ExplainInv'
  <2> DEFINE c == Called(q, seconds)
             p == Told(c, answer)
  <2>1. /\ Shaped(c) /\ c.job = q.job /\ c.decision = q.decision /\ c.candidate = q.candidate
        /\ c.calls = q.calls + 1 /\ c.waited = q.waited + seconds /\ c.claims = q.claims
    BY <1>2, CalledFields
  <2> HIDE DEF c
  <2>2. /\ Shaped(p) /\ p.step = "done" /\ p.job = q.job
        /\ p.decision = q.decision /\ p.candidate = q.candidate
        /\ p.calls = q.calls + 1 /\ p.waited = q.waited + seconds /\ p.claims = q.claims
    BY <2>1, ToldFields
  <2>3. req' = [req EXCEPT ![r] = p]
    BY <1>6 DEF c
  <2> HIDE DEF p
  <2>4. /\ q.waited + seconds \in Nat
        /\ q.waited + seconds <= (MaxRetries + 1) * Timeout + 2 ^ MaxRetries - 1
    BY <1>4, CallCosts
  <2>5. Within(p)
    BY <1>4, <2>2, <2>4, DecideAssumption DEF Within
  <2> QED BY <1>4, <1>5, <2>2, <2>3, <2>5
<1>7. ASSUME NEW seconds \in {0, Timeout}, ~IsLast(q),
             req' = [req EXCEPT ![r] = Called(q, seconds + 2 ^ q.calls)]
      PROVE  ExplainInv'
  <2> DEFINE p == Called(q, seconds + 2 ^ q.calls)
  <2>1. /\ Shaped(p) /\ p.step = "call" /\ p.job = q.job /\ p.decision = q.decision
        /\ p.candidate = q.candidate /\ p.calls = q.calls + 1
        /\ p.waited = q.waited + (seconds + 2 ^ q.calls) /\ p.claims = q.claims
    BY <1>1, <1>2, CalledFields DEF q
  <2>2. req' = [req EXCEPT ![r] = p]
    BY <1>7
  <2> HIDE DEF p
  <2>3. q.calls # MaxRetries
    BY <1>7 DEF IsLast
  <2>4. /\ q.waited + (seconds + 2 ^ q.calls) \in Nat
        /\ q.waited + (seconds + 2 ^ q.calls)
              <= (q.calls + 1) * Timeout + 2 ^ (q.calls + 1) - 1
        /\ q.waited + (seconds + 2 ^ q.calls)
              <= (MaxRetries + 1) * Timeout + 2 ^ MaxRetries - 1
    BY <1>4, <2>3, CallCosts
  <2>5. p.calls \in Nat /\ p.calls <= MaxRetries
    BY <1>4, <2>1, <2>3, DecideAssumption
  <2>6. Within(p)
    BY <1>4, <2>1, <2>4, <2>5, DecideAssumption DEF Within
  <2> QED BY <1>4, <1>5, <2>1, <2>2, <2>6
<1>8. CASE GivesUp(r)
  BY <1>6, <1>8 DEF GivesUp, Deterministic, q
<1>9. CASE Raises(r)
  BY <1>6, <1>9 DEF Raises, q
<1>10. ASSUME NEW seconds \in {0, Timeout}, Fails(r, seconds) PROVE ExplainInv'
  <2>1. CASE IsLast(q)
    BY <1>6, <1>10, <2>1 DEF Fails, Deterministic, q
  <2>2. CASE ~IsLast(q)
    BY <1>7, <1>10, <2>2 DEF Fails, q
  <2> QED BY <2>1, <2>2
<1> QED BY <1>8, <1>9, <1>10

LEMMA RepliedKeeps ==
    ASSUME FewRetries, ExplainInv, NEW r \in Requests, NEW reply, Replied(r, reply)
    PROVE  ExplainInv'
<1> DEFINE q == req[r]
           c == Called(q, 0)
           p == [c EXCEPT !.step = "store", !.reply = reply]
           a == [context |-> Context(q), reply |-> reply]
<1>1. /\ q.step = "call" /\ UNCHANGED cache /\ replied' = replied \cup {a}
      /\ req' = [req EXCEPT ![r] = p]
  BY DEF Replied
<1>2. r \in All /\ Served(q, replied) /\ Shaped(q) /\ Within(q)
  BY <1>1, Serving DEF Served
<1>3. CacheInv' /\ replied \subseteq replied'
  BY <1>1, SaidStays DEF ExplainInv, CacheInv
<1>4. /\ q.calls \in Nat /\ q.waited \in Nat /\ q.calls <= MaxRetries
      /\ q.waited <= q.calls * Timeout + 2 ^ q.calls - 1
      /\ Passed(q.decision.gate) /\ q.claims = {} /\ q.job \in Postings
      /\ q.decision = DecidePrepared(q.job, q.candidate)
      /\ (q.decision.verdict = "blocked" => ~Passed(q.decision.gate))
  BY <1>1, <1>2 DEF Served, Within, Quoted
<1>5. /\ Shaped(c) /\ c.job = q.job /\ c.decision = q.decision /\ c.candidate = q.candidate
      /\ c.calls = q.calls + 1 /\ c.waited = q.waited + 0 /\ c.claims = q.claims
  BY <1>2, CalledFields
<1>6. a \in replied' /\ a.context = Context(q) /\ a.reply = reply
  BY <1>1
<1> HIDE DEF c
<1>7. /\ Shaped(p) /\ p.step = "store" /\ p.job = q.job /\ p.reply = reply
      /\ p.decision = q.decision /\ p.candidate = q.candidate
      /\ p.calls = q.calls + 1 /\ p.waited = q.waited + 0 /\ p.claims = q.claims
  BY <1>5 DEF Shaped
<1> HIDE DEF a, p, q
<1>8. Said(Context(p), p.reply, replied')
  BY <1>6, <1>7, SamePrompt DEF Said
<1>9. q.waited + 0 \in Nat
      /\ q.waited + 0 <= (MaxRetries + 1) * Timeout + 2 ^ MaxRetries - 1
  BY <1>4, CallCosts
<1>10. Within(p)
  BY <1>4, <1>7, <1>9, DecideAssumption DEF Within
<1>11. Served(p, replied')
  BY <1>4, <1>7, <1>8, <1>10 DEF Served, Quoted, Steps
<1> QED BY <1>1, <1>2, <1>3, <1>11, OneServed

LEMMA StoreKeeps ==
    ASSUME ExplainInv, NEW r \in Requests, Store(r)
    PROVE  ExplainInv'
<1> DEFINE q == req[r]
           e == [key |-> Key(r), reply |-> q.reply]
<1>1. /\ q.step = "store" /\ UNCHANGED replied
      /\ cache' \subseteq cache \cup {e}
      /\ req' = [req EXCEPT ![r] = Explanation(q, q.reply)]
  BY DEF Store
<1>2. r \in All /\ Served(q, replied)
  BY <1>1, Serving
<1>3. Said(Context(q), q.reply, replied)
  BY <1>1, <1>2 DEF Served, Quoted
<1>4. e.key = Context(q) /\ e.reply = q.reply
  BY DEF Key, CacheKey
<1> HIDE DEF e
<1>5. CacheInv'
  BY <1>1, <1>3, <1>4 DEF ExplainInv, CacheInv
<1>6. Served(Explanation(q, q.reply), replied')
  BY <1>1, <1>2, <1>3, ExplanationServed
<1> QED BY <1>1, <1>2, <1>5, <1>6, OneServed

-----------------------------------------------------------------------------
(* The theorems.                                                           *)

\* The invariant of the explanations, for any requests, postings, candidates,
\* replies and interleavings over the shared cache (api_v2.decide,
\* llm_client.complete, explain.validate_grounding).
THEOREM DecideInvariant == ASSUME FewRetries PROVE Spec => []ExplainInv
<1>1. Init => ExplainInv
  BY DEF Init, ExplainInv, CacheInv, New, All
<1>2. ExplainInv /\ [Next]_vars => ExplainInv'
  <2> SUFFICES ASSUME ExplainInv, [Next]_vars PROVE ExplainInv'
    OBVIOUS
  <2>1. ASSUME NEW r \in Requests, Serve(r) PROVE ExplainInv'
    BY <2>1, LookupKeeps, CallKeeps, RepliedKeeps, StoreKeeps DEF Serve
  <2>2. CASE UNCHANGED vars
    BY <2>2 DEF vars, ExplainInv, CacheInv
  <2>3. Requests \subseteq All /\ Scorings \subseteq All /\ Explained \subseteq Postings
    BY DecideAssumption DEF All
  <2> QED BY <2>1, <2>2, <2>3, RoutesKeep DEF Next
<1> QED BY <1>1, <1>2, PTL DEF Spec

\* Every published claim cites units of the candidate's own resume and has no
\* number that they do not have, from whatever the provider replied and
\* whoever cached it (explain.validate_grounding).
THEOREM DecideGrounded == ASSUME FewRetries PROVE Spec => []Grounded
<1>1. ExplainInv => Grounded
  <2> SUFFICES ASSUME ExplainInv, NEW r \in Decided, NEW c \in req[r].claims
               PROVE  LET cited == {u \in req[r].candidate.units : u.id \in c.ids}
                      IN  /\ cited # {} /\ c.ids = {u.id : u \in cited}
                          /\ c.numbers \subseteq UNION {u.numbers : u \in cited}
    BY DEF Grounded
  <2> DEFINE q == req[r]
             shown == ShownEvidence(q)
  <2>1. Served(q, replied)
    BY DEF ExplainInv, Decided, All, New
  <2>2. /\ c.ids # {} /\ c.ids \subseteq {u.id : u \in shown}
        /\ c.numbers \subseteq UNION {u.numbers : u \in {v \in shown : v.id \in c.ids}}
    BY <2>1 DEF Served, Quoted
  <2>3. shown \subseteq q.candidate.units
    BY DEF ShownEvidence
  <2> HIDE DEF q, shown
  <2> QED BY <2>2, <2>3 DEF q
<1> QED BY <1>1, DecideInvariant, PTL

\* No published claim was written for another prompt (llm_client._cache_key).
THEOREM DecideOwnWords == ASSUME FewRetries PROVE Spec => []OwnWords
<1>1. ExplainInv => OwnWords
  BY DEF ExplainInv, OwnWords, Decided, All, New, Served, Quoted, Said
<1> QED BY <1>1, DecideInvariant, PTL

\* Calls and seconds within budget, and never a call about a dead end, for
\* every timeout and at most three retries, of which the code has two
\* (llm_client.MAX_RETRIES, complete).
THEOREM DecideCallBudget == ASSUME FewRetries PROVE Spec => []CallBudget
<1>1. ExplainInv => CallBudget
  BY DEF ExplainInv, CallBudget, New, Steps, Served, Within
<1> QED BY <1>1, DecideInvariant, PTL

-----------------------------------------------------------------------------
(* The sponsor gate.                                                       *)

\* Some line is the first to say what any line says, and its constraint is
\* among those that find_constraints starts from.
LEMMA FirstIsAsked ==
    ASSUME NEW job \in Postings, NEW value, NEW i \in DOMAIN job.lines,
           Says(job.lines[i].asks, "sponsorship", value)
    PROVE  Says(FirstAsks(job.lines), "sponsorship", value)
<1> DEFINE lines == job.lines
           T == {j \in DOMAIN lines : Says(lines[j].asks, "sponsorship", value)}
<1>1. DOMAIN lines = 1 .. Len(lines) /\ Len(lines) \in Nat
  BY DecideAssumption DEF PostingAssumption
<1>2. T \subseteq Nat /\ T # {}
  BY <1>1
<1>3. PICK n \in T : \A m \in T : n <= m
  <2> HIDE DEF T
  <2> QED BY <1>2, LeastNatural
<1>4. \A m \in T : ~(m < n)
  BY <1>2, <1>3
<1>5. PICK c \in lines[n].asks : c.kind = "sponsorship" /\ c.value = value
  BY DEF Says
<1>6. ASSUME NEW j \in 1 .. n - 1, NEW d \in lines[j].asks PROVE ~SameKey(c, d)
  <2>1. j \in DOMAIN lines /\ j < n /\ j \notin T
    BY <1>1, <1>4
  <2> QED BY <1>5, <2>1 DEF SameKey, Says
<1>7. c \in FirstAsks(lines)
  BY <1>5, <1>6 DEF FirstAsks
<1> QED BY <1>5, <1>7 DEF Says

\* For a candidate who needs sponsorship the gate fails on a posting that
\* anywhere says it does not sponsor, or is silent while its employer's
\* filings say so; one that only says it sponsors does not fail on that
\* account (requirements.find_constraints, constraints.evaluate).
THEOREM DecideSponsorDeadEnd == ASSUME FewRetries PROVE Spec => []SponsorDeadEnd
<1>1. ExplainInv => SponsorDeadEnd
  <2> SUFFICES ASSUME ExplainInv, NEW r \in Decided,
                      req[r].candidate.needs_sponsorship = "yes"
               PROVE  LET job     == req[r].job
                          Some(v) == \E i \in DOMAIN job.lines :
                                        Says(job.lines[i].asks, "sponsorship", v)
                          no      == \/ Some("unavailable")
                                     \/ /\ ~Some("available")
                                        /\ job.tier \in {"does_not_sponsor", "citizen_only"}
                      IN  /\ no => req[r].decision.verdict = "blocked"
                          /\ ~no => \A v \in req[r].decision.gate :
                                v.constraint.kind = "sponsorship" => v.status # "blocked"
    BY DEF SponsorDeadEnd
  <2> DEFINE job == req[r].job
             p   == req[r].candidate
             d   == req[r].decision
             Some(v) == \E i \in DOMAIN job.lines : Says(job.lines[i].asks, "sponsorship", v)
             No  == \/ Some("unavailable")
                    \/ /\ ~Some("available")
                       /\ job.tier \in {"does_not_sponsor", "citizen_only"}
             asks == FirstAsks(job.lines)
             found == FindConstraints(job.lines)
  <2>1. job \in Postings /\ d = DecidePrepared(job, p)
    BY DEF ExplainInv, Decided, All, New, Served
  <2>2. d.gate = Evaluate(job, p) /\ (~Passed(d.gate) => d.verdict = "blocked")
    BY <2>1 DEF DecidePrepared, VerdictOf
  <2>3. ASSUME NEW c \in asks, c.kind = "sponsorship"
        PROVE  c.value \in {"available", "unavailable"} /\ Some(c.value)
    BY <2>1, <2>3, DecideAssumption DEF PostingAssumption, FirstAsks, Says
  <2>4. ASSUME NEW c \in Constraints(job), c.kind = "sponsorship",
               c.value = "unavailable"
        PROVE  d.verdict = "blocked"
    <3> DEFINE v == [constraint |-> c, status |-> StatusOf(c, p)]
    <3>1. v.status = "blocked"
      BY <2>4 DEF StatusOf, Sponsorship
    <3>2. v \in d.gate
      BY <2>2 DEF Evaluate
    <3> HIDE DEF v
    <3> QED BY <2>2, <3>1, <3>2 DEF Passed
  <2>5. CASE Some("unavailable")
    <3>1. PICK c \in asks : c.kind = "sponsorship" /\ c.value = "unavailable"
      BY <2>1, <2>5, FirstIsAsked DEF Says
    <3>2. c \in Constraints(job)
      BY <3>1 DEF Constraints, FindConstraints
    <3> QED BY <2>4, <2>5, <3>1, <3>2
  <2>6. CASE ~Some("unavailable") /\ Some("available")
    <3>1. PICK c \in asks : c.kind = "sponsorship" /\ c.value = "available"
      BY <2>1, <2>6, FirstIsAsked DEF Says
    <3>2. c \in found
      BY <2>3, <2>6, <3>1 DEF FindConstraints, Says
    <3>3. ASSUME NEW e \in Constraints(job), e.kind = "sponsorship"
          PROVE  e.value = "available"
      <4>1. e \in asks
        BY <3>1, <3>2, <3>3 DEF Constraints, FindConstraints, HardConstraint
      <4> QED BY <2>3, <2>6, <3>3, <4>1
    <3>4. ASSUME NEW v \in d.gate, v.constraint.kind = "sponsorship"
          PROVE  v.status # "blocked"
      <4>1. PICK e \in Constraints(job) : v = [constraint |-> e, status |-> StatusOf(e, p)]
        BY <2>2 DEF Evaluate
      <4>2. e.value = "available" /\ e.kind = "sponsorship"
        BY <3>3, <3>4, <4>1
      <4>3. StatusOf(e, p) = "ok"
        BY <4>2 DEF StatusOf, Sponsorship
      <4>4. v.status = StatusOf(e, p)
        BY <4>1
      <4> QED BY <4>3, <4>4
    <3> QED BY <2>6, <3>4
  <2>7. CASE ~Some("unavailable") /\ ~Some("available")
    <3>1. \A c \in found : c.kind # "sponsorship"
      BY <2>3, <2>7 DEF FindConstraints
    <3>2. CASE job.tier \in {"does_not_sponsor", "citizen_only"}
      <4> DEFINE c == HardConstraint("sponsorship", "unavailable")
      <4>1. c \in Constraints(job)
        BY <3>1, <3>2 DEF Constraints
      <4>2. c.kind = "sponsorship" /\ c.value = "unavailable"
        BY DEF HardConstraint
      <4> HIDE DEF c
      <4> QED BY <2>4, <2>7, <3>2, <4>1, <4>2
    <3>3. CASE job.tier \notin {"does_not_sponsor", "citizen_only"}
      <4>1. ASSUME NEW e \in Constraints(job) PROVE e.kind # "sponsorship"
        BY <3>1, <3>3 DEF Constraints, HardConstraint
      <4>2. \A v \in d.gate : v.constraint.kind # "sponsorship"
        BY <2>2, <4>1 DEF Evaluate
      <4> QED BY <2>7, <3>3, <4>2
    <3> QED BY <3>2, <3>3
  <2> QED BY <2>5, <2>6, <2>7
<1> QED BY <1>1, DecideInvariant, PTL

-----------------------------------------------------------------------------
(* What a request looks like, and whose decision it carries.               *)

RankedFor(q) ==
    \E pool \in Pools, p \in Candidates, limit \in Limits :
        q = [step |-> "ranked", pool |-> pool, candidate |-> p,
             ranking |-> DecideMany(pool, p, limit)]

Answering(q) ==
    /\ Shaped(q) /\ q.step \in Steps /\ q.client \in Answers
    /\ q.job \in Postings /\ q.candidate \in Candidates
    /\ q.decision = DecidePrepared(q.job, q.candidate)
    /\ q.reply \in Replies \cup {{}} /\ q.via \in BOOLEAN
    /\ q.step # "done" => q.client \in {"waiting", "timed out"}
    /\ q.step = "done" => q.client # "waiting"

ShapeInv ==
    /\ DOMAIN req = All
    /\ \A r \in All : req[r] = New \/ RankedFor(req[r]) \/ Answering(req[r])
    /\ \A e \in cache : e.reply \in Replies
    /\ \A a \in replied : a.reply \in Replies
    /\ \A r \in All : req[r].step = "store" => req[r].reply \in Replies

LEMMA ToldAnswers ==
    ASSUME NEW q, Answering(q), NEW answer \in {"decided", "error"}
    PROVE  Answering(Told(q, answer))
<1>1. /\ Shaped(Told(q, answer)) /\ Told(q, answer).step = "done"
      /\ Told(q, answer).job = q.job /\ Told(q, answer).candidate = q.candidate
      /\ Told(q, answer).decision = q.decision /\ Told(q, answer).reply = q.reply
      /\ Told(q, answer).via = q.via
      /\ Told(q, answer).client = IF q.client = "waiting" THEN answer ELSE q.client
  BY DEF Answering, Shaped, Told
<1> QED BY <1>1 DEF Answering, Steps, Answers

LEMMA ExplainedAnswers ==
    ASSUME NEW q, Answering(q), NEW reply
    PROVE  Answering(Explanation(q, reply))
<1> DEFINE left == ValidateGrounding(reply, ShownEvidence(q))
           m == [q EXCEPT !.claims = left]
<1>1. /\ Shaped(m) /\ m.step = q.step /\ m.client = q.client /\ m.job = q.job
      /\ m.candidate = q.candidate /\ m.decision = q.decision /\ m.reply = q.reply
      /\ m.via = q.via
  BY DEF Answering, Shaped
<1>2. Explanation(q, reply) = Told(m, "decided")
  BY DEF Explanation
<1> HIDE DEF m
<1>3. Answering(m)
  BY <1>1 DEF Answering
<1> QED BY <1>2, <1>3, ToldAnswers

LEMMA CalledAnswers ==
    ASSUME NEW q, Answering(q), q.step = "call", NEW seconds
    PROVE  Answering(Called(q, seconds)) /\ Called(q, seconds).step = "call"
<1>1. /\ Shaped(Called(q, seconds)) /\ Called(q, seconds).step = q.step
      /\ Called(q, seconds).job = q.job /\ Called(q, seconds).candidate = q.candidate
      /\ Called(q, seconds).decision = q.decision /\ Called(q, seconds).reply = q.reply
      /\ Called(q, seconds).via = q.via
      /\ Called(q, seconds).client \in {q.client, "timed out"}
  BY DEF Answering, Shaped, Called
<1> QED BY <1>1 DEF Answering, Steps, Answers

\* A step of request r that leaves it as q.
LEMMA OneShaped ==
    ASSUME ShapeInv, NEW r \in All, NEW q, req' = [req EXCEPT ![r] = q],
           RankedFor(q) \/ Answering(q), q.step = "store" => q.reply \in Replies,
           \A e \in cache' : e.reply \in Replies, \A a \in replied' : a.reply \in Replies
    PROVE  ShapeInv'
<1>1. DOMAIN req' = All /\ \A x \in All : req'[x] = IF x = r THEN q ELSE req[x]
  BY DEF ShapeInv
<1>2. ASSUME NEW x \in All
      PROVE  /\ req'[x] = New \/ RankedFor(req'[x]) \/ Answering(req'[x])
             /\ req'[x].step = "store" => req'[x].reply \in Replies
  <2>1. CASE x = r
    BY <1>1, <2>1
  <2>2. CASE x # r
    BY <1>1, <2>2 DEF ShapeInv
  <2> QED BY <2>1, <2>2
<1> QED BY <1>1, <1>2 DEF ShapeInv

LEMMA NewAnswers ==
    ASSUME NEW job \in Postings, NEW p \in Candidates, NEW via \in BOOLEAN
    PROVE  LET q == Decision(job, p, via)
           IN  /\ Answering(Deterministic(q)) /\ Deterministic(q).step = "done"
               /\ Answering([q EXCEPT !.step = "lookup"])
               /\ [q EXCEPT !.step = "lookup"].step = "lookup"
<1> DEFINE q == Decision(job, p, via)
           d == Deterministic(q)
           l == [q EXCEPT !.step = "lookup"]
<1>1. /\ Shaped(d) /\ d.step = "done" /\ d.client = "decided" /\ d.job = job
      /\ d.candidate = p /\ d.decision = DecidePrepared(job, p) /\ d.reply = {} /\ d.via = via
  BY DEF Decision, Deterministic, Told, Shaped
<1>2. /\ Shaped(l) /\ l.step = "lookup" /\ l.client = "waiting" /\ l.job = job
      /\ l.candidate = p /\ l.decision = DecidePrepared(job, p) /\ l.reply = {} /\ l.via = via
  BY DEF Decision, Shaped
<1> HIDE DEF q, d, l
<1>3. Answering(d) /\ Answering(l)
  BY <1>1, <1>2 DEF Answering, Steps, Answers
<1> QED BY <1>1, <1>2, <1>3 DEF q, d, l

LEMMA RoutesShape ==
    ASSUME ShapeInv, NEW r \in All, NEW p \in Candidates,
           \/ \E job \in Postings, via \in BOOLEAN : DecideExplained(r, job, p, via)
           \/ \E job \in Postings : DecidePlain(r, job, p)
           \/ \E pool \in Pools, limit \in Limits : RankPool(r, pool, p, limit)
    PROVE  ShapeInv'
<1>1. /\ \A e \in cache' : e.reply \in Replies
      /\ \A a \in replied' : a.reply \in Replies
  BY DEF DecideExplained, DecidePlain, RankPool, ShapeInv
<1>2. ASSUME NEW job \in Postings, NEW via \in BOOLEAN, DecideExplained(r, job, p, via)
      PROVE  ShapeInv'
  <2> DEFINE q == Decision(job, p, via)
             d == Deterministic(q)
             l == [q EXCEPT !.step = "lookup"]
  <2>1. req' = [req EXCEPT ![r] = l] \/ req' = [req EXCEPT ![r] = d]
    BY <1>2 DEF DecideExplained
  <2>2. Answering(d) /\ d.step = "done" /\ Answering(l) /\ l.step = "lookup"
    BY NewAnswers
  <2> HIDE DEF d, l
  <2> QED BY <1>1, <2>1, <2>2, OneShaped
<1>3. ASSUME NEW job \in Postings, DecidePlain(r, job, p) PROVE ShapeInv'
  <2> DEFINE d == Deterministic(Decision(job, p, FALSE))
  <2>1. req' = [req EXCEPT ![r] = d]
    BY <1>3 DEF DecidePlain
  <2>2. Answering(d) /\ d.step = "done"
    BY NewAnswers
  <2> HIDE DEF d
  <2> QED BY <1>1, <2>1, <2>2, OneShaped
<1>4. ASSUME NEW pool \in Pools, NEW limit \in Limits, RankPool(r, pool, p, limit)
      PROVE  ShapeInv'
  <2> DEFINE q == [step |-> "ranked", pool |-> pool, candidate |-> p,
                   ranking |-> DecideMany(pool, p, limit)]
  <2>1. req' = [req EXCEPT ![r] = q] /\ q.step = "ranked"
    BY <1>4 DEF RankPool
  <2>2. RankedFor(q)
    BY DEF RankedFor
  <2> HIDE DEF q
  <2> QED BY <1>1, <2>1, <2>2, OneShaped
<1> QED BY <1>2, <1>3, <1>4

LEMMA ServeShape ==
    ASSUME ShapeInv, NEW r \in Requests, Serve(r) PROVE ShapeInv'
<1> DEFINE q == req[r]
<1>0. r \in All
  BY DEF All
<1>1. q.step \in {"lookup", "call", "store"}
  BY DEF Serve, CacheHit, CacheMiss, Replied, GivesUp, Fails, Raises, Store
<1>2. Answering(q) /\ (q.step = "store" => q.reply \in Replies)
  BY <1>0, <1>1 DEF ShapeInv, RankedFor, New
<1>3. \A e \in cache : e.reply \in Replies
  BY DEF ShapeInv
<1>4. \A a \in replied : a.reply \in Replies
  BY DEF ShapeInv
<1> HIDE DEF q
<1>5. ASSUME NEW reply, q.step # "done", req' = [req EXCEPT ![r] = Explanation(q, reply)],
             \A e \in cache' : e.reply \in Replies, UNCHANGED replied
      PROVE  ShapeInv'
  <2>1. Answering(Explanation(q, reply))
    BY <1>2, ExplainedAnswers
  <2>2. Explanation(q, reply).step = "done"
    <3>1. \A m, answer : Shaped(m) => Told(m, answer).step = "done"
      BY ToldFields
    <3>2. Shaped([q EXCEPT !.claims = ValidateGrounding(reply, ShownEvidence(q))])
      BY <1>2 DEF Answering, Shaped
    <3> QED BY <3>1, <3>2 DEF Explanation
  <2> QED BY <1>0, <1>4, <1>5, <2>1, <2>2, OneShaped
<1>6. ASSUME NEW seconds, NEW answer \in {"decided", "error"}, q.step = "call",
             req' = [req EXCEPT ![r] = Told(Called(q, seconds), answer)],
             UNCHANGED <<cache, replied>>
      PROVE  ShapeInv'
  <2>1. Answering(Called(q, seconds))
    BY <1>2, <1>6, CalledAnswers
  <2>2. Answering(Told(Called(q, seconds), answer))
    BY <2>1, ToldAnswers
  <2>3. Told(Called(q, seconds), answer).step = "done"
    BY <2>1, ToldFields DEF Answering
  <2> QED BY <1>0, <1>3, <1>4, <1>6, <2>2, <2>3, OneShaped
<1>7. CASE CacheHit(r)
  <2>1. PICK e \in cache : req' = [req EXCEPT ![r] = Explanation(q, e.reply)]
    BY <1>7 DEF CacheHit, q
  <2>2. q.step # "done" /\ UNCHANGED <<cache, replied>>
    BY <1>7 DEF CacheHit, q
  <2> QED BY <1>3, <1>5, <2>1, <2>2
<1>8. CASE CacheMiss(r)
  <2> DEFINE p == [q EXCEPT !.step = "call"]
  <2>1. req' = [req EXCEPT ![r] = p] /\ q.step = "lookup" /\ UNCHANGED <<cache, replied>>
    BY <1>8 DEF CacheMiss, q
  <2>2. /\ Shaped(p) /\ p.step = "call" /\ p.client = q.client /\ p.job = q.job
        /\ p.candidate = q.candidate /\ p.decision = q.decision /\ p.reply = q.reply
        /\ p.via = q.via
    BY <1>2 DEF Answering, Shaped
  <2> HIDE DEF p
  <2>3. Answering(p)
    BY <1>2, <2>1, <2>2 DEF Answering, Steps
  <2> QED BY <1>0, <1>3, <1>4, <2>1, <2>2, <2>3, OneShaped
<1>9. CASE Store(r)
  <2>1. /\ req' = [req EXCEPT ![r] = Explanation(q, q.reply)]
        /\ q.step = "store" /\ UNCHANGED replied
        /\ cache' \subseteq cache \cup {[key |-> Key(r), reply |-> q.reply]}
    BY <1>9 DEF Store, q
  <2>2. \A e \in cache' : e.reply \in Replies
    BY <1>2, <1>3, <2>1
  <2> QED BY <1>5, <2>1, <2>2
<1>10. ASSUME NEW reply \in Replies, Replied(r, reply) PROVE ShapeInv'
  <2> DEFINE c == Called(q, 0)
             p == [c EXCEPT !.step = "store", !.reply = reply]
  <2>1. /\ req' = [req EXCEPT ![r] = p] /\ q.step = "call" /\ UNCHANGED cache
        /\ replied' = replied \cup {[context |-> Context(q), reply |-> reply]}
    BY <1>10 DEF Replied, q
  <2>2. Answering(c) /\ c.step = "call"
    BY <1>2, <2>1, CalledAnswers
  <2> HIDE DEF c
  <2>3. /\ Shaped(p) /\ p.step = "store" /\ p.client = c.client /\ p.job = c.job
        /\ p.candidate = c.candidate /\ p.decision = c.decision /\ p.reply = reply
        /\ p.via = c.via
    BY <2>2 DEF Answering, Shaped
  <2> HIDE DEF p
  <2>4. Answering(p)
    BY <2>2, <2>3 DEF Answering, Steps
  <2>5. \A a \in replied' : a.reply \in Replies
    BY <1>4, <2>1
  <2> QED BY <1>0, <1>3, <2>1, <2>3, <2>4, <2>5, OneShaped
<1>11. CASE GivesUp(r)
  <2>1. /\ req' = [req EXCEPT ![r] = Told(Called(q, 0), "decided")] /\ q.step = "call"
        /\ UNCHANGED <<cache, replied>>
    BY <1>11 DEF GivesUp, Deterministic, q
  <2> QED BY <1>6, <2>1
<1>12. CASE Raises(r)
  <2>1. /\ req' = [req EXCEPT ![r] = Told(Called(q, 0), "error")] /\ q.step = "call"
        /\ UNCHANGED <<cache, replied>>
    BY <1>12 DEF Raises, q
  <2> QED BY <1>6, <2>1
<1>13. ASSUME NEW seconds \in {0, Timeout}, Fails(r, seconds) PROVE ShapeInv'
  <2>1. /\ q.step = "call" /\ UNCHANGED <<cache, replied>>
        /\ \/ req' = [req EXCEPT ![r] = Told(Called(q, seconds), "decided")]
           \/ req' = [req EXCEPT ![r] = Called(q, seconds + 2 ^ q.calls)]
    BY <1>13 DEF Fails, Deterministic, q
  <2>2. CASE req' = [req EXCEPT ![r] = Called(q, seconds + 2 ^ q.calls)]
    <3> DEFINE p == Called(q, seconds + 2 ^ q.calls)
    <3>1. Answering(p) /\ p.step = "call"
      BY <1>2, <2>1, CalledAnswers
    <3> HIDE DEF p
    <3>2. req' = [req EXCEPT ![r] = p]
      BY <2>2 DEF p
    <3> QED BY <1>0, <1>3, <1>4, <2>1, <3>1, <3>2, OneShaped
  <2> QED BY <1>6, <2>1, <2>2
<1> QED BY <1>7, <1>8, <1>9, <1>10, <1>11, <1>12, <1>13 DEF Serve

\* Requests keep their shape, and each its own candidate's decision: what the
\* routes return (api_v2.decide, api_v2.rank).
THEOREM DecideShape == Spec => []ShapeInv
<1>1. Init => ShapeInv
  BY DEF Init, ShapeInv, New
<1>2. ShapeInv /\ [Next]_vars => ShapeInv'
  <2> SUFFICES ASSUME ShapeInv, [Next]_vars PROVE ShapeInv'
    OBVIOUS
  <2>1. CASE UNCHANGED vars
    BY <2>1 DEF vars, ShapeInv
  <2>2. Requests \subseteq All /\ Scorings \subseteq All /\ Explained \subseteq Postings
    BY DecideAssumption DEF All
  <2>3. ASSUME NEW r \in Requests, Serve(r) PROVE ShapeInv'
    BY <2>3, ServeShape
  <2>4. ASSUME NEW r \in All, NEW p \in Candidates,
               \/ \E job \in Postings, via \in BOOLEAN : DecideExplained(r, job, p, via)
               \/ \E job \in Postings : DecidePlain(r, job, p)
               \/ \E pool \in Pools, limit \in Limits : RankPool(r, pool, p, limit)
        PROVE  ShapeInv'
    BY <2>4, RoutesShape
  <2> QED BY <2>1, <2>2, <2>3, <2>4 DEF Next
<1> QED BY <1>1, <1>2, PTL DEF Spec

LEMMA DecidedHas ==
    ASSUME ShapeInv, NEW r \in Decided
    PROVE  /\ req[r].job \in Postings /\ req[r].candidate \in Candidates
           /\ CandidateAssumption(req[r].candidate)
           /\ req[r].decision = DecidePrepared(req[r].job, req[r].candidate)
<1>1. Answering(req[r])
  BY DEF ShapeInv, Decided, RankedFor, New
<1> QED BY <1>1, DecideAssumption DEF Answering

\* Every request is one of the shapes a client can be shown, its score between
\* nothing and everything (ranking.score_of).
THEOREM DecideTypeOK == Spec => []TypeOK
<1>1. ShapeInv => TypeOK
  <2> SUFFICES ASSUME ShapeInv PROVE TypeOK
    OBVIOUS
  <2>1. ASSUME NEW q, RankedFor(q)
        PROVE  /\ q.step = "ranked" /\ q.pool \in Pools /\ q.candidate \in Candidates
               /\ Len(q.ranking) <= Len(q.pool)
    BY <2>1, RankingIsFair DEF RankedFor
  <2>2. ASSUME NEW q, Answering(q)
        PROVE  q.decision.score \in Share
    <3>1. q.job \in Postings /\ q.candidate \in Candidates
          /\ q.decision = DecidePrepared(q.job, q.candidate)
      BY <2>2 DEF Answering
    <3>2. CandidateAssumption(q.candidate)
      BY <3>1, DecideAssumption
    <3>3. /\ DecidePrepared(q.job, q.candidate).score \in Nat
          /\ DecidePrepared(q.job, q.candidate).score <= 10000
      BY <3>1, <3>2, DecisionFields
    <3> QED BY <3>1, <3>3, ShareBounds
  <2>3. ASSUME NEW e \in cache \cup {[key |-> CacheKey(a.context), reply |-> a.reply] :
                                        a \in replied}
        PROVE  e.reply \in Replies
    BY DEF ShapeInv
  <2>4. ASSUME NEW r \in All, Answering(req[r])
        PROVE  /\ req[r].step \in Steps /\ req[r].client \in Answers
               /\ req[r].job \in Postings /\ req[r].candidate \in Candidates
               /\ req[r].decision.score \in Share
               /\ req[r].reply \in Replies \cup {{}} /\ req[r].via \in BOOLEAN
               /\ req[r].step # "done" => req[r].client \in {"waiting", "timed out"}
               /\ req[r].step = "done" => req[r].client # "waiting"
    <3>1. req[r].decision.score \in Share
      BY <2>2, <2>4
    <3> QED BY <2>4, <3>1 DEF Answering
  <2>5. ASSUME NEW r \in All
        PROVE  \/ req[r] = New
               \/ /\ req[r].step = "ranked"
                  /\ req[r].pool \in Pools /\ req[r].candidate \in Candidates
                  /\ Len(req[r].ranking) <= Len(req[r].pool)
               \/ /\ req[r].step \in Steps /\ req[r].client \in Answers
                  /\ req[r].job \in Postings /\ req[r].candidate \in Candidates
                  /\ req[r].decision.score \in Share
                  /\ req[r].reply \in Replies \cup {{}} /\ req[r].via \in BOOLEAN
                  /\ req[r].step # "done" => req[r].client \in {"waiting", "timed out"}
                  /\ req[r].step = "done" => req[r].client # "waiting"
    <3>1. req[r] = New \/ RankedFor(req[r]) \/ Answering(req[r])
      BY DEF ShapeInv
    <3>2. CASE RankedFor(req[r])
      BY <2>1, <3>2
    <3>3. CASE Answering(req[r])
      BY <2>4, <3>3
    <3> QED BY <3>1, <3>2, <3>3
  <2> QED BY <2>3, <2>5 DEF TypeOK
<1> QED BY <1>1, DecideShape, PTL

-----------------------------------------------------------------------------
(* Scoring and ranking.                                                    *)

\* Whatever lines a posting has, in whatever order: a requirement is required
\* if any line that asks for it says so, and the title only adds what no line
\* names (requirements.find_requirements).
THEOREM DecideStrictestReading == Spec => []StrictestReading
<1>1. ShapeInv => StrictestReading
  <2> SUFFICES ASSUME ShapeInv, NEW r \in Decided, NEW c \in req[r].decision.coverages,
                      c.requirement.options # {}
               PROVE  LET lines    == req[r].job.lines
                          options  == c.requirement.options
                          asking   == {i \in DOMAIN lines :
                                          /\ lines[i].header = "none"
                                          /\ options \in AsksOf(lines[i])}
                      IN  c.requirement.importance = "required" <=>
                              \/ asking = {}
                              \/ \E i \in asking :
                                    LineImportance(lines[i], SectionOf(lines, i)) = "required"
    BY DEF StrictestReading
  <2> DEFINE job == req[r].job
             lines == job.lines
             options == c.requirement.options
  <2>1. job \in Postings /\ req[r].decision = DecidePrepared(job, req[r].candidate)
    BY DecidedHas
  <2>2. c.requirement \in FindRequirements(job)
    BY <2>1 DEF DecidePrepared, CoverAll, CoverRequirement
  <2>3. DOMAIN lines = 1 .. Len(lines)
    BY <2>1, DecideAssumption DEF PostingAssumption
  <2>4. c.requirement.importance = "required" <=>
            \/ AskingTo(lines, Len(lines), options) = {}
            \/ RequiredBy(lines, Len(lines), options)
    BY <2>1, <2>2, Requirements
  <2>5. AskingTo(lines, Len(lines), options) =
            {i \in DOMAIN lines : lines[i].header = "none" /\ options \in AsksOf(lines[i])}
    BY <2>3 DEF AskingTo
  <2> HIDE DEF lines, options
  <2>6. c.requirement.importance = "required" <=>
            \/ {i \in DOMAIN lines : lines[i].header = "none"
                                     /\ options \in AsksOf(lines[i])} = {}
            \/ \E i \in {j \in DOMAIN lines : lines[j].header = "none"
                                              /\ options \in AsksOf(lines[j])} :
                  LineImportance(lines[i], SectionOf(lines, i)) = "required"
    BY <2>4, <2>5 DEF RequiredBy
  <2> QED BY <2>6 DEF lines, options
<1> QED BY <1>1, DecideShape, PTL

\* However many risks are flagged, a candidate who covers everything and is
\* blocked by nothing is told to apply (constraints.risk_penalty,
\* ranking.verdict_of).
THEOREM DecideRisksNeverVeto == Spec => []RisksNeverVeto
<1>1. ShapeInv => RisksNeverVeto
  <2> SUFFICES ASSUME ShapeInv, NEW r \in Decided, Passed(req[r].decision.gate),
                      \A c \in req[r].decision.coverages : c.score = 10000,
                      req[r].job.similarity = 10000,
                      SeniorityFit(req[r].job, req[r].candidate) = 10000
               PROVE  req[r].decision.verdict = "apply"
    BY DEF RisksNeverVeto
  <2> DEFINE job == req[r].job
             p == req[r].candidate
  <2>1. /\ job \in Postings /\ CandidateAssumption(p)
        /\ req[r].decision = DecidePrepared(job, p)
    BY DecidedHas
  <2>2. req[r].decision.gate = Evaluate(job, p) /\ req[r].decision.coverages = CoverAll(job, p)
    BY <2>1, DecisionFields
  <2> HIDE DEF job, p
  <2>3. DecidePrepared(job, p).verdict = "apply"
    BY <2>1, <2>2, PerfectApplies DEF job, p
  <2> QED BY <2>1, <2>3
<1> QED BY <1>1, DecideShape, PTL

\* No unit of evidence, of any resume, makes the coverage of any posting worse
\* (skills_match.cover_requirement, ranking.required_coverage).
THEOREM DecideMoreEvidence == Spec => []MoreEvidenceNeverHurts
<1>1. ShapeInv => MoreEvidenceNeverHurts
  <2> SUFFICES ASSUME ShapeInv, NEW r \in Decided, NEW u \in req[r].candidate.units
               PROVE  LET without == CoverAll(req[r].job,
                                              [req[r].candidate EXCEPT !.units = @ \ {u}])
                          all == req[r].decision.coverages
                      IN  /\ RequiredCoverage(without) <= RequiredCoverage(all)
                          /\ PreferredCoverage(without) <= PreferredCoverage(all)
    BY DEF MoreEvidenceNeverHurts
  <2> DEFINE job == req[r].job
             p == req[r].candidate
             q == [p EXCEPT !.units = p.units \ {u}]
  <2>1. /\ job \in Postings /\ CandidateAssumption(p)
        /\ req[r].decision = DecidePrepared(job, p)
    BY DecidedHas
  <2>2. req[r].decision.coverages = CoverAll(job, p)
    BY <2>1, DecisionFields
  <2>3. /\ q.units = p.units \ {u} /\ q.seniority = p.seniority /\ DOMAIN q = DOMAIN p
    BY <2>1 DEF CandidateAssumption
  <2>4. CandidateAssumption(q)
    BY <2>1, <2>3, FS_RemoveElement DEF CandidateAssumption
  <2> HIDE DEF q, p, job
  <2>5. \A importance : Average(CoveragesOf(job, q, importance))
                            <= Average(CoveragesOf(job, p, importance))
    BY <2>1, <2>3, <2>4, AverageGrows
  <2>6. /\ RequiredCoverage(CoverAll(job, q)) <= RequiredCoverage(CoverAll(job, p))
        /\ PreferredCoverage(CoverAll(job, q)) <= PreferredCoverage(CoverAll(job, p))
    BY <2>5 DEF RequiredCoverage, PreferredCoverage, CoveragesOf
  <2> QED BY <2>2, <2>6 DEF q, p, job
<1> QED BY <1>1, DecideShape, PTL

\* A ranking of any search, to any limit, shows the eligible before the
\* blocked, the better of each kind before the worse, and nothing twice
\* (decision.decide_many).
THEOREM DecideEligibleFirst == Spec => []EligibleFirst
<1>1. ShapeInv => EligibleFirst
  <2> SUFFICES ASSUME ShapeInv, NEW r \in Ranked
               PROVE  LET shown   == req[r].ranking
                          pool    == {DecidePrepared(req[r].pool[i], req[r].candidate) :
                                         i \in DOMAIN req[r].pool}
                          Kind(d) == d.verdict = "blocked"
                      IN  /\ \A m, n \in DOMAIN shown : m < n =>
                                /\ Kind(shown[m]) => Kind(shown[n])
                                /\ Kind(shown[m]) = Kind(shown[n]) =>
                                      shown[m].score >= shown[n].score
                          /\ \A d \in pool \ ToSet(shown) : \A n \in DOMAIN shown :
                                /\ Kind(shown[n]) => Kind(d)
                                /\ Kind(shown[n]) = Kind(d) => shown[n].score >= d.score
                          /\ Cardinality(ToSet(shown)) = Len(shown)
    BY DEF EligibleFirst
  <2>1. RankedFor(req[r])
    <3>1. \A q : Answering(q) => q.step # "ranked"
      BY DEF Answering, Steps
    <3>2. New.step # "ranked"
      BY DEF New
    <3>3. r \in All /\ req[r].step = "ranked"
      BY DEF Ranked
    <3> QED BY <3>1, <3>2, <3>3 DEF ShapeInv
  <2>2. PICK pool \in Pools, p \in Candidates, limit \in Limits :
            req[r] = [step |-> "ranked", pool |-> pool, candidate |-> p,
                      ranking |-> DecideMany(pool, p, limit)]
    BY <2>1 DEF RankedFor
  <2>3. /\ req[r].pool = pool /\ req[r].candidate = p
        /\ req[r].ranking = DecideMany(pool, p, limit)
    BY <2>2
  <2> QED BY <2>3, RankingIsFair
<1> QED BY <1>1, DecideShape, PTL

=============================================================================
