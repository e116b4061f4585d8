-------------------------- MODULE ArithmeticLemmas --------------------------
(***************************************************************************)
(* Facts that the proofs of the contracts cite: about rounding, and about  *)
(* sums over accounts.                                                     *)
(***************************************************************************)
EXTENDS DecimalArith, Functions, FiniteSetTheorems, WellFoundedInduction, TLAPS

(* Integer division rounds down: the quotient times the divisor lies       *)
(* within one divisor below the dividend.                                  *)
LEMMA DivBounds ==
  ASSUME NEW a \in Nat, NEW b \in Nat \ {0}
  PROVE  /\ a \div b \in Nat
         /\ (a \div b) * b <= a
         /\ a < (a \div b) * b + b
BY SMT

(* Products of naturals are naturals, and keep and reflect order.          *)
LEMMA MulNat == \A a, b \in Nat : a * b \in Nat
BY SMT

LEMMA MulMono ==
  ASSUME NEW a \in Nat, NEW b \in Nat, NEW c \in Nat, a <= b
  PROVE  a * c <= b * c
BY SMT

LEMMA MulCancel ==
  ASSUME NEW a \in Int, NEW b \in Int, NEW c \in Nat \ {0}, a * c < b * c
  PROVE  a < b
BY SMT

LEMMA MulCancelLeq ==
  ASSUME NEW a \in Int, NEW b \in Int, NEW c \in Nat \ {0}, a * c <= b * c
  PROVE  a <= b
BY SMT

(* Rounded division keeps order.                                           *)
LEMMA DivMono ==
  ASSUME NEW a \in Nat, NEW b \in Nat, NEW d \in Nat \ {0}, a <= b
  PROVE  a \div d \in Nat /\ b \div d \in Nat /\ a \div d <= b \div d
<1> DEFINE p == a \div d
           q == b \div d
<1>1. /\ p \in Nat /\ p * d <= a
      /\ q \in Nat /\ b < q * d + d
  BY DivBounds
<1> HIDE DEF p, q
<1>2. p * d < (q + 1) * d
  BY <1>1, SMT
<1>3. p < q + 1
  BY <1>1, <1>2, MulCancel
<1> QED BY <1>1, <1>3 DEF p, q

(* The value in atomics of n whole units divided by a Decimal r, with both *)
(* roundings: at most n, and more than n less one atomic of r.             *)
LEMMA QuoBounds ==
  ASSUME NEW n \in Nat, NEW r \in Nat \ {0}
  PROVE  /\ Quo(FromInt(n), r) \in Nat
         /\ Quo(FromInt(n), r) * r <= (n * ONE) * ONE
         /\ (n * ONE) * ONE < Quo(FromInt(n), r) * r + r
<1>1. (n * ONE) * ONE \in Nat
  BY OneAssumption, MulNat
<1> QED
  BY <1>1, DivBounds DEF Quo, FromInt

(* Truncating a Decimal to whole units.                                    *)
LEMMA TruncBounds ==
  ASSUME NEW a \in Nat
  PROVE  /\ Trunc(a) \in Nat
         /\ Trunc(a) * ONE <= a
         /\ a < Trunc(a) * ONE + ONE
BY OneAssumption, DivBounds DEF Trunc

(* A whole number times a Decimal is exact.                                *)
LEMMA ProdFromInt ==
  ASSUME NEW n \in Nat, NEW r \in Nat
  PROVE  Prod(FromInt(n), r) = n * r
<1> DEFINE p == n * r
<1>1. p \in Nat
  BY MulNat
<1>2. (n * ONE) * r = p * ONE
  BY OneAssumption, SMT
<1>3. (p * ONE) \div ONE = p
  <2> HIDE DEF p
  <2> QED BY <1>1, OneAssumption, SMT
<1> QED
  BY <1>2, <1>3 DEF Prod, FromInt

(* Rounding a value of b units at rate r to whole ones loses less than the *)
(* fraction of r: when b - 1 units round to s at least, b give s and the   *)
(* whole part of r, unless r is within r / ONE above a whole number.       *)
LEMMA WholeUnitFits ==
  ASSUME NEW b \in Nat, NEW s \in Nat, NEW r \in Nat,
         NEW k \in Nat, NEW e \in Nat,
         r = k * ONE + e, e < ONE,
         e >= k \/ (e = 0 /\ k <= ONE),
         (s * ONE) * ONE < ((b - 1) * ONE + 1) * r
  PROVE  (s + k) * ONE <= b * r
<1> DEFINE d == (s + k) * ONE - b * r
<1>1. d \in Int
  BY OneAssumption, MulNat
<1>2. d * ONE < (k - e) * ONE + e
  <2>1. (s * ONE) * ONE = (d + b * r - k * ONE) * ONE
    BY OneAssumption, SMT
  <2>2. ((b - 1) * ONE + 1) * r = (b * r - r) * ONE + r
    BY OneAssumption, SMT
  <2> DEFINE v == b * r
  <2>3. v \in Nat
    BY MulNat
  <2> HIDE DEF d, v
  <2>4. (d + v - k * ONE) * ONE < (v - r) * ONE + r
    BY <2>1, <2>2 DEF v
  <2>5. (d + v - k * ONE) * ONE - (v - r) * ONE = (d + e) * ONE
    BY <1>1, <2>3, OneAssumption, SMT
  <2>6. (d + e) * ONE < k * ONE + e
    BY <1>1, <2>3, <2>4, <2>5, OneAssumption, SMT
  <2> QED BY <1>1, <2>6, OneAssumption, SMT
<1>3. d <= k - e
  <2> HIDE DEF d
  <2>1. d * ONE < (k - e + 1) * ONE
    BY <1>1, <1>2, OneAssumption, SMT
  <2>2. d < k - e + 1
    BY <1>1, <2>1, OneAssumption, MulCancel
  <2> QED BY <1>1, <2>2
<1>4. CASE e >= k
  BY <1>1, <1>3, <1>4, OneAssumption, MulNat
<1>5. CASE e = 0 /\ k <= ONE
  <2>1. d = (s + k - b * k) * ONE
    BY <1>5, OneAssumption, SMT
  <2> DEFINE f == s + k - b * k
  <2>2. f \in Int
    BY MulNat
  <2>3. d < ONE
    <3> HIDE DEF d
    <3>1. d * ONE < k * ONE
      BY <1>1, <1>2, <1>5, OneAssumption, SMT
    <3>2. d < k
      BY <1>1, <3>1, OneAssumption, MulCancel
    <3> QED BY <1>1, <1>5, <3>2, OneAssumption
  <2> HIDE DEF f
  <2>4. f * ONE < 1 * ONE
    BY <2>1, <2>3, OneAssumption DEF f
  <2>5. f < 1
    BY <2>2, <2>4, OneAssumption, MulCancel
  <2>6. f * ONE <= 0
    BY <2>2, <2>5, OneAssumption, SMT
  <2> QED BY <1>1, <2>1, <2>6, OneAssumption, MulNat DEF d, f
<1> QED BY <1>4, <1>5

(* Value covered before an exchange is covered after it when the exchange  *)
(* adds at least, or takes at most, what it adds to or takes from the      *)
(* claims; and when only the price rises.                                  *)
LEMMA CoverAfterDeposit ==
  ASSUME NEW a \in Nat, NEW b \in Nat, NEW s \in Nat, NEW t \in Nat,
         NEW r \in Nat,
         a * r >= s * ONE, (b - a) * r >= (t - s) * ONE
  PROVE  b * r >= t * ONE
<1>1. (b - a) * r = b * r - a * r /\ (t - s) * ONE = t * ONE - s * ONE
  BY OneAssumption, SMT
<1>2. a * r \in Nat /\ b * r \in Nat /\ s * ONE \in Nat /\ t * ONE \in Nat
  BY OneAssumption, MulNat
<1> QED BY <1>1, <1>2

LEMMA CoverAfterRedeem ==
  ASSUME NEW a \in Nat, NEW b \in Nat, NEW s \in Nat, NEW t \in Nat,
         NEW r \in Nat,
         a * r >= s * ONE, (a - b) * r <= (s - t) * ONE
  PROVE  b * r >= t * ONE
<1>1. (a - b) * r = a * r - b * r /\ (s - t) * ONE = s * ONE - t * ONE
  BY OneAssumption, SMT
<1>2. a * r \in Nat /\ b * r \in Nat /\ s * ONE \in Nat /\ t * ONE \in Nat
  BY OneAssumption, MulNat
<1> QED BY <1>1, <1>2

LEMMA CoverAfterRise ==
  ASSUME NEW a \in Nat, NEW s \in Nat, NEW r \in Nat, NEW q \in Nat,
         a * r >= s * ONE, q >= r
  PROVE  a * q >= s * ONE
<1>1. r * a <= q * a
  BY MulMono
<1>2. r * a = a * r /\ q * a = a * q
  BY SMT
<1> QED BY <1>1, <1>2, OneAssumption, MulNat

-----------------------------------------------------------------------------
(* Sums over accounts.  SumFunction takes one account after the other out  *)
(* of a set; what is proved about it is proved by looking at a least set   *)
(* for which it would fail.                                                *)

(* A non-empty set of natural numbers has a least element.                 *)
LEMMA LeastNatural ==
  ASSUME NEW T \in SUBSET Nat, T # {}
  PROVE  \E n \in T : \A m \in T : n <= m
<1> DEFINE Below == {p \in Nat \X Nat : p[1] < p[2]}
<1>1. IsWellFoundedOn(Below, Nat)
  BY NatLessThanWellFounded, Zenon DEF OpToRel
<1>2. PICK n \in T : \A m \in T : ~(<<m, n>> \in Below)
  <2> HIDE DEF Below
  <2> QED
    BY <1>1, WFMin
<1>3. ASSUME NEW m \in T PROVE n <= m
  <2>1. n \in Nat /\ m \in Nat
    OBVIOUS
  <2>2. <<m, n>>[1] = m /\ <<m, n>>[2] = n /\ <<m, n>> \in Nat \X Nat
    BY <2>1
  <2>3. ~(m < n)
    BY <1>2, <2>2
  <2> QED
    BY <2>1, <2>3
<1> QED
  BY <1>3

(* Of some subsets of a finite set one has no other below it.              *)
LEMMA LeastSubset ==
  ASSUME NEW I, IsFiniteSet(I), NEW T \in SUBSET (SUBSET I), T # {}
  PROVE  \E s \in T : \A t \in T : t \subseteq s => t = s
<1>1. IsWellFoundedOn(StrictSubsetOrdering(I), FiniteSubsetsOf(I))
  BY FS_StrictSubsetOrderingWellFounded
<1>2. T \subseteq FiniteSubsetsOf(I)
  BY FS_Subset DEF FiniteSubsetsOf
<1>3. \E s \in T : \A t \in T : ~ (<<t, s>> \in StrictSubsetOrdering(I))
  BY <1>1, <1>2, WFMin
<1> QED
  BY <1>3 DEF StrictSubsetOrdering

(* The element a sum takes first, what is left, and what a sum is.         *)
Least(s) == CHOOSE x \in s : TRUE
Rest(s) == s \ {Least(s)}

IsSum(g, f, I) ==
  g = [s \in SUBSET I |->
         IF s = {} THEN 0 ELSE f[Least(s)] + g[s \ {Least(s)}]]

(* A set that is not empty is the rest and one element more.               *)
LEMMA RestFacts ==
  ASSUME NEW I, NEW s \in SUBSET I, s # {}
  PROVE  /\ Least(s) \in s /\ Least(s) \in I
         /\ Rest(s) \in SUBSET I /\ Rest(s) \subseteq s /\ Rest(s) # s
         /\ s = Rest(s) \cup {Least(s)} /\ Least(s) \notin Rest(s)
BY DEF Least, Rest

(* SumFunctionOnSet is such a sum, taken for the whole set.                *)
LEMMA SumIsFold ==
  ASSUME NEW f, NEW I
  PROVE  SumFunctionOnSet(f, I) = (CHOOSE g : IsSum(g, f, I))[I]
BY DEF SumFunctionOnSet, FoldFunctionOnSet, MapThenFoldSet, IsSum, Least

(* Every finite set of terms has a sum: sums of sets of at most n terms    *)
(* give those of at most n + 1.                                            *)
LEMMA SumExists ==
  ASSUME NEW f, NEW I, IsFiniteSet(I)
  PROVE  \E g : IsSum(g, f, I)
<1> DEFINE UpTo(n) == {s \in SUBSET I : Cardinality(s) <= n}
           Value(g, s) == IF s = {} THEN 0 ELSE f[Least(s)] + g[Rest(s)]
           Partial(g, n) == g = [s \in UpTo(n) |-> Value(g, s)]
           Bad == {n \in Nat : ~\E g : Partial(g, n)}
<1>1. \A s \in SUBSET I : IsFiniteSet(s) /\ Cardinality(s) \in Nat
  BY FS_Subset, FS_CardinalityType
<1>2. \E g : Partial(g, 0)
  <2> DEFINE g0 == [s \in UpTo(0) |-> 0]
  <2>1. \A s \in UpTo(0) : s = {}
    BY <1>1, FS_EmptySet
  <2>2. Partial(g0, 0)
    BY <2>1
  <2> QED
    BY <2>2
<1>3. ASSUME NEW n \in Nat, NEW g, Partial(g, n)
      PROVE  \E h : Partial(h, n + 1)
  <2> DEFINE h == [s \in UpTo(n + 1) |-> Value(g, s)]
  <2> SUFFICES ASSUME NEW s \in UpTo(n + 1)
               PROVE  Value(g, s) = Value(h, s)
    <3> HIDE DEF Value, UpTo
    <3> QED
      OBVIOUS
  <2>1. CASE s = {}
    BY <2>1
  <2>2. CASE s # {}
    <3>1. Rest(s) \in UpTo(n)
      <4>1. Rest(s) \in SUBSET I /\ Least(s) \in s
        BY <2>2, RestFacts
      <4>2. Cardinality(Rest(s)) = Cardinality(s) - 1
        BY <1>1, <4>1, FS_RemoveElement DEF Rest
      <4> QED
        BY <1>1, <4>1, <4>2
    <3>2. Rest(s) \in UpTo(n + 1)
      BY <1>1, <3>1
    <3>3. h[Rest(s)] = Value(g, Rest(s))
      BY <3>2
    <3>4. g[Rest(s)] = Value(g, Rest(s))
      <4> HIDE DEF Value, UpTo
      <4> QED
        BY <1>3, <3>1
    <3> QED
      BY <2>2, <3>3, <3>4
  <2> QED
    BY <2>1, <2>2
<1>4. Bad = {}
  <2> SUFFICES ASSUME Bad # {} PROVE FALSE
    OBVIOUS
  <2>1. PICK n \in Bad : \A m \in Bad : n <= m
    <3>1. Bad \in SUBSET Nat
      OBVIOUS
    <3> HIDE DEF Bad
    <3> QED
      BY <3>1, LeastNatural
  <2>2. n # 0
    BY <1>2
  <2>3. n - 1 \in Nat /\ n - 1 \notin Bad
    <3>1. n \in Nat
      OBVIOUS
    <3>2. n - 1 \in Nat /\ ~(n <= n - 1)
      BY <2>2, <3>1
    <3> HIDE DEF Bad
    <3> QED
      BY <2>1, <3>2
  <2>4. \E g : Partial(g, n - 1)
    BY <2>3
  <2>5. \E g : Partial(g, (n - 1) + 1)
    <3> HIDE DEF Partial
    <3> QED BY <1>3, <2>3, <2>4
  <2>6. (n - 1) + 1 = n
    OBVIOUS
  <2> QED
    BY <2>5, <2>6
<1>5. PICK g : Partial(g, Cardinality(I))
  BY <1>1, <1>4
<1>6. UpTo(Cardinality(I)) = SUBSET I
  BY FS_Subset
<1>7. IsSum(g, f, I)
  BY <1>5, <1>6 DEF IsSum, Rest
<1> QED
  BY <1>7

(* So SumFunctionOnSet is what its recursion says.                         *)
LEMMA SumDef ==
  ASSUME NEW f, NEW I, IsFiniteSet(I)
  PROVE  \E g : IsSum(g, f, I) /\ SumFunctionOnSet(f, I) = g[I]
<1> DEFINE g == CHOOSE h : IsSum(h, f, I)
<1>1. IsSum(g, f, I)
  <2> HIDE DEF IsSum
  <2> QED
    BY SumExists
<1> HIDE DEF g
<1>2. SumFunctionOnSet(f, I) = g[I]
  BY SumIsFold DEF g
<1> QED
  BY <1>1, <1>2

(* What holds of the empty sum, and of a sum when it holds without one of  *)
(* its terms, holds of all sums: Bad are the sets of terms that it does    *)
(* not hold for.                                                           *)
LEMMA SumInduction ==
  ASSUME NEW I, IsFiniteSet(I), NEW Bad \in SUBSET (SUBSET I),
         {} \notin Bad,
         \A s \in SUBSET I : s # {} /\ Rest(s) \notin Bad => s \notin Bad
  PROVE  Bad = {}
<1> SUFFICES ASSUME Bad # {} PROVE FALSE
  OBVIOUS
<1>1. PICK s \in Bad : \A t \in Bad : t \subseteq s => t = s
  BY LeastSubset
<1>2. Rest(s) \subseteq s /\ Rest(s) # s
  BY RestFacts
<1> QED
  BY <1>1, <1>2

(* The recursion, without the term chosen first and with it.               *)
LEMMA SumStep ==
  ASSUME NEW f, NEW I, NEW g, IsSum(g, f, I)
  PROVE  /\ g[{}] = 0
         /\ \A s \in SUBSET I : s # {} => g[s] = f[Least(s)] + g[Rest(s)]
BY DEF IsSum, Rest

(* A sum of natural numbers is one.                                        *)
LEMMA SumNat ==
  ASSUME NEW I, IsFiniteSet(I), NEW f \in [I -> Nat], NEW g, IsSum(g, f, I)
  PROVE  \A s \in SUBSET I : g[s] \in Nat
<1> DEFINE Bad == {s \in SUBSET I : g[s] \notin Nat}
<1>1. {} \notin Bad
  BY SumStep
<1>2. ASSUME NEW s \in SUBSET I, s # {}, Rest(s) \notin Bad
      PROVE  s \notin Bad
  BY <1>2, SumStep, RestFacts
<1>3. Bad = {}
  <2> HIDE DEF Bad
  <2>1. Bad \in SUBSET (SUBSET I)
    BY DEF Bad
  <2> QED
    BY <1>1, <1>2, <2>1, SumInduction
<1> QED
  BY <1>3

(* Two functions that differ at one account have sums that differ by as    *)
(* much.                                                                   *)
LEMMA SumUpdate ==
  ASSUME NEW I, IsFiniteSet(I), NEW a \in I,
         NEW f \in [I -> Nat], NEW g, IsSum(g, f, I),
         NEW h \in [I -> Nat], NEW k, IsSum(k, h, I),
         \A x \in I : x # a => h[x] = f[x]
  PROVE  \A s \in SUBSET I :
            k[s] = g[s] + (IF a \in s THEN h[a] - f[a] ELSE 0)
<1> DEFINE Shifted(s) == k[s] = g[s] + (IF a \in s THEN h[a] - f[a] ELSE 0)
           Bad == {s \in SUBSET I : ~Shifted(s)}
<1>1. {} \notin Bad
  BY SumStep
<1>2. ASSUME NEW s \in SUBSET I, s # {}, Rest(s) \notin Bad
      PROVE  s \notin Bad
  <2>1. /\ g[s] = f[Least(s)] + g[Rest(s)]
        /\ k[s] = h[Least(s)] + k[Rest(s)]
    BY <1>2, SumStep
  <2>2. Rest(s) \in SUBSET I /\ Shifted(Rest(s))
    BY <1>2, RestFacts
  <2>3. g[Rest(s)] \in Nat /\ k[Rest(s)] \in Nat
    BY <2>2, SumNat
  <2>4. Least(s) \in I /\ f[Least(s)] \in Nat /\ h[Least(s)] \in Nat
    BY <1>2, RestFacts
  <2>5. a \in s <=> a = Least(s) \/ a \in Rest(s)
    <3>1. s = Rest(s) \cup {Least(s)}
      BY <1>2, RestFacts
    <3> QED
      BY <3>1
  <2>6. CASE a = Least(s)
    <3>1. a \notin Rest(s)
      BY <1>2, <2>6, RestFacts
    <3>2. k[Rest(s)] = g[Rest(s)]
      BY <2>2, <2>3, <3>1
    <3> QED
      BY <2>1, <2>3, <2>4, <2>5, <2>6, <3>2
  <2>7. CASE a # Least(s)
    BY <2>1, <2>2, <2>3, <2>4, <2>5, <2>7
  <2> QED
    BY <2>6, <2>7
<1>3. Bad = {}
  <2> HIDE DEF Bad
  <2>1. Bad \in SUBSET (SUBSET I)
    BY DEF Bad
  <2> QED
    BY <1>1, <1>2, <2>1, SumInduction
<1> QED
  BY <1>3

(* Sums keep the order of their terms, measured in any two units.          *)
LEMMA SumOrder ==
  ASSUME NEW I, IsFiniteSet(I), NEW c \in Nat, NEW d \in Nat,
         NEW f \in [I -> Nat], NEW g, IsSum(g, f, I),
         NEW h \in [I -> Nat], NEW k, IsSum(k, h, I),
         \A x \in I : f[x] * c <= h[x] * d
  PROVE  \A s \in SUBSET I : g[s] * c <= k[s] * d
<1> DEFINE Bad == {s \in SUBSET I : ~(g[s] * c <= k[s] * d)}
<1>1. {} \notin Bad
  BY SumStep
<1>2. ASSUME NEW s \in SUBSET I, s # {}, Rest(s) \notin Bad
      PROVE  s \notin Bad
  <2>1. /\ g[s] = f[Least(s)] + g[Rest(s)]
        /\ k[s] = h[Least(s)] + k[Rest(s)]
    BY <1>2, SumStep
  <2>2. Rest(s) \in SUBSET I /\ g[Rest(s)] * c <= k[Rest(s)] * d
    BY <1>2, RestFacts
  <2>3. g[Rest(s)] \in Nat /\ k[Rest(s)] \in Nat
    BY <2>2, SumNat
  <2>4. /\ f[Least(s)] \in Nat /\ h[Least(s)] \in Nat
        /\ f[Least(s)] * c <= h[Least(s)] * d
    BY <1>2, RestFacts
  <2>5. ASSUME NEW p \in Nat, NEW q \in Nat, NEW u \in Nat, NEW v \in Nat,
               p * c <= u * d, q * c <= v * d
        PROVE  (p + q) * c <= (u + v) * d
    <3>1. (p + q) * c = p * c + q * c /\ (u + v) * d = u * d + v * d
      OBVIOUS
    <3>2. p * c \in Nat /\ q * c \in Nat /\ u * d \in Nat /\ v * d \in Nat
      OBVIOUS
    <3> QED
      BY <2>5, <3>1, <3>2
  <2> QED
    BY <2>1, <2>2, <2>3, <2>4, <2>5
<1>3. Bad = {}
  <2> HIDE DEF Bad
  <2>1. Bad \in SUBSET (SUBSET I)
    BY DEF Bad
  <2> QED
    BY <1>1, <1>2, <2>1, SumInduction
<1> QED
  BY <1>3


-----------------------------------------------------------------------------
(* A sum of natural numbers is one, and at least each of its terms, and    *)
(* each two.                                                               *)
LEMMA SumBounds ==
  ASSUME NEW I, IsFiniteSet(I), NEW f \in [I -> Nat]
  PROVE  /\ SumFunction(f) \in Nat
         /\ \A a \in I : f[a] <= SumFunction(f)
         /\ \A a, b \in I : a # b => f[a] + f[b] <= SumFunction(f)
<1>1. PICK g : IsSum(g, f, I) /\ SumFunction(f) = g[I]
  BY SumDef DEF SumFunction
<1>2. g[I] \in Nat
  BY <1>1, SumNat
<1>3. ASSUME NEW a \in I, NEW h \in [I -> Nat], h = [f EXCEPT ![a] = 0]
      PROVE  \E k : IsSum(k, h, I) /\ k[I] \in Nat /\ g[I] = k[I] + f[a]
  <2>1. PICK k : IsSum(k, h, I)
    BY SumDef
  <2>2. k[I] \in Nat
    BY <2>1, SumNat
  <2>3. k[I] = g[I] + (h[a] - f[a])
    <3>1. \A x \in I : x # a => h[x] = f[x]
      BY <1>3
    <3> QED
      BY <1>1, <2>1, <3>1, SumUpdate
  <2> QED
    BY <1>2, <1>3, <2>1, <2>2, <2>3
<1>4. ASSUME NEW a \in I PROVE f[a] <= SumFunction(f)
  <2>1. [f EXCEPT ![a] = 0] \in [I -> Nat]
    OBVIOUS
  <2>2. \E k : k[I] \in Nat /\ g[I] = k[I] + f[a]
    BY <1>3, <2>1
  <2> QED
    BY <1>1, <1>2, <2>2
<1>5. ASSUME NEW a \in I, NEW b \in I, a # b
      PROVE  f[a] + f[b] <= SumFunction(f)
  <2> DEFINE h == [f EXCEPT ![a] = 0]
  <2>1. h \in [I -> Nat] /\ h[b] = f[b]
    BY <1>5
  <2>2. PICK k : IsSum(k, h, I) /\ k[I] \in Nat /\ g[I] = k[I] + f[a]
    BY <1>3, <2>1
  <2>3. PICK m : IsSum(m, [h EXCEPT ![b] = 0], I)
    BY SumDef
  <2>4. m[I] \in Nat
    BY <2>1, <2>3, SumNat
  <2>5. m[I] = k[I] + (0 - f[b])
    <3> DEFINE e == [h EXCEPT ![b] = 0]
    <3>1. e \in [I -> Nat] /\ e[b] = 0 /\ \A x \in I : x # b => e[x] = h[x]
      BY <2>1
    <3>2. m[I] = k[I] + (IF b \in I THEN e[b] - h[b] ELSE 0)
      <4> HIDE DEF h, e
      <4>1. IsSum(m, e, I)
        BY <2>3 DEF e
      <4> QED
        BY <2>1, <2>2, <3>1, <4>1, SumUpdate
    <3> QED
      BY <2>1, <3>1, <3>2
  <2> QED
    BY <1>1, <1>2, <2>1, <2>2, <2>4, <2>5
<1> QED
  BY <1>1, <1>2, <1>4, <1>5

(* One term changed changes the sum by as much.                            *)
LEMMA SumChange ==
  ASSUME NEW I, IsFiniteSet(I), NEW f \in [I -> Nat], NEW h \in [I -> Nat],
         NEW a \in I, \A x \in I : x # a => h[x] = f[x]
  PROVE  SumFunction(h) = SumFunction(f) + (h[a] - f[a])
<1>1. PICK g : IsSum(g, f, I) /\ SumFunction(f) = g[I]
  BY SumDef DEF SumFunction
<1>2. PICK k : IsSum(k, h, I) /\ SumFunction(h) = k[I]
  BY SumDef DEF SumFunction
<1>3. k[I] = g[I] + (IF a \in I THEN h[a] - f[a] ELSE 0)
  BY <1>1, <1>2, SumUpdate
<1> QED
  BY <1>1, <1>2, <1>3

(* A sum whose terms are each at most those of another, in units of c and  *)
(* d, is at most the other.                                                *)
LEMMA SumCompare ==
  ASSUME NEW I, IsFiniteSet(I), NEW f \in [I -> Nat], NEW h \in [I -> Nat],
         NEW c \in Nat, NEW d \in Nat, \A x \in I : f[x] * c <= h[x] * d
  PROVE  SumFunction(f) * c <= SumFunction(h) * d
<1>1. PICK g : IsSum(g, f, I) /\ SumFunction(f) = g[I]
  BY SumDef DEF SumFunction
<1>2. PICK k : IsSum(k, h, I) /\ SumFunction(h) = k[I]
  BY SumDef DEF SumFunction
<1>3. g[I] * c <= k[I] * d
  BY <1>1, <1>2, SumOrder
<1> QED
  BY <1>1, <1>2, <1>3

(* What is taken from one account and added to another, or to the same,    *)
(* leaves the sum as it was.                                               *)
LEMMA SumMoved ==
  ASSUME NEW I, IsFiniteSet(I), NEW f \in [I -> Nat],
         NEW t \in [I -> Nat], NEW h \in [I -> Nat],
         NEW a \in I, NEW b \in I, NEW n \in Nat,
         f[a] = t[a] + n, \A x \in I : x # a => t[x] = f[x],
         h[b] = t[b] + n, \A x \in I : x # b => h[x] = t[x]
  PROVE  SumFunction(h) = SumFunction(f)
<1>1. SumFunction(t) = SumFunction(f) + (t[a] - f[a])
  BY SumChange
<1>2. SumFunction(h) = SumFunction(t) + (h[b] - t[b])
  BY SumChange
<1>3. /\ SumFunction(f) \in Nat
      /\ t[a] \in Nat /\ t[b] \in Nat
  BY SumBounds
<1> QED
  BY <1>1, <1>2, <1>3

(* A single account that holds something.                                  *)
LEMMA SumSingle ==
  ASSUME NEW I, IsFiniteSet(I), NEW u \in I, NEW n \in Nat
  PROVE  SumFunction([a \in I |-> IF a = u THEN n ELSE 0]) = n
<1> DEFINE f == [a \in I |-> 0]
           h == [a \in I |-> IF a = u THEN n ELSE 0]
<1>1. f \in [I -> Nat] /\ h \in [I -> Nat]
  OBVIOUS
<1>2. SumFunction(f) = 0
  <2>1. SumFunction(f) * 1 <= SumFunction(f) * 0
    BY <1>1, SumCompare
  <2>2. SumFunction(f) \in Nat
    BY <1>1, SumBounds
  <2> HIDE DEF f
  <2> QED
    BY <2>1, <2>2
<1>3. SumFunction(h) = SumFunction(f) + (h[u] - f[u])
  BY <1>1, SumChange
<1> QED
  BY <1>2, <1>3
=============================================================================
