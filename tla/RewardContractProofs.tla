------------------------ MODULE RewardContractProofs ------------------------
(***************************************************************************)
(* What the reward contract offers and sells, for any number of exchanges, *)
(* coins and tokens: lemmas that the proofs about an update cite.          *)
(***************************************************************************)
EXTENDS RewardContract, FiniteSets, SequenceTheorems, TLAPS

Arithmetic == INSTANCE ArithmeticLemmas WITH ONE <- 1

(* A property of 0 that n + 1 inherits from n is one of all numbers: if it *)
(* failed somewhere, T would be the numbers where it does.                 *)
LEMMA NoFirstFailure ==
  ASSUME NEW T \in SUBSET Nat, 0 \notin T,
         \A n \in Nat : n \notin T => n + 1 \notin T
  PROVE  T = {}
<1> SUFFICES ASSUME T # {} PROVE FALSE
  OBVIOUS
<1>1. Arithmetic!OneAssumption
  BY DEF Arithmetic!OneAssumption
<1>2. PICK n \in T : \A m \in T : n <= m
  BY <1>1, Arithmetic!LeastNatural
<1>3. n - 1 \in Nat /\ (n - 1) + 1 = n /\ ~(n <= n - 1)
  OBVIOUS
<1>4. n - 1 \notin T
  BY <1>2, <1>3
<1> QED
  BY <1>3, <1>4

-----------------------------------------------------------------------------
(* The LSD of all the accounts together.                                   *)

(* Sums are the same whichever module they are defined in.                 *)
LEMMA SumsAgree == \A f : SumFunction(f) = Arithmetic!SumFunction(f)
BY DEF SumFunction, Arithmetic!SumFunction,
       SumFunctionOnSet, Arithmetic!SumFunctionOnSet,
       FoldFunctionOnSet, Arithmetic!FoldFunctionOnSet,
       MapThenFoldSet, Arithmetic!MapThenFoldSet

LEMMA SumBound ==
  ASSUME NEW A, IsFiniteSet(A), NEW f \in [A -> Nat]
  PROVE  /\ SumFunction(f) \in Nat
         /\ \A a \in A : f[a] <= SumFunction(f)
<1>1. Arithmetic!IsFiniteSet(A) /\ Arithmetic!OneAssumption
  BY DEF Arithmetic!IsFiniteSet, IsFiniteSet, Arithmetic!OneAssumption
<1>2. /\ Arithmetic!SumFunction(f) \in Nat
      /\ \A a \in A : f[a] <= Arithmetic!SumFunction(f)
  BY <1>1, Arithmetic!SumBounds
<1> QED
  BY <1>2, SumsAgree

(* The sum follows what changes in a single account,                       *)
LEMMA SumFollows ==
  ASSUME NEW A, IsFiniteSet(A), NEW f \in [A -> Nat], NEW h \in [A -> Nat],
         NEW a \in A, \A x \in A : x # a => h[x] = f[x]
  PROVE  SumFunction(h) = SumFunction(f) + (h[a] - f[a])
<1>1. Arithmetic!IsFiniteSet(A) /\ Arithmetic!OneAssumption
  BY DEF Arithmetic!IsFiniteSet, IsFiniteSet, Arithmetic!OneAssumption
<1>2. Arithmetic!SumFunction(h) = Arithmetic!SumFunction(f) + (h[a] - f[a])
  BY <1>1, Arithmetic!SumChange, ZenonT(60)
<1> QED
  BY <1>2, SumsAgree

(* and is left as it is by what moves from one to another,                 *)
LEMMA SumKept ==
  ASSUME NEW A, IsFiniteSet(A), NEW f \in [A -> Nat], NEW h \in [A -> Nat],
         NEW a \in A, NEW b \in A, a # b,
         NEW n \in Nat, h[a] = f[a] - n, h[b] = f[b] + n,
         \A x \in A \ {a, b} : h[x] = f[x]
  PROVE  SumFunction(h) = SumFunction(f)
<1>1. PICK t \in [A -> Nat] :
        /\ f[a] = t[a] + n /\ h[b] = t[b] + n
        /\ \A x \in A : x # a => t[x] = f[x]
        /\ \A x \in A : x # b => h[x] = t[x]
  <2> DEFINE u == [x \in A |-> IF x = b THEN f[b] ELSE h[x]]
  <2>1. /\ u \in [A -> Nat] /\ u[a] = f[a] - n /\ u[b] = f[b]
        /\ \A x \in A : x # a => u[x] = f[x]
        /\ \A x \in A : x # b => h[x] = u[x]
        /\ f[a] \in Nat /\ f[b] \in Nat
    OBVIOUS
  <2> HIDE DEF u
  <2> QED
    BY <2>1
<1>2. Arithmetic!IsFiniteSet(A) /\ Arithmetic!OneAssumption
  BY DEF Arithmetic!IsFiniteSet, IsFiniteSet, Arithmetic!OneAssumption
<1>3. Arithmetic!SumFunction(h) = Arithmetic!SumFunction(f)
  BY <1>1, <1>2, Arithmetic!SumMoved
<1> QED
  BY <1>3, SumsAgree

(* as by a message that transfers LSD, perhaps to its sender.              *)
Moved(f, a, b, n) == [[f EXCEPT ![a] = @ - n] EXCEPT ![b] = @ + n]

LEMMA TransferKeepsSum ==
  ASSUME NEW A, IsFiniteSet(A), NEW f \in [A -> Nat],
         NEW a \in A, NEW b \in A, NEW n \in Nat, n <= f[a],
         NEW h, h = Moved(f, a, b, n)
  PROVE  /\ h \in [A -> Nat] /\ SumFunction(h) = SumFunction(f)
         /\ a = b => h = f
         /\ a # b => h[a] = f[a] - n /\ h[b] = f[b] + n
         /\ \A x \in A \ {a, b} : h[x] = f[x]
<1> USE DEF Moved
<1>1. f[a] \in Nat /\ f[b] \in Nat /\ f[a] - n \in Nat /\ f[b] + n \in Nat
  OBVIOUS
<1>2. CASE a = b
  <2>1. f[a] - n + n = f[a]
    BY <1>1
  <2>2. h = [f EXCEPT ![a] = f[a] - n + n]
    BY <1>2
  <2>3. h = f
    BY <2>1, <2>2
  <2> QED
    BY <1>2, <2>3
<1>3. CASE a # b
  <2>1. /\ h \in [A -> Nat] /\ h[a] = f[a] - n /\ h[b] = f[b] + n
        /\ \A x \in A \ {a, b} : h[x] = f[x]
    BY <1>1, <1>3
  <2>2. SumFunction(h) = SumFunction(f)
    BY <1>3, <2>1, SumKept
  <2> QED
    BY <1>3, <2>1, <2>2
<1> QED
  BY <1>2, <1>3

-----------------------------------------------------------------------------
(* Keep.                                                                   *)

Kept(f, s, T) ==
  f = [n \in 0 .. Len(s) |->
         IF n = 0 THEN << >>
         ELSE IF s[n] \in T THEN Append(f[n - 1], s[n]) ELSE f[n - 1]]

(* The recursion of Keep has a solution: one up to n gives one up to n + 1.*)
LEMMA KeptExists ==
  ASSUME NEW s, NEW T, Len(s) \in Nat
  PROVE  \E f : Kept(f, s, T)
<1> DEFINE Value(f, n) ==
             IF n = 0 THEN << >>
             ELSE IF s[n] \in T THEN Append(f[n - 1], s[n]) ELSE f[n - 1]
           Partial(f, n) == f = [k \in 0 .. n |-> Value(f, k)]
           Bad == {n \in Nat : ~\E f : Partial(f, n)}
<1>1. 0 \notin Bad
  <2>1. Partial([k \in 0 .. 0 |-> << >>], 0)
    OBVIOUS
  <2> QED
    BY <2>1
<1>2. ASSUME NEW n \in Nat, n \notin Bad
      PROVE  n + 1 \notin Bad
  <2>1. PICK f : Partial(f, n)
    BY <1>2
  <2> DEFINE h == [k \in 0 .. n + 1 |-> Value(f, k)]
  <2>2. ASSUME NEW k \in 0 .. n + 1 PROVE Value(f, k) = Value(h, k)
    <3>1. CASE k = 0
      BY <3>1
    <3>2. CASE k # 0
      <4>1. k - 1 \in 0 .. n /\ k - 1 \in 0 .. n + 1
        BY <3>2
      <4> HIDE DEF Value
      <4>2. f[k - 1] = Value(f, k - 1) /\ h[k - 1] = Value(f, k - 1)
        BY <2>1, <4>1
      <4> HIDE DEF h
      <4> QED
        BY <3>2, <4>2 DEF Value
    <3> QED
      BY <3>1, <3>2
  <2>3. Partial(h, n + 1)
    <3> HIDE DEF Value
    <3> QED
      BY <2>2
  <2> QED
    BY <2>3
<1>3. Bad = {}
  <2>1. Bad \in SUBSET Nat
    OBVIOUS
  <2> HIDE DEF Bad
  <2> QED
    BY <1>1, <1>2, <2>1, NoFirstFailure
<1>4. PICK f : Partial(f, Len(s))
  BY <1>3
<1> QED
  BY <1>4 DEF Kept

LEMMA KeepDef ==
  ASSUME NEW s, NEW T, Len(s) \in Nat
  PROVE  \E f : Kept(f, s, T) /\ Keep(s, T) = f[Len(s)]
<1> DEFINE f == CHOOSE g : Kept(g, s, T)
<1>1. Keep(s, T) = f[Len(s)]
  BY DEF Keep, Kept
<1>2. Kept(f, s, T)
  <2> HIDE DEF Kept
  <2> QED
    BY KeptExists
<1> HIDE DEF f
<1> QED
  BY <1>1, <1>2

LEMMA AppendFacts ==
  ASSUME NEW S, NEW t \in Seq(S), NEW e \in S
  PROVE  /\ Append(t, e) \in Seq(S)
         /\ \A x : x \in Range(Append(t, e)) <=> x \in Range(t) \/ x = e
         /\ IsInjective(t) /\ e \notin Range(t) => IsInjective(Append(t, e))
         /\ Len(Append(t, e)) = Len(t) + 1
<1> DEFINE u == Append(t, e)
           n == Len(t)
<1>1. /\ u \in Seq(S) /\ n \in Nat
      /\ DOMAIN t = 1 .. n /\ DOMAIN u = 1 .. n + 1
      /\ \A i \in 1 .. n : u[i] = t[i]
      /\ u[n + 1] = e
  OBVIOUS
<1> HIDE DEF u, n
<1>2. \A i \in 1 .. n + 1 : i \in 1 .. n \/ i = n + 1
  BY <1>1
<1>3. \A i \in 1 .. n : i \in 1 .. n + 1
  BY <1>1
<1>4. n + 1 \in 1 .. n + 1
  BY <1>1
<1>5. \A x : x \in Range(u) <=> x \in Range(t) \/ x = e
  BY <1>1, <1>2, <1>3, <1>4 DEF Range
<1>6. ASSUME IsInjective(t), e \notin Range(t)
      PROVE  IsInjective(u)
  <2> SUFFICES ASSUME NEW i \in 1 .. n + 1, NEW j \in 1 .. n + 1, u[i] = u[j]
               PROVE  i = j
    BY <1>1 DEF IsInjective
  <2>1. \A k \in 1 .. n : t[k] # e
    BY <1>1, <1>6 DEF Range
  <2>2. CASE i \in 1 .. n /\ j \in 1 .. n
    BY <1>1, <1>6, <2>2 DEF IsInjective
  <2> QED
    BY <1>1, <1>2, <2>1, <2>2
<1>7. Len(Append(t, e)) = Len(t) + 1
  OBVIOUS
<1> QED
  BY <1>1, <1>5, <1>6, <1>7 DEF u

(* Keep keeps exactly what it is told to, each as often as it was there.   *)
LEMMA KeepFacts ==
  ASSUME NEW S, NEW s \in Seq(S), NEW T
  PROVE  /\ Keep(s, T) \in Seq(S) /\ Len(Keep(s, T)) <= Len(s)
         /\ \A x : x \in Range(Keep(s, T)) <=> x \in Range(s) /\ x \in T
         /\ IsInjective(s) => IsInjective(Keep(s, T))
<1>0. Len(s) \in Nat /\ DOMAIN s = 1 .. Len(s) /\ \A i \in 1 .. Len(s) : s[i] \in S
  OBVIOUS
<1>1. PICK f : Kept(f, s, T) /\ Keep(s, T) = f[Len(s)]
  BY <1>0, KeepDef
<1> DEFINE Good(n) ==
             /\ f[n] \in Seq(S) /\ Len(f[n]) <= n
             /\ \A x : x \in Range(f[n])
                         <=> x \in T /\ \E i \in 1 .. n : s[i] = x
             /\ IsInjective(s) => IsInjective(f[n])
           Bad == {n \in Nat : n <= Len(s) /\ ~Good(n)}
<1>2. /\ f[0] = << >>
      /\ \A n \in Nat : n + 1 <= Len(s) =>
           f[n + 1] = IF s[n + 1] \in T THEN Append(f[n], s[n + 1]) ELSE f[n]
  <2>1. \A n \in 0 .. Len(s) :
          f[n] = IF n = 0 THEN << >>
                 ELSE IF s[n] \in T THEN Append(f[n - 1], s[n]) ELSE f[n - 1]
    BY <1>1 DEF Kept
  <2>2. 0 \in 0 .. Len(s)
    BY <1>0
  <2>3. \A n \in Nat : n + 1 <= Len(s) =>
          n + 1 \in 0 .. Len(s) /\ n + 1 # 0 /\ (n + 1) - 1 = n
    BY <1>0
  <2> QED
    BY <2>1, <2>2, <2>3
<1>3. 0 \notin Bad
  <2>1. f[0] \in Seq(S) /\ DOMAIN f[0] = {} /\ Len(f[0]) = 0
    BY <1>2
  <2> QED
    BY <2>1 DEF Range, IsInjective
<1>4. ASSUME NEW n \in Nat, n \notin Bad
      PROVE  n + 1 \notin Bad
  <2> SUFFICES ASSUME n + 1 <= Len(s) PROVE Good(n + 1)
    BY <1>4
  <2>1. Good(n)
    BY <1>0, <1>4
  <2> DEFINE e == s[n + 1]
  <2>2. n + 1 \in 1 .. Len(s) /\ e \in S
    BY <1>0
  <2>3. \A x : (\E i \in 1 .. n + 1 : s[i] = x)
                 <=> x = e \/ \E i \in 1 .. n : s[i] = x
    <3>1. \A i : i \in 1 .. n + 1 <=> i \in 1 .. n \/ i = n + 1
      OBVIOUS
    <3> QED
      BY <3>1
  <2>4. IsInjective(s) => ~\E i \in 1 .. n : s[i] = e
    <3>1. \A i \in 1 .. n : i \in 1 .. Len(s) /\ i # n + 1
      BY <1>0
    <3> QED
      BY <1>0, <2>2, <3>1 DEF IsInjective
  <2>5. CASE e \in T
    <3>1. f[n + 1] = Append(f[n], e)
      BY <1>2, <2>5
    <3>2. /\ f[n + 1] \in Seq(S) /\ Len(f[n + 1]) = Len(f[n]) + 1
          /\ \A x : x \in Range(f[n + 1]) <=> x \in Range(f[n]) \/ x = e
          /\ IsInjective(f[n]) /\ e \notin Range(f[n]) => IsInjective(f[n + 1])
      <4> HIDE DEF e
      <4> QED
        BY <2>1, <2>2, <3>1, AppendFacts
    <3>3. Len(f[n + 1]) <= n + 1
      BY <2>1, <3>2
    <3> HIDE DEF e
    <3> QED
      BY <2>1, <2>3, <2>4, <2>5, <3>2, <3>3
  <2>6. CASE e \notin T
    <3>1. f[n + 1] = f[n]
      BY <1>2, <2>6
    <3>2. Len(f[n + 1]) <= n + 1
      BY <2>1, <3>1
    <3> HIDE DEF e
    <3> QED
      BY <2>1, <2>3, <2>6, <3>1, <3>2
  <2> QED
    BY <2>5, <2>6
<1>5. Bad = {}
  <2>1. Bad \in SUBSET Nat
    OBVIOUS
  <2> HIDE DEF Bad
  <2> QED
    BY <1>3, <1>4, <2>1, NoFirstFailure
<1>6. Good(Len(s))
  <2> HIDE DEF Good
  <2> QED
    BY <1>0, <1>5
<1> QED
  BY <1>0, <1>1, <1>6 DEF Range

-----------------------------------------------------------------------------
(* Where an asset is sold.                                                 *)

Running(f, s, q) ==
  f = [n \in 1 .. Len(s) |->
         IF n > 1 /\ q[f[n - 1]] > q[s[n]] THEN f[n - 1] ELSE s[n]]

(* The recursion of BestOf has a solution, as that of Keep has.            *)
LEMMA RunningExists ==
  ASSUME NEW s, NEW q, Len(s) \in Nat
  PROVE  \E f : Running(f, s, q)
<1> DEFINE Value(f, n) ==
             IF n > 1 /\ q[f[n - 1]] > q[s[n]] THEN f[n - 1] ELSE s[n]
           Partial(f, n) == f = [k \in 1 .. n |-> Value(f, k)]
           Bad == {n \in Nat : ~\E f : Partial(f, n)}
<1>1. 0 \notin Bad
  <2>1. Partial([k \in 1 .. 0 |-> << >>], 0)
    OBVIOUS
  <2> QED
    BY <2>1
<1>2. ASSUME NEW n \in Nat, n \notin Bad
      PROVE  n + 1 \notin Bad
  <2>1. PICK f : Partial(f, n)
    BY <1>2
  <2> DEFINE h == [k \in 1 .. n + 1 |-> Value(f, k)]
  <2>2. ASSUME NEW k \in 1 .. n + 1 PROVE Value(f, k) = Value(h, k)
    <3>1. CASE k = 1
      BY <3>1
    <3>2. CASE k # 1
      <4>1. k - 1 \in 1 .. n /\ k - 1 \in 1 .. n + 1
        BY <3>2
      <4> HIDE DEF Value
      <4>2. f[k - 1] = Value(f, k - 1) /\ h[k - 1] = Value(f, k - 1)
        BY <2>1, <4>1
      <4> HIDE DEF h
      <4> QED
        BY <3>2, <4>2 DEF Value
    <3> QED
      BY <3>1, <3>2
  <2>3. Partial(h, n + 1)
    <3> HIDE DEF Value
    <3> QED
      BY <2>2
  <2> QED
    BY <2>3
<1>3. Bad = {}
  <2>1. Bad \in SUBSET Nat
    OBVIOUS
  <2> HIDE DEF Bad
  <2> QED
    BY <1>1, <1>2, <2>1, NoFirstFailure
<1>4. PICK f : Partial(f, Len(s))
  BY <1>3
<1> QED
  BY <1>4 DEF Running

LEMMA BestOfDef ==
  ASSUME NEW s, NEW q, Len(s) \in Nat
  PROVE  \E f : Running(f, s, q) /\ BestOf(s, q) = f[Len(s)]
<1> DEFINE f == CHOOSE g : Running(g, s, q)
<1>1. BestOf(s, q) = f[Len(s)]
  BY DEF BestOf, Running
<1>2. Running(f, s, q)
  <2> HIDE DEF Running
  <2> QED
    BY RunningExists
<1> HIDE DEF f
<1> QED
  BY <1>1, <1>2

(* What is left at the end is one of the entries, and none is above it: so *)
(* it is after each entry of those so far.                                 *)
LEMMA BestOfFacts ==
  ASSUME NEW s, NEW q, Len(s) \in Nat \ {0},
         \A n \in 1 .. Len(s) : q[s[n]] \in Nat
  PROVE  \E k \in 1 .. Len(s) :
           /\ BestOf(s, q) = s[k]
           /\ \A j \in 1 .. Len(s) : q[s[j]] <= q[s[k]]
<1>1. PICK f : Running(f, s, q) /\ BestOf(s, q) = f[Len(s)]
  BY BestOfDef
<1> DEFINE Good(n) == \E k \in 1 .. n :
                        f[n] = s[k] /\ \A j \in 1 .. n : q[s[j]] <= q[s[k]]
           Bad == {n \in Nat : n + 1 <= Len(s) /\ ~Good(n + 1)}
<1>2. \A n \in 1 .. Len(s) :
        f[n] = IF n > 1 /\ q[f[n - 1]] > q[s[n]] THEN f[n - 1] ELSE s[n]
  BY <1>1 DEF Running
<1>3. 0 \notin Bad
  <2>1. 1 \in 1 .. Len(s) /\ f[1] = s[1]
    BY <1>2
  <2>2. Good(1)
    BY <2>1
  <2> QED
    BY <2>2
<1>4. ASSUME NEW n \in Nat, n \notin Bad
      PROVE  n + 1 \notin Bad
  <2> SUFFICES ASSUME n + 2 <= Len(s) PROVE Good(n + 2)
    BY <1>4
  <2>1. PICK k \in 1 .. n + 1 :
          f[n + 1] = s[k] /\ \A j \in 1 .. n + 1 : q[s[j]] <= q[s[k]]
    BY <1>4
  <2>2. /\ n + 2 \in 1 .. Len(s) /\ (n + 2) - 1 = n + 1 /\ n + 2 > 1
        /\ k \in 1 .. n + 2 /\ k \in 1 .. Len(s)
        /\ \A j \in 1 .. n + 2 : j \in 1 .. n + 1 \/ j = n + 2
        /\ \A j \in 1 .. n + 2 : j \in 1 .. Len(s)
    BY <2>1
  <2>3. f[n + 2] = IF q[s[k]] > q[s[n + 2]] THEN s[k] ELSE s[n + 2]
    BY <1>2, <2>1, <2>2
  <2>4. q[s[k]] \in Nat /\ q[s[n + 2]] \in Nat
    BY <2>2
  <2>5. CASE q[s[k]] > q[s[n + 2]]
    <3>1. \A j \in 1 .. n + 2 : q[s[j]] <= q[s[k]]
      BY <2>1, <2>2, <2>4, <2>5
    <3> QED
      BY <2>2, <2>3, <2>5, <3>1
  <2>6. CASE q[s[k]] <= q[s[n + 2]]
    <3>1. \A j \in 1 .. n + 2 : q[s[j]] <= q[s[n + 2]]
      BY <2>1, <2>2, <2>4, <2>6
    <3>2. f[n + 2] = s[n + 2]
      BY <2>3, <2>4, <2>6
    <3>3. n + 2 \in 1 .. n + 2
      OBVIOUS
    <3> QED
      BY <3>1, <3>2, <3>3
  <2> QED
    BY <2>4, <2>5, <2>6
<1>5. Bad = {}
  <2>1. Bad \in SUBSET Nat
    OBVIOUS
  <2> HIDE DEF Bad
  <2> QED
    BY <1>3, <1>4, <2>1, NoFirstFailure
<1>6. Good(Len(s))
  <2>1. Len(s) - 1 \in Nat /\ (Len(s) - 1) + 1 = Len(s) /\ Len(s) <= Len(s)
    OBVIOUS
  <2> HIDE DEF Good
  <2> QED
    BY <1>5, <2>1
<1> QED
  BY <1>1, <1>6

(* An asset is sold if somebody would pay for it, at an exchange that      *)
(* answered, and none would pay more.                                      *)
LEMMA BestDexFacts ==
  ASSUME NEW q \in [1 .. DexCount -> Quotes \cup {NoQuote}]
  PROVE  /\ Sellable(q) <=> \E i \in Answered(q) : q[i] > 0
         /\ Sellable(q) => /\ BestDex(q) \in Answered(q) /\ q[BestDex(q)] > 0
                           /\ \A j \in Answered(q) : q[j] <= q[BestDex(q)]
<1>1. \A i \in Answered(q) : i \in 1 .. DexCount /\ q[i] \in Nat
  <2>1. Quotes \subseteq Nat
    BY RewardAssumption
  <2>2. \A i \in Answered(q) : i \in 1 .. DexCount /\ q[i] \in Quotes
    BY DEF Answered
  <2> QED
    BY <2>1, <2>2
<1> DEFINE numbers == [i \in 1 .. DexCount |-> i]
           s == Answering(q)
<1>2. /\ numbers \in Seq(1 .. DexCount) /\ DOMAIN numbers = 1 .. DexCount
      /\ \A i \in 1 .. DexCount : numbers[i] = i
  BY DexAssumption
<1>3. /\ s \in Seq(1 .. DexCount)
      /\ \A x : x \in Range(s) <=> x \in Range(numbers) /\ x \in Answered(q)
  <2> HIDE DEF numbers
  <2>1. s = Keep(numbers, Answered(q))
    BY DEF Answering, numbers
  <2> QED
    BY <1>2, <2>1, KeepFacts
<1> HIDE DEF numbers, s
<1>4. /\ Len(s) \in Nat /\ DOMAIN s = 1 .. Len(s)
      /\ s # << >> <=> Len(s) # 0
  BY <1>3
<1>5. \A n \in 1 .. Len(s) : s[n] \in Answered(q)
  BY <1>3, <1>4 DEF Range
<1>6. \A i \in Answered(q) : \E n \in 1 .. Len(s) : s[n] = i
  BY <1>1, <1>2, <1>3, <1>4 DEF Range
<1>7. CASE s = << >>
  <2>1. Answered(q) = {}
    BY <1>4, <1>6, <1>7
  <2> QED
    BY <1>7, <2>1 DEF Sellable, s
<1>8. CASE s # << >>
  <2>1. PICK k \in 1 .. Len(s) :
          /\ BestOf(s, q) = s[k]
          /\ \A j \in 1 .. Len(s) : q[s[j]] <= q[s[k]]
    BY <1>1, <1>4, <1>5, <1>8, BestOfFacts
  <2>2. BestDex(q) = s[k] /\ s[k] \in Answered(q)
    BY <1>5, <2>1 DEF BestDex, s
  <2>3. \A i \in Answered(q) : q[i] <= q[BestDex(q)]
    BY <1>6, <2>1, <2>2
  <2>4. Sellable(q) <=> q[BestDex(q)] > 0
    BY <1>8 DEF Sellable, BestDex, s
  <2>5. \A i \in Answered(q) : q[i] > 0 => q[BestDex(q)] > 0
    BY <1>1, <2>2, <2>3
  <2> QED
    BY <2>2, <2>3, <2>4, <2>5
<1> QED
  BY <1>7, <1>8

-----------------------------------------------------------------------------
(* What is offered.                                                        *)

(* No token is known twice.                                                *)
Distinct == IsInjective(rewardConfig.known)

Goods == Assets \cup {Lsd}

(* The coins and the known tokens are listed once each.                    *)
LEMMA ListedFacts ==
  ASSUME RewardTypeOK, Distinct
  PROVE  /\ Listed \in Seq(Goods)
         /\ IsInjective(Listed)
         /\ Range(Listed) = Range(Natives) \cup Range(rewardConfig.known)
<1> DEFINE known == rewardConfig.known
           m == Len(Natives)
           n == Len(known)
<1>1. /\ Natives \in Seq(Range(Natives)) /\ IsInjective(Natives)
      /\ known \in Seq(Cw20s \cup {Lsd})
      /\ Range(Natives) \subseteq Goods /\ Cw20s \cup {Lsd} \subseteq Goods
      /\ Range(Natives) \cap (Cw20s \cup {Lsd}) = {}
  BY RewardAssumption DEF RewardTypeOK, Goods, Assets
<1>2. Natives \in Seq(Goods) /\ known \in Seq(Goods)
  BY <1>1
<1>3. /\ m \in Nat /\ n \in Nat
      /\ DOMAIN Natives = 1 .. m /\ DOMAIN known = 1 .. n
      /\ Listed \in Seq(Goods) /\ DOMAIN Listed = 1 .. m + n
      /\ \A i \in 1 .. m : Listed[i] = Natives[i]
      /\ \A i \in 1 .. n : Listed[m + i] = known[i]
  BY <1>2 DEF Listed
<1>4. \A i \in 1 .. n : known[i] \in Cw20s \cup {Lsd}
  BY <1>1
<1>5. \A i \in 1 .. m : Natives[i] \in Range(Natives)
  BY <1>3 DEF Range
<1> HIDE DEF m, n, known
<1>6. \A i \in 1 .. m + n : i \in 1 .. m \/ (i - m \in 1 .. n /\ i = m + (i - m))
  BY <1>3
<1>7. /\ \A i \in 1 .. m : i \in 1 .. m + n
      /\ \A i \in 1 .. n : m + i \in 1 .. m + n
  BY <1>3
<1>8. Range(Listed) = Range(Natives) \cup Range(known)
  <2>1. ASSUME NEW i \in 1 .. m + n
        PROVE  Listed[i] \in Range(Natives) \cup Range(known)
    <3>1. CASE i \in 1 .. m
      BY <1>3, <3>1 DEF Range
    <3>2. CASE i - m \in 1 .. n
      <4>1. Listed[i] = known[i - m]
        BY <1>3, <1>6, <3>2
      <4> QED
        BY <1>3, <3>2, <4>1 DEF Range
    <3> QED
      BY <1>6, <3>1, <3>2
  <2>2. \A x \in Range(Natives) \cup Range(known) : x \in Range(Listed)
    BY <1>3, <1>7 DEF Range
  <2> QED
    BY <1>3, <2>1, <2>2 DEF Range
<1>9. IsInjective(Listed)
  <2> SUFFICES ASSUME NEW i \in 1 .. m + n, NEW j \in 1 .. m + n,
                      Listed[i] = Listed[j]
               PROVE  i = j
    BY <1>3 DEF IsInjective
  <2>1. CASE i \in 1 .. m /\ j \in 1 .. m
    BY <1>1, <1>3, <2>1 DEF IsInjective
  <2>2. CASE i - m \in 1 .. n /\ j - m \in 1 .. n
    <3>1. known[i - m] = known[j - m]
      BY <1>3, <1>6, <2>2
    <3>2. i - m = j - m
      BY <1>3, <2>2, <3>1 DEF Distinct, IsInjective, known
    <3> QED
      BY <1>3, <3>2
  <2>3. CASE i \in 1 .. m /\ j - m \in 1 .. n
    <3>1. Listed[i] = Natives[i] /\ Listed[j] = known[j - m]
      BY <1>3, <1>6, <2>3
    <3> QED
      BY <1>1, <1>4, <1>5, <2>3, <3>1
  <2>4. CASE j \in 1 .. m /\ i - m \in 1 .. n
    <3>1. Listed[j] = Natives[j] /\ Listed[i] = known[i - m]
      BY <1>3, <1>6, <2>4
    <3> QED
      BY <1>1, <1>4, <1>5, <2>4, <3>1
  <2> QED
    BY <1>6, <2>1, <2>2, <2>3, <2>4
<1> QED
  BY <1>3, <1>8, <1>9 DEF known

LEMMA OffersFacts ==
  ASSUME RewardTypeOK, Distinct
  PROVE  /\ Offers \in Seq(Goods) /\ Len(Offers) <= Len(Listed)
         /\ IsInjective(Offers)
         /\ \A x : x \in Range(Offers) <=> x \in Range(Listed) /\ Offered(x)
<1>1. /\ Listed \in Seq(Goods) /\ IsInjective(Listed)
  BY ListedFacts
<1> DEFINE T == {x \in Range(Listed) : Offered(x)}
<1> HIDE DEF T
<1>2. /\ Keep(Listed, T) \in Seq(Goods) /\ Len(Keep(Listed, T)) <= Len(Listed)
      /\ \A x : x \in Range(Keep(Listed, T)) <=> x \in Range(Listed) /\ x \in T
      /\ IsInjective(Keep(Listed, T))
  BY <1>1, KeepFacts
<1> QED
  BY <1>2 DEF Offers, T

-----------------------------------------------------------------------------
(* The sales of a transaction.  Each is for all there is of its asset, at  *)
(* an exchange that answered most, under an address that understands its   *)
(* operations, and no two are for the same.                                *)

SaleMessages ==
  {m \in [op : {"Sell"}, asset : Goods \ {Stable}, amount : Nat \ {0},
          quotes : [1 .. DexCount -> Quotes \cup {NoQuote}], first : BOOLEAN,
          kind : 1 .. DexCount, at : DexAddresses] :
     /\ m.kind \in Answered(m.quotes) \cap Understands[m.at]
     /\ m.quotes[m.kind] > 0
     /\ \A i \in Answered(m.quotes) : m.quotes[i] <= m.quotes[m.kind]}

Sales(s) ==
  /\ s \in Seq(SaleMessages)
  /\ \A k \in DOMAIN s : s[k].amount = Held(s[k].asset)
  /\ \A j, k \in DOMAIN s : s[j].asset = s[k].asset => j = k

(* Nothing that could be sold is forgotten.                                *)
AllOnSale(s) ==
  \A x \in Range(Listed) \ (unsold \cup Mute \cup {Stable}) :
    Held(x) = 0 \/ \E k \in DOMAIN s : s[k].asset = x

LEMMA HeldNat ==
  ASSUME RewardTypeOK, NEW A, Reward \in A, lsd \in [A -> Nat], NEW x \in Goods
  PROVE  Held(x) \in Nat
BY DEF RewardTypeOK, Held, Goods

(* One sale, of something that is there at a price that is above zero.     *)
LEMMA SellIsSale ==
  ASSUME RewardTypeOK, NEW A, Reward \in A, lsd \in [A -> Nat],
         NEW x \in Goods, Offered(x), NEW q \in Answers, Sellable(q),
         NEW first \in BOOLEAN
  PROVE  Sell(x, q, first) \in SaleMessages
<1>1. q \in [1 .. DexCount -> Quotes \cup {NoQuote}]
  BY DEF Answers
<1>2. /\ BestDex(q) \in Answered(q) /\ q[BestDex(q)] > 0
      /\ \A j \in Answered(q) : q[j] <= q[BestDex(q)]
  BY <1>1, BestDexFacts
<1>3. Held(x) \in Nat /\ Held(x) > 0 /\ x # Stable
  BY HeldNat DEF Offered
<1>4. /\ BestDex(q) \in 1 .. DexCount
      /\ swapConfig[BestDex(q)] \in DexAddresses
  BY <1>2 DEF Answered, RewardTypeOK
<1> DEFINE m == Sell(x, q, first)
<1>5. m = [op |-> "Sell", asset |-> x, amount |-> Held(x), quotes |-> q,
           first |-> first, kind |-> BestDex(q), at |-> swapConfig[BestDex(q)]]
  BY DEF Sell
<1>6. /\ m.kind \in Answered(m.quotes) \cap Understands[m.at]
      /\ m.quotes[m.kind] > 0
      /\ \A i \in Answered(m.quotes) : m.quotes[i] <= m.quotes[m.kind]
  BY <1>2, <1>5 DEF Answers
<1>7. m \in [op : {"Sell"}, asset : Goods \ {Stable}, amount : Nat \ {0},
            quotes : [1 .. DexCount -> Quotes \cup {NoQuote}], first : BOOLEAN,
            kind : 1 .. DexCount, at : DexAddresses]
  BY <1>1, <1>3, <1>4, <1>5
<1> HIDE DEF m
<1>8. m \in SaleMessages
  BY <1>6, <1>7 DEF SaleMessages
<1> QED
  BY <1>8 DEF m

LEMMA SellOffersFacts ==
  ASSUME RewardTypeOK, Distinct,
         NEW A, Reward \in A, lsd \in [A -> Nat],
         SellOffers, Tail(stack) = << >>, UNCHANGED rewardConfigs
  PROVE  /\ Sales(stack)' /\ AllOnSale(stack)'
         /\ unsold' \subseteq Goods
         /\ saved' = IF stack' = << >> THEN None ELSE saved
         /\ Len(stack') \in Nat /\ Len(stack') <= Len(Listed)
         /\ stack' # << >> => stack'[1].first
         /\ UNCHANGED <<lsd, held>>
<1>1. PICK q \in [Range(Offers) -> Answers] :
        LET sold == Keep(Offers, {x \in Range(Offers) : Sellable(q[x])})
        IN  /\ Continue([i \in DOMAIN sold |-> Sell(sold[i], q[sold[i]], i = 1)])
            /\ unsold' = {x \in Range(Offers) :
                            \A i \in 1 .. DexCount : q[x][i] \in {NoQuote, 0}}
            /\ UNCHANGED <<lsd, held>>
  BY DEF SellOffers
<1> DEFINE T == {x \in Range(Offers) : Sellable(q[x])}
           sold == Keep(Offers, T)
           msgs == [i \in DOMAIN sold |-> Sell(sold[i], q[sold[i]], i = 1)]
<1>2. /\ Continue(msgs)
      /\ unsold' = {x \in Range(Offers) :
                      \A i \in 1 .. DexCount : q[x][i] \in {NoQuote, 0}}
      /\ UNCHANGED <<lsd, held>>
  BY <1>1
<1>3. /\ Offers \in Seq(Goods) /\ IsInjective(Offers)
      /\ Len(Offers) <= Len(Listed)
      /\ \A x : x \in Range(Offers) <=> x \in Range(Listed) /\ Offered(x)
      /\ Listed \in Seq(Goods)
  BY OffersFacts, ListedFacts
<1>4. /\ sold \in Seq(Goods) /\ IsInjective(sold)
      /\ Len(sold) <= Len(Offers)
      /\ \A x : x \in Range(sold) <=> x \in Range(Offers) /\ x \in T
  <2> HIDE DEF T
  <2> QED
    BY <1>3, KeepFacts
<1> HIDE DEF sold
<1>5. /\ Len(sold) \in Nat /\ DOMAIN sold = 1 .. Len(sold)
      /\ \A i \in DOMAIN sold : sold[i] \in Range(sold) /\ sold[i] \in Goods
  BY <1>4 DEF Range
<1>6. /\ DOMAIN msgs = DOMAIN sold
      /\ \A i \in DOMAIN sold : /\ msgs[i] = Sell(sold[i], q[sold[i]], i = 1)
                               /\ msgs[i] \in SaleMessages
  <2>1. ASSUME NEW i \in DOMAIN sold
        PROVE  Sell(sold[i], q[sold[i]], i = 1) \in SaleMessages
    <3>1. /\ sold[i] \in Goods /\ Offered(sold[i])
          /\ q[sold[i]] \in Answers /\ Sellable(q[sold[i]])
      BY <1>3, <1>4, <1>5
    <3>2. (i = 1) \in BOOLEAN
      OBVIOUS
    <3> QED
      BY <3>1, <3>2, SellIsSale
  <2> QED
    BY <2>1
<1>7. msgs \in Seq(SaleMessages) /\ Len(msgs) = Len(sold)
  BY <1>5, <1>6
<1>8. stack' = msgs /\ saved' = IF stack' = << >> THEN None ELSE saved
  <2>1. msgs \o Tail(stack) = msgs
    <3> HIDE DEF msgs
    <3> QED
      BY <1>7, ConcatEmptySeq
  <2> HIDE DEF msgs
  <2> QED
    BY <1>2, <2>1 DEF Continue
<1>9. (\A x : Held(x)' = Held(x)) /\ Listed' = Listed
  BY <1>2 DEF Held, Listed, rewardConfigs
<1>10. \A k \in DOMAIN msgs : /\ msgs[k].asset = sold[k]
                             /\ msgs[k].amount = Held(sold[k])
  BY <1>6 DEF Sell
<1> HIDE DEF msgs, T
<1>11. Sales(stack)'
  <2>1. \A j, k \in DOMAIN sold : sold[j] = sold[k] => j = k
    BY <1>4 DEF IsInjective
  <2>2. \A j, k \in DOMAIN msgs : msgs[j].asset = msgs[k].asset => j = k
    BY <1>6, <1>10, <2>1
  <2> QED
    BY <1>7, <1>8, <1>9, <1>10, <2>2 DEF Sales
<1>12. AllOnSale(stack)'
  <2> SUFFICES ASSUME NEW x \in Range(Listed) \ (unsold' \cup Mute \cup {Stable}),
                      Held(x) # 0
               PROVE  \E k \in DOMAIN stack' : stack'[k].asset = x
    BY <1>9 DEF AllOnSale
  <2>1. x \in Goods
    BY <1>3 DEF Range
  <2>2. Offered(x)
    BY <2>1, HeldNat DEF Offered
  <2>3. x \in Range(Offers)
    BY <1>3, <2>2
  <2>4. PICK i \in 1 .. DexCount : q[x][i] \notin {NoQuote, 0}
    BY <1>2, <2>3
  <2>5. q[x] \in [1 .. DexCount -> Quotes \cup {NoQuote}]
    BY <2>3 DEF Answers
  <2>6. q[x][i] \in Nat /\ q[x][i] > 0
    <3>1. q[x][i] \in Quotes /\ q[x][i] # 0
      BY <2>4, <2>5
    <3>2. Quotes \subseteq Nat
      BY RewardAssumption
    <3>3. q[x][i] \in Nat
      BY <3>1, <3>2
    <3> QED
      BY <3>1, <3>3
  <2>7. Sellable(q[x])
    <3>1. i \in Answered(q[x])
      BY <2>4, <2>6, DexAssumption DEF Answered
    <3> QED
      BY <2>5, <2>6, <3>1, BestDexFacts
  <2>8. x \in Range(sold)
    BY <1>4, <2>3, <2>7 DEF T
  <2> QED
    BY <1>6, <1>8, <1>10, <2>8 DEF Range
<1>13. unsold' \subseteq Goods
  <2>1. Range(Offers) \subseteq Goods
    BY <1>3 DEF Range
  <2> QED
    BY <1>2, <2>1
<1>14. stack' # << >> => stack'[1].first
  <2> SUFFICES ASSUME stack' # << >> PROVE stack'[1].first
    OBVIOUS
  <2>1. Len(msgs) # 0
    BY <1>7, <1>8
  <2>2. 1 \in DOMAIN sold
    BY <1>5, <1>7, <2>1
  <2>3. msgs[1] = Sell(sold[1], q[sold[1]], 1 = 1)
    BY <1>6, <2>2
  <2>4. Sell(sold[1], q[sold[1]], 1 = 1).first = (1 = 1)
    BY DEF Sell
  <2>5. msgs[1].first = (1 = 1)
    BY <2>3, <2>4, Zenon
  <2> QED
    BY <1>8, <2>5
<1>15. Len(stack') \in Nat /\ Len(stack') <= Len(Listed)
  <2>1. Len(Offers) \in Nat /\ Len(Listed) \in Nat
    BY <1>3
  <2> QED
    BY <1>3, <1>4, <1>5, <1>7, <1>8, <2>1
<1> QED
  BY <1>2, <1>8, <1>11, <1>12, <1>13, <1>14, <1>15

(* The exchange takes what it is sent, in full, and gives the reward       *)
(* denomination for it; nothing else that is for sale changes.             *)
LEMMA ExchangeFacts ==
  ASSUME RewardTypeOK, NEW A, IsFiniteSet(A), Reward \in A, Market \in A,
         lsd \in [A -> Nat], NEW x \in Goods \ {Stable}, NEW paid \in Nat,
         Exchange(x, Held(x), paid)
  PROVE  /\ held' \in [Assets -> Nat] /\ lsd' \in [A -> Nat]
         /\ \A a \in A \ {Reward, Market} : lsd'[a] = lsd[a]
         /\ \A y \in Goods \ {Stable} :
              Held(y)' = IF y = x THEN 0 ELSE Held(y)
         /\ held'[Stable] = held[Stable] + paid
         /\ SumFunction(lsd') = SumFunction(lsd)
         /\ lsd'[Market] = lsd[Market] + (lsd[Reward] - lsd'[Reward])
<1>0. /\ Stable \in Assets /\ Lsd \notin Assets /\ Reward # Market
      /\ held \in [Assets -> Nat]
  BY RewardAssumption DEF Assets, RewardTypeOK
<1>1. CASE x = Lsd
  <2>1. /\ lsd' = [lsd EXCEPT ![Reward] = @ - lsd[Reward],
                            ![Market] = @ + lsd[Reward]]
        /\ held' = [held EXCEPT ![Stable] = @ + paid]
    BY <1>1 DEF Exchange, Held
  <2>2. /\ lsd' \in [A -> Nat] /\ lsd'[Reward] = 0
        /\ \A a \in A \ {Reward, Market} : lsd'[a] = lsd[a]
        /\ lsd'[Market] = lsd[Market] + lsd[Reward]
    BY <1>0, <2>1
  <2>5. PICK f \in [A -> Nat], h \in [A -> Nat] : f = lsd /\ h = lsd'
    BY <2>2
  <2>6. SumFunction(h) = SumFunction(f)
    <3>1. /\ h[Reward] = f[Reward] - f[Reward] /\ h[Market] = f[Market] + f[Reward]
          /\ \A a \in A \ {Reward, Market} : h[a] = f[a]
          /\ f[Reward] \in Int
      BY <2>2, <2>5
    <3> QED
      BY <1>0, <3>1, SumKept
  <2>7. lsd[Reward] \in Nat /\ lsd[Market] \in Nat
    OBVIOUS
  <2>3. /\ held' \in [Assets -> Nat] /\ held'[Stable] = held[Stable] + paid
        /\ \A y \in Assets \ {Stable} : held'[y] = held[y]
    BY <1>0, <2>1
  <2>4. held[Stable] \in Nat
    BY <1>0
  <2> QED
    BY <1>0, <1>1, <2>2, <2>3, <2>4, <2>5, <2>6, <2>7 DEF Goods, Held
<1>2. CASE x # Lsd
  <2>1. /\ held' = [held EXCEPT ![x] = @ - held[x], ![Stable] = @ + paid]
        /\ lsd' = lsd /\ x \in Assets /\ x # Stable
    BY <1>2 DEF Exchange, Held, Goods
  <2>2. /\ held' \in [Assets -> Nat] /\ held'[x] = 0
        /\ held'[Stable] = held[Stable] + paid
        /\ \A y \in Assets \ {Stable} : y # x => held'[y] = held[y]
    BY <1>0, <2>1
  <2>3. held[Stable] \in Nat
    BY <1>0
  <2>4. lsd'[Market] = lsd[Market] + (lsd[Reward] - lsd'[Reward])
    <3>1. lsd[Market] \in Nat /\ lsd[Reward] \in Nat
      OBVIOUS
    <3> QED
      BY <2>1, <3>1
  <2> QED
    BY <1>0, <1>2, <2>1, <2>2, <2>3, <2>4 DEF Goods, Held
<1> QED
  BY <1>1, <1>2

LEMMA RunSellFacts ==
  ASSUME RewardTypeOK, Distinct,
         NEW A, IsFiniteSet(A), Reward \in A, Market \in A, lsd \in [A -> Nat],
         Sales(stack), AllOnSale(stack), stack # << >>,
         RunSell(Head(stack)), UNCHANGED rewardConfigs
  PROVE  /\ Sales(stack)' /\ AllOnSale(stack)'
         /\ saved' = IF stack' = << >> THEN None ELSE saved
         /\ unsold' = unsold /\ Len(stack') < Len(stack)
         /\ held' \in [Assets -> Nat] /\ lsd' \in [A -> Nat]
         /\ \A a \in A \ {Reward, Market} : lsd'[a] = lsd[a]
         /\ SumFunction(lsd') = SumFunction(lsd)
         /\ lsd'[Market] = lsd[Market] + (lsd[Reward] - lsd'[Reward])
         /\ held'[Stable] >= held[Stable]
         /\ Head(stack).first => held'[Stable] > held[Stable]
         /\ \E x \in Goods \ {Stable} :
              /\ Held(x) > 0
              /\ \A y \in Goods \ {Stable} :
                   Held(y)' = IF y = x THEN 0 ELSE Held(y)
<1> DEFINE x == Head(stack).asset
<1>1. /\ stack \in Seq(SaleMessages) /\ Len(stack) \in Nat /\ Len(stack) > 0
      /\ DOMAIN stack = 1 .. Len(stack)
      /\ Head(stack) = stack[1] /\ Head(stack) \in SaleMessages
      /\ Tail(stack) \in Seq(SaleMessages)
      /\ DOMAIN Tail(stack) = 1 .. Len(stack) - 1
      /\ Len(Tail(stack)) = Len(stack) - 1
      /\ \A i \in 1 .. Len(stack) - 1 : Tail(stack)[i] = stack[i + 1]
  BY DEF Sales
<1>2. \A m \in SaleMessages : /\ m.asset \in Goods \ {Stable}
                              /\ m.amount \in Nat \ {0}
  BY DEF SaleMessages
<1>3. /\ x \in Goods \ {Stable} /\ Held(x) \in Nat \ {0}
      /\ Head(stack).amount = Held(x)
  BY <1>1, <1>2 DEF Sales
<1>4. PICK paid \in Nat : /\ Exchange(x, Held(x), paid)
                          /\ Head(stack).first => paid > 0
  <2>1. Quotes \subseteq Nat
    BY RewardAssumption
  <2>2. Head(stack).quotes[Head(stack).kind] > 0
    BY <1>1 DEF SaleMessages
  <2> QED
    BY <1>3, <2>1, <2>2 DEF RunSell
<1>5. /\ stack' = Tail(stack) /\ unsold' = unsold
      /\ saved' = IF stack' = << >> THEN None ELSE saved
  BY <1>1, ConcatEmptySeq DEF RunSell, Continue
<1> HIDE DEF x
<1>6. /\ held' \in [Assets -> Nat] /\ lsd' \in [A -> Nat]
      /\ \A a \in A \ {Reward, Market} : lsd'[a] = lsd[a]
      /\ \A y \in Goods \ {Stable} :
           Held(y)' = IF y = x THEN 0 ELSE Held(y)
      /\ held'[Stable] = held[Stable] + paid
      /\ SumFunction(lsd') = SumFunction(lsd)
      /\ lsd'[Market] = lsd[Market] + (lsd[Reward] - lsd'[Reward])
  BY <1>3, <1>4, ExchangeFacts
<1>12. /\ held'[Stable] >= held[Stable]
       /\ Head(stack).first => held'[Stable] > held[Stable]
  <2>1. held[Stable] \in Nat
    BY RewardAssumption DEF RewardTypeOK, Assets
  <2> QED
    BY <1>4, <1>6, <2>1
<1>7. \A i \in 1 .. Len(stack) - 1 :
        /\ i + 1 \in DOMAIN stack /\ 1 \in DOMAIN stack
        /\ stack[i + 1] \in SaleMessages /\ stack[i + 1].asset # x
        /\ stack[i + 1].amount = Held(stack[i + 1].asset)
  BY <1>1 DEF Sales, x
<1>8. Sales(stack)'
  <2>1. \A i \in DOMAIN Tail(stack) : \A y :
          y = Tail(stack)[i].asset => Tail(stack)[i].amount = Held(y)'
    BY <1>1, <1>2, <1>6, <1>7
  <2>2. \A i, j \in DOMAIN Tail(stack) :
          Tail(stack)[i].asset = Tail(stack)[j].asset => i = j
    <3>1. \A i, j \in DOMAIN stack : stack[i].asset = stack[j].asset => i = j
      BY DEF Sales
    <3> QED
      BY <1>1, <1>7, <3>1
  <2> QED
    BY <1>1, <1>5, <2>1, <2>2 DEF Sales, Held
<1>9. AllOnSale(stack)'
  <2> SUFFICES ASSUME NEW y \in Range(Listed) \ (unsold \cup Mute \cup {Stable}),
                      Held(y)' # 0
               PROVE  \E k \in DOMAIN Tail(stack) : Tail(stack)[k].asset = y
    BY <1>5 DEF AllOnSale, Listed, rewardConfigs
  <2>1. y \in Goods \ {Stable}
    BY ListedFacts DEF Range
  <2>2. y # x /\ Held(y) # 0
    BY <1>6, <2>1
  <2>3. PICK k \in DOMAIN stack : stack[k].asset = y
    BY <2>2 DEF AllOnSale
  <2>4. k # 1 /\ k - 1 \in 1 .. Len(stack) - 1 /\ (k - 1) + 1 = k
    BY <1>1, <2>2, <2>3 DEF x
  <2> QED
    BY <1>1, <2>3, <2>4
<1>10. Len(stack') < Len(stack)
  BY <1>1, <1>5
<1>11. \E y \in Goods \ {Stable} :
         /\ Held(y) > 0
         /\ \A z \in Goods \ {Stable} :
              Held(z)' = IF z = y THEN 0 ELSE Held(z)
  <2>1. Held(x) > 0
    BY <1>3
  <2> QED
    BY <1>3, <1>6, <2>1
<1> QED
  BY <1>5, <1>6, <1>8, <1>9, <1>10, <1>11, <1>12

-----------------------------------------------------------------------------
(* Transactions of a single handler keep the types and the list of tokens. *)

LEMMA RewardInitFacts == RewardInit => RewardTypeOK /\ Distinct
BY DEF RewardInit, RewardTypeOK, Distinct

LEMMA UpdateConfigFacts ==
  ASSUME RewardTypeOK, Distinct, NEW u, NEW owner \in Admins \cup {None},
         NEW custody \in Custodies \cup {None},
         NEW known \in KnownLists \cup {None},
         NEW exchanges \in [1 .. DexCount -> DexAddresses \cup {None}],
         RewardUpdateConfig(u, owner, custody, known, exchanges)
  PROVE  RewardTypeOK' /\ Distinct'
<1>1. rewardConfig' = [rewardConfig EXCEPT
                         !.owner = Given(owner, @), !.custody = Given(custody, @),
                         !.known = Given(known, @)]
  BY DEF RewardUpdateConfig
<1>2. /\ Given(owner, rewardConfig.owner) \in Admins
      /\ Given(custody, rewardConfig.custody) \in Custodies \cup {None}
      /\ Given(known, rewardConfig.known) \in KnownLists
      /\ \A i \in 1 .. DexCount :
           Given(exchanges[i], swapConfig[i]) \in DexAddresses
  BY DEF RewardTypeOK, Given
<1>3. IsInjective(Given(known, rewardConfig.known))
  BY DEF RewardUpdateConfig, Distinct, Given
<1>4. /\ rewardConfig' \in [owner : Admins, hub : Hubs,
                            custody : Custodies \cup {None}, known : KnownLists]
      /\ rewardConfig'.known = Given(known, rewardConfig.known)
  BY <1>1, <1>2 DEF RewardTypeOK
<1>5. swapConfig' \in [1 .. DexCount -> DexAddresses]
  BY <1>2 DEF RewardUpdateConfig
<1> QED
  BY <1>3, <1>4, <1>5 DEF RewardTypeOK, Distinct, RewardUpdateConfig

LEMMA ClaimFacts ==
  ASSUME RewardTypeOK, Distinct, NEW u, NEW recipient,
         ClaimRewards(u, recipient)
  PROVE  /\ RewardTypeOK' /\ Distinct'
         /\ \A x \in Assets \ {Stable} : held'[x] = held[x]
         /\ held'[Stable] \in {0, held[Stable]}
<1>1. Stable \in Assets /\ held \in [Assets -> Nat]
  BY RewardAssumption DEF Assets, RewardTypeOK
<1>2. /\ held' \in [Assets -> Nat]
      /\ \A x \in Assets \ {Stable} : held'[x] = held[x]
      /\ held'[Stable] \in {0, held[Stable]}
  BY <1>1 DEF ClaimRewards
<1> QED
  BY <1>2 DEF RewardTypeOK, Distinct, ClaimRewards, rewardConfigs

LEMMA DonateFacts ==
  ASSUME RewardTypeOK, Distinct, NEW x \in Assets, NEW max, Donate(x, max)
  PROVE  /\ RewardTypeOK' /\ Distinct'
         /\ \A y \in Assets : held'[y] >= held[y]
<1>1. held \in [Assets -> Nat] /\ held' = [held EXCEPT ![x] = @ + 1]
  BY DEF RewardTypeOK, Donate
<1>2. held' \in [Assets -> Nat] /\ \A y \in Assets : held'[y] >= held[y]
  BY <1>1
<1> QED
  BY <1>2 DEF RewardTypeOK, Distinct, Donate, rewardConfigs

-----------------------------------------------------------------------------
(* What a message queues runs before the rest.                             *)
LEMMA ContinuePair ==
  ASSUME NEW a, NEW b, stack = <<a, b>>, NEW c
  PROVE  /\ Head(stack) = a /\ ~Idle
         /\ Continue(<< >>) => stack' = <<b>> /\ saved' = saved
         /\ Continue(<<c>>) => stack' = <<c, b>> /\ saved' = saved
<1>1. Head(stack) = a /\ Tail(stack) = <<b>> /\ ~Idle
  BY DEF Idle
<1>2. << >> \o <<b>> = <<b>> /\ <<c>> \o <<b>> = <<c, b>>
  <2>1. <<b>> \in Seq({b})
    OBVIOUS
  <2>2. << >> \o <<b>> = <<b>>
    BY <2>1, ConcatEmptySeq
  <2>3. <<c>> \o <<b>> = <<c, b>>
    <3>1. /\ <<c>> \in Seq({b, c}) /\ <<b>> \in Seq({b, c})
          /\ Len(<<c>>) = 1 /\ Len(<<b>>) = 1
      OBVIOUS
    <3>2. /\ <<c>> \o <<b>> \in Seq({b, c}) /\ Len(<<c>> \o <<b>>) = 2
          /\ (<<c>> \o <<b>>)[1] = c /\ (<<c>> \o <<b>>)[2] = b
      BY <3>1, ConcatProperties
    <3>3. /\ <<c, b>> \in Seq({b, c}) /\ Len(<<c, b>>) = 2
          /\ <<c, b>>[1] = c /\ <<c, b>>[2] = b
      OBVIOUS
    <3>4. \A i \in 1 .. 2 : i = 1 \/ i = 2
      OBVIOUS
    <3> QED
      BY <3>2, <3>3, <3>4, SeqEqual
  <2> QED
    BY <2>2, <2>3
<1>3. <<b>> # << >> /\ <<c, b>> # << >>
  OBVIOUS
<1> QED
  BY <1>1, <1>2, <1>3 DEF Continue

(* The same for a message that leaves two behind, and for the last one,    *)
(* which queues three.                                                     *)
LEMMA ContinueTriple ==
  ASSUME NEW a, NEW b, NEW c, stack = <<a, b, c>>
  PROVE  /\ Head(stack) = a /\ ~Idle
         /\ Continue(<< >>) => stack' = <<b, c>> /\ saved' = saved
<1>1. Head(stack) = a /\ Tail(stack) = <<b, c>> /\ ~Idle
  BY DEF Idle
<1>2. << >> \o <<b, c>> = <<b, c>>
  <2>1. <<b, c>> \in Seq({b, c})
    OBVIOUS
  <2> QED
    BY <2>1, ConcatEmptySeq
<1>3. <<b, c>> # << >>
  OBVIOUS
<1> QED
  BY <1>1, <1>2, <1>3 DEF Continue

LEMMA ContinueLast ==
  ASSUME NEW a, stack = <<a>>, NEW b, NEW c, NEW d
  PROVE  /\ Head(stack) = a /\ Tail(stack) = << >> /\ ~Idle
         /\ Continue(<<b, c>> \o <<d>>) => stack' = <<b, c, d>> /\ saved' = saved
<1>1. Head(stack) = a /\ Tail(stack) = << >> /\ ~Idle
  BY DEF Idle
<1>2. <<b, c>> \o <<d>> = <<b, c, d>>
  <2>1. /\ <<b, c>> \in Seq({b, c, d}) /\ <<d>> \in Seq({b, c, d})
        /\ Len(<<b, c>>) = 2 /\ Len(<<d>>) = 1
        /\ <<b, c>>[1] = b /\ <<b, c>>[2] = c /\ <<d>>[1] = d
    OBVIOUS
  <2>2. /\ <<b, c>> \o <<d>> \in Seq({b, c, d}) /\ Len(<<b, c>> \o <<d>>) = 3
        /\ (<<b, c>> \o <<d>>)[1] = b /\ (<<b, c>> \o <<d>>)[2] = c
        /\ (<<b, c>> \o <<d>>)[3] = d
    BY <2>1, ConcatProperties
  <2>3. /\ <<b, c, d>> \in Seq({b, c, d}) /\ Len(<<b, c, d>>) = 3
        /\ <<b, c, d>>[1] = b /\ <<b, c, d>>[2] = c /\ <<b, c, d>>[3] = d
    OBVIOUS
  <2>4. \A i \in 1 .. 3 : i = 1 \/ i = 2 \/ i = 3
    OBVIOUS
  <2> QED
    BY <2>2, <2>3, <2>4, SeqEqual
<1>3. <<b, c, d>> \o << >> = <<b, c, d>>
  <2>1. <<b, c, d>> \in Seq({b, c, d})
    OBVIOUS
  <2> QED
    BY <2>1, ConcatEmptySeq
<1>4. <<b, c, d>> # << >>
  OBVIOUS
<1> QED
  BY <1>1, <1>2, <1>3, <1>4 DEF Continue

-----------------------------------------------------------------------------
(* What the handlers of this contract ask of a message, or find of the     *)
(* account and the exchanges, before they do anything.                     *)

SwapAcceptable(m) ==
  /\ m.op = "SwapToRewardDenom" /\ m.at = Reward /\ m.from = rewardConfig.hub
  /\ [Range(Offers) -> Answers] # {}
SaleAcceptable(m) ==
  /\ m.op = "Sell" /\ m.amount <= Held(m.asset)
  /\ m.kind \in Understands[m.at]
  /\ \E paid \in Quotes : m.first => paid = m.quotes[m.kind]

(* However few exchanges answer, execute_swap can go on.                   *)
LEMMA SomeAnswers == [Range(Offers) -> Answers] # {}
<1> DEFINE silence == [i \in 1 .. DexCount |-> NoQuote]
<1>1. silence \in Answers
  BY DEF Answers, Answered
<1> HIDE DEF silence
<1>2. [x \in Range(Offers) |-> silence] \in [Range(Offers) -> Answers]
  BY <1>1
<1> QED
  BY <1>2

(* The next of the sales is of what is there, by an address that           *)
(* understands it.                                                         *)
LEMMA NextSaleAcceptable ==
  ASSUME Sales(stack), ~Idle
  PROVE  SaleAcceptable(Head(stack))
<1>1. /\ stack \in Seq(SaleMessages) /\ stack # << >>
      /\ stack[1].amount = Held(stack[1].asset)
  BY DEF Sales, Idle
<1>2. PICK m : m \in SaleMessages /\ m = stack[1] /\ m = Head(stack)
  BY <1>1
<1>3. /\ m.op = "Sell" /\ m.amount \in Nat /\ m.kind \in Understands[m.at]
      /\ m.kind \in Answered(m.quotes)
      /\ m.quotes \in [1 .. DexCount -> Quotes \cup {NoQuote}]
  BY <1>2 DEF SaleMessages
<1>4. m.quotes[m.kind] \in Quotes
  BY <1>3 DEF Answered
<1>5. m.amount <= Held(m.asset)
  BY <1>1, <1>2, <1>3
<1> QED
  BY <1>2, <1>3, <1>4, <1>5 DEF SaleAcceptable
=============================================================================
