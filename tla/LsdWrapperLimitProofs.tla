------------------------ MODULE LsdWrapperLimitProofs -----------------------
(***************************************************************************)
(* Theorems about LsdWrapperLimit, for every value of its constants: its   *)
(* types, that the ratio extracted stays within the limit, that what is    *)
(* extracted is what is recorded, and that only a Decompound lowers the    *)
(* LSD behind each token.                                                  *)
(*                                                                         *)
(* The limit is not inductive by itself: it speaks of the time since       *)
(* instantiate, and the handler sees only its own count.  The invariant    *)
(* adds that the count is exact up to the last decompound, although each   *)
(* call truncates the block time to seconds.                               *)
(***************************************************************************)
EXTENDS LsdWrapperLimit, Cw20WrapperProofs

ClockExact == totalSeconds = Seconds(lastDecompound) - Seconds(startTime)
CapInv == maxRatio # NoLimit => ratioSum <= CapAfter(maxRatio, totalSeconds)
IInv == TypeOK /\ ClockExact /\ CapInv

-----------------------------------------------------------------------------
(* Time and the limit.                                                     *)

LEMMA SecondsMono ==
  ASSUME NEW a \in Nat, NEW b \in Nat, a <= b
  PROVE  /\ Seconds(a) \in Nat /\ Seconds(b) \in Nat
         /\ Seconds(a) <= Seconds(b)
BY DivMono, LimitAssumption DEF Seconds

(* The longer the contract has run, the more it may have extracted.        *)
LEMMA CapMono ==
  ASSUME NEW m \in Nat, NEW s \in Nat, NEW t \in Nat, s <= t
  PROVE  /\ CapAfter(m, s) \in Nat /\ CapAfter(m, t) \in Nat
         /\ CapAfter(m, s) <= CapAfter(m, t)
<1> DEFINE p == FromRatio(s, YEAR)
           q == FromRatio(t, YEAR)
<1>1. /\ s * ONE \in Nat /\ t * ONE \in Nat
      /\ s * ONE <= t * ONE
  BY OneAssumption, MulNat, MulMono
<1>2. p \in Nat /\ q \in Nat /\ p <= q
  BY <1>1, DivMono, LimitAssumption DEF FromRatio
<1> HIDE DEF p, q
<1>3. /\ m * p \in Nat /\ m * q \in Nat /\ m * p <= m * q
  BY <1>2, MulNat, SMT
<1> QED
  BY <1>3, DivMono, OneAssumption DEF CapAfter, Prod, p, q

LEMMA LimitTypes ==
  ASSUME TypeOK
  PROVE  /\ lsd[Wrapper] \in Nat /\ supply \in Nat /\ rate \in Nat
         /\ maxRatio # NoLimit => maxRatio \in Nat
BY UsersAreAccounts, AmountAssumption, LimitAssumption DEF TypeOK, TokenTypeOK

(* The contract's count of time never falls behind the last decompound,    *)
(* so what is left of the limit is not negative.                           *)
LEMMA SpareNat ==
  ASSUME IInv
  PROVE  /\ TotalPeriod \in Nat /\ TotalPeriod >= totalSeconds
         /\ TotalPeriod = Seconds(now) - Seconds(startTime)
         /\ maxRatio # NoLimit => Spare \in Nat
<1>1. /\ startTime \in Nat /\ lastDecompound \in Nat /\ now \in Nat
      /\ startTime <= lastDecompound /\ lastDecompound <= now
      /\ totalSeconds \in Nat /\ ratioSum \in Nat
      /\ totalSeconds = Seconds(lastDecompound) - Seconds(startTime)
  BY DEF IInv, TypeOK, ClockExact
<1>2. /\ Seconds(lastDecompound) \in Nat /\ Seconds(now) \in Nat
      /\ Seconds(startTime) \in Nat
      /\ Seconds(lastDecompound) <= Seconds(now)
  BY <1>1, SecondsMono
<1>3. /\ TotalPeriod \in Nat /\ TotalPeriod >= totalSeconds
      /\ TotalPeriod = Seconds(now) - Seconds(startTime)
  BY <1>1, <1>2 DEF TotalPeriod
<1>4. ASSUME maxRatio # NoLimit PROVE Spare \in Nat
  <2>1. maxRatio \in Nat /\ ratioSum <= CapAfter(maxRatio, totalSeconds)
    BY <1>4, LimitTypes DEF IInv, CapInv
  <2>2. /\ CapAfter(maxRatio, totalSeconds) \in Nat
        /\ CapAfter(maxRatio, TotalPeriod) \in Nat
        /\ CapAfter(maxRatio, totalSeconds) <= CapAfter(maxRatio, TotalPeriod)
    BY <1>1, <1>3, <2>1, CapMono
  <2> QED BY <1>1, <2>1, <2>2 DEF Spare
<1> QED BY <1>3, <1>4

-----------------------------------------------------------------------------
(* What compute_accrued_rewards returns.                                   *)

(* Luna limited to a part p of the backing v are at most p of it.          *)
LEMMA RateBound ==
  ASSUME NEW n \in Nat, NEW p \in Nat, NEW v \in Nat \ {0},
         n <= Trunc(Prod(p, v))
  PROVE  Quo(FromInt(n), v) <= p
<1> DEFINE x == Prod(p, v)
           q == Quo(FromInt(n), v)
<1>1. p * v \in Nat /\ n * ONE \in Nat /\ (n * ONE) * ONE \in Nat
  BY OneAssumption, MulNat
<1>2. x \in Nat /\ x * ONE <= p * v
  BY <1>1, DivBounds, OneAssumption DEF Prod
<1>3. q \in Nat /\ q * v <= (n * ONE) * ONE
  BY <1>1, DivBounds DEF Quo, FromInt
<1>4. Trunc(x) \in Nat /\ Trunc(x) * ONE <= x /\ n <= Trunc(x)
  BY <1>2, TruncBounds
<1> HIDE DEF x, q
<1>5. n * ONE <= x
  BY <1>2, <1>4, OneAssumption, MulMono, MulNat
<1>6. (n * ONE) * ONE <= x * ONE
  BY <1>1, <1>2, <1>5, OneAssumption, MulMono
<1>7. q * v <= p * v
  BY <1>1, <1>2, <1>3, <1>6, OneAssumption, MulNat
<1>8. q <= p
  BY <1>3, <1>7, MulCancelLeq
<1> QED BY <1>8 DEF q

(* A harvest takes no more than the excess, and so leaves the backing.     *)
LEMMA RewardsKeepCover ==
  ASSUME IInv, NEW b \in Nat, NEW s \in Nat, NEW r \in Nat \ {0},
         b * r >= s * ONE
  PROVE  /\ LsdRewards(b, s, r) \in Nat
         /\ LsdRewards(b, s, r) <= b
         /\ (b - LsdRewards(b, s, r)) * r >= s * ONE
<1> DEFINE e == ExcessLsd(b, s, r)
           y == LimitedLsd(b, s, r)
           w == LsdRewards(b, s, r)
<1>1. /\ e \in Nat /\ e <= b
      /\ \A v \in Nat : v < e => (b - v) * r >= s * ONE
  BY ExcessLsdBounds
<1>2. y \in Nat /\ y <= e
  <2>1. CASE maxRatio = NoLimit
    BY <1>1, <2>1 DEF LimitedLsd
  <2>2. CASE maxRatio # NoLimit
    <3>1. Spare * b \in Nat
      BY <2>2, SpareNat, MulNat
    <3>2. Scale(Spare, b) \in Nat
      BY <3>1, DivBounds, OneAssumption DEF Scale
    <3> QED BY <1>1, <2>2, <3>2 DEF LimitedLsd, Smaller
  <2> QED BY <2>1, <2>2
<1>3. w = IF y > 0 THEN y - 1 ELSE 0
  BY DEF LsdRewards
<1> HIDE DEF e, y, w
<1>4. w \in Nat /\ w <= b /\ (w < e \/ w = 0)
  BY <1>1, <1>2, <1>3
<1>5. (b - w) * r >= s * ONE
  BY <1>1, <1>4
<1> QED BY <1>4, <1>5 DEF w

(* The value of a part p of the vault, rounded down to whole LSD.          *)
LEMMA ScaleValue ==
  ASSUME NEW p \in Nat, NEW b \in Nat, NEW r \in Nat
  PROVE  /\ Scale(p, b) \in Nat
         /\ (Scale(p, b) * r) * ONE <= p * (b * r)
<1> DEFINE y == Scale(p, b)
<1>1. p * b \in Nat /\ y \in Nat /\ y * ONE <= p * b
  BY MulNat, DivBounds, OneAssumption DEF Scale
<1> HIDE DEF y
<1>2. (y * ONE) * r <= (p * b) * r
  BY <1>1, OneAssumption, MulNat, MulMono
<1>3. (y * ONE) * r = (y * r) * ONE /\ (p * b) * r = p * (b * r)
  BY <1>1, OneAssumption, SMT
<1> QED BY <1>1, <1>2, <1>3 DEF y

(* What the limit leaves of the Luna is at least what one LSD is worth,    *)
(* when it leaves an LSD.                                                  *)
LEMMA LimitedLunaCoversLsd ==
  ASSUME IInv, NEW b \in Nat, NEW s \in Nat, NEW r \in Nat \ {0},
         b * r >= s * ONE, OrdinaryRate(r)
  PROVE  LunaRewards(b, s, r) >= 0
<1> DEFINE t == Trunc(r)
           x == Prod(Spare, Backing(b, r))
<1>1. /\ t \in Nat /\ ExcessLuna(b, s, r) \in Nat
      /\ ExcessLsd(b, s, r) > 0 => ExcessLuna(b, s, r) >= t
  BY LunaCoversLsd, TruncBounds
<1>2. CASE maxRatio = NoLimit
  <2> HIDE DEF t
  <2> QED BY <1>1, <1>2 DEF LunaRewards, LimitedLuna, LimitedLsd, t
<1>3. CASE maxRatio # NoLimit
  <2>1. Spare \in Nat /\ Backing(b, r) = b * r /\ b * r \in Nat
    BY <1>3, SpareNat, ProdFromInt, MulNat DEF Backing
  <2>2. x \in Nat /\ Spare * (b * r) < x * ONE + ONE
    BY <2>1, MulNat, DivBounds, OneAssumption DEF Prod
  <2>3. Trunc(x) \in Nat
    BY <2>2, TruncBounds
  <2>4. Scale(Spare, b) \in Nat /\ (Scale(Spare, b) * r) * ONE <= Spare * (b * r)
    BY <2>1, ScaleValue
  <2>5. ASSUME Scale(Spare, b) > 0 PROVE Trunc(x) >= t
    <3> HIDE DEF x
    <3> DEFINE y == Scale(Spare, b)
               z == Spare * (b * r)
    <3>1. z \in Nat
      BY <2>1, MulNat
    <3>2. (y - 1) * r \in Nat /\ y * r = (y - 1) * r + r
      <4> HIDE DEF y
      <4> QED BY <2>4, <2>5, MulNat, SMT DEF y
    <3>3. r * ONE <= (y * r) * ONE
      BY <2>4, <3>2, OneAssumption, MulNat, MulMono
    <3>4. r * ONE < (x + 1) * ONE
      <4>1. (y * r) * ONE \in Nat /\ (y * r) * ONE <= z
        BY <2>4, OneAssumption, MulNat
      <4> HIDE DEF y, z
      <4> QED BY <2>2, <3>1, <3>3, <4>1, OneAssumption, MulNat, SMT DEF z
    <3>5. r < x + 1
      BY <2>2, <3>4, OneAssumption, MulCancel
    <3>6. r <= x
      BY <2>2, <3>5
    <3> QED BY <2>2, <3>6, OneAssumption, DivMono DEF Trunc
  <2> HIDE DEF t, x
  <2>6. LimitedLuna(b, s, r) = Smaller(ExcessLuna(b, s, r), Trunc(x))
    BY <1>3 DEF LimitedLuna, x
  <2>7. /\ LimitedLuna(b, s, r) \in Nat
        /\ LimitedLsd(b, s, r) > 0 => LimitedLuna(b, s, r) >= t
    <3>1. LimitedLsd(b, s, r) = Smaller(ExcessLsd(b, s, r), Scale(Spare, b))
      BY <1>3 DEF LimitedLsd
    <3>2. ExcessLsd(b, s, r) \in Nat
      BY ExcessLsdBounds
    <3> QED
      BY <1>1, <2>3, <2>4, <2>5, <2>6, <3>1, <3>2 DEF Smaller
  <2> QED BY <1>1, <2>7 DEF LunaRewards, t
<1> QED BY <1>2, <1>3

(* The ratio a harvest records is at most what was left of the limit.      *)
LEMMA RateDecreaseBounds ==
  ASSUME IInv, NEW b \in Nat, NEW s \in Nat, NEW r \in Nat \ {0},
         Backing(b, r) > 0, LunaRewards(b, s, r) >= 0
  PROVE  /\ LunaRewards(b, s, r) \in Nat
         /\ RateDecrease(b, s, r) \in Nat
         /\ maxRatio # NoLimit => RateDecrease(b, s, r) <= Spare
<1> DEFINE n == LunaRewards(b, s, r)
           m == LimitedLuna(b, s, r)
           v == Backing(b, r)
<1>1. v \in Nat \ {0}
  <2>1. Backing(b, r) = b * r
    BY ProdFromInt DEF Backing
  <2>2. b * r \in Nat
    BY MulNat
  <2> QED BY <2>1, <2>2
<1>2. Trunc(v) \in Nat /\ Trunc(r) \in Nat
  BY <1>1, TruncBounds
<1>3. ASSUME maxRatio # NoLimit
      PROVE  /\ Trunc(Prod(Spare, v)) \in Nat
             /\ Spare \in Nat
  <2>1. Spare \in Nat /\ Spare * v \in Nat
    BY <1>1, <1>3, SpareNat, MulNat
  <2>2. Prod(Spare, v) \in Nat
    BY <2>1, DivBounds, OneAssumption DEF Prod
  <2> QED BY <2>1, <2>2, TruncBounds
<1>4. /\ m \in Int
      /\ maxRatio # NoLimit => m <= Trunc(Prod(Spare, v))
  BY <1>2, <1>3 DEF LimitedLuna, ExcessLuna, Smaller
<1>5. n \in Nat /\ n <= m
  <2> HIDE DEF m
  <2>1. n = m - (IF LimitedLsd(b, s, r) > 0 THEN Trunc(r) ELSE 0)
    BY DEF LunaRewards, m
  <2> QED BY <1>2, <1>4, <2>1
<1> HIDE DEF n, m, v
<1>6. Quo(FromInt(n), v) \in Nat
  <2>1. (n * ONE) * ONE \in Nat
    BY <1>5, OneAssumption, MulNat
  <2> QED BY <1>1, <2>1, DivBounds DEF Quo, FromInt
<1>7. ASSUME maxRatio # NoLimit PROVE Quo(FromInt(n), v) <= Spare
  <2>1. n <= Trunc(Prod(Spare, v))
    BY <1>3, <1>4, <1>5, <1>7
  <2> QED BY <1>1, <1>3, <1>5, <1>7, <2>1, RateBound
<1> QED
  BY <1>5, <1>6, <1>7 DEF RateDecrease, n, v

(* What a harvest takes, valued in Luna, and the Luna rewards it reports   *)
(* differ by less than one Luna and one atomic of the rate.                *)
LEMMA ExcessLsdValue ==
  ASSUME NEW b \in Nat, NEW s \in Nat, NEW r \in Nat \ {0},
         b * r >= s * ONE
  PROVE  (ExcessLsd(b, s, r) * r) * ONE < (b * r) * ONE - (s * ONE) * ONE + r
<1> DEFINE q == Quo(FromInt(s), r)
           e == ExcessLsd(b, s, r)
<1>1. /\ q \in Nat
      /\ q * r <= (s * ONE) * ONE
      /\ (s * ONE) * ONE < q * r + r
  BY QuoBounds
<1>2. b * ONE - q \in Nat
  <2>1. q * r <= (b * ONE) * r
    BY <1>1, OneAssumption, SMT
  <2>2. q <= b * ONE
    BY <1>1, <2>1, OneAssumption, MulNat, MulCancelLeq
  <2> QED BY <1>1, <2>2, OneAssumption, MulNat, SMT
<1>3. e \in Nat /\ e * ONE <= b * ONE - q
  BY <1>2, TruncBounds DEF ExcessLsd, FromInt
<1> HIDE DEF q, e
<1>4. (e * ONE) * r <= (b * ONE - q) * r
  BY <1>2, <1>3, OneAssumption, MulNat, MulMono
<1>5. (b * ONE - q) * r = (b * r) * ONE - q * r /\ (e * ONE) * r = (e * r) * ONE
  BY <1>1, <1>3, OneAssumption, SMT
<1>6. /\ (b * r) * ONE \in Nat /\ (s * ONE) * ONE \in Nat
      /\ q * r \in Nat /\ (e * r) * ONE \in Nat
  BY <1>1, <1>3, OneAssumption, MulNat
<1> QED BY <1>1, <1>4, <1>5, <1>6 DEF e

LEMMA TruncProdValue ==
  ASSUME NEW p \in Nat, NEW v \in Nat
  PROVE  /\ Trunc(Prod(p, v)) \in Nat
         /\ p * v < (Trunc(Prod(p, v)) * ONE) * ONE + ONE * ONE
<1> DEFINE x == Prod(p, v)
           t == Trunc(x)
<1>1. p * v \in Nat /\ x \in Nat /\ p * v < x * ONE + ONE
  BY MulNat, DivBounds, OneAssumption DEF Prod
<1>2. t \in Nat /\ x < t * ONE + ONE
  BY <1>1, TruncBounds
<1> HIDE DEF x, t
<1>3. (x + 1) * ONE <= (t * ONE + ONE) * ONE
  BY <1>1, <1>2, OneAssumption, MulNat, MulMono
<1>4. /\ (x + 1) * ONE = x * ONE + ONE
      /\ (t * ONE + ONE) * ONE = (t * ONE) * ONE + ONE * ONE
  BY <1>1, <1>2, OneAssumption, SMT
<1>5. /\ x * ONE \in Nat /\ (t * ONE) * ONE \in Nat /\ ONE * ONE \in Nat
  BY <1>1, <1>2, OneAssumption, MulNat
<1> QED BY <1>1, <1>2, <1>3, <1>4, <1>5, OneAssumption DEF x, t

LEMMA RewardsAgree ==
  ASSUME IInv, NEW b \in Nat, NEW s \in Nat, NEW r \in Nat \ {0},
         b * r >= s * ONE, LunaRewards(b, s, r) \in Nat
  PROVE  (LsdRewards(b, s, r) * r) * ONE
           < (LunaRewards(b, s, r) * ONE) * ONE + ONE * ONE + r
<1> DEFINE e == ExcessLsd(b, s, r)
           y == LimitedLsd(b, s, r)
           m == LimitedLuna(b, s, r)
           w == LsdRewards(b, s, r)
           n == LunaRewards(b, s, r)
           v == b * r
           t == Trunc(r)
<1>0. v \in Nat /\ Backing(b, r) = v /\ ONE * ONE \in Nat /\ ONE * ONE > 0
  BY ProdFromInt, OneAssumption, MulNat, SMT DEF Backing
<1>1. t \in Nat /\ t * ONE <= r
  BY TruncBounds
<1>2. /\ w = IF y > 0 THEN y - 1 ELSE 0
      /\ n = m - (IF y > 0 THEN t ELSE 0)
      /\ n \in Nat
  BY DEF LsdRewards, LunaRewards
<1>3. e \in Nat /\ (e * r) * ONE < v * ONE - (s * ONE) * ONE + r
  BY ExcessLsdBounds, ExcessLsdValue
<1>4. /\ Trunc(v) \in Nat
      /\ v < Trunc(v) * ONE + ONE
  BY <1>0, TruncBounds
<1>5. ASSUME maxRatio # NoLimit
      PROVE  /\ Spare \in Nat
             /\ Scale(Spare, b) \in Nat
             /\ (Scale(Spare, b) * r) * ONE <= Spare * v
             /\ Trunc(Prod(Spare, v)) \in Nat
             /\ Spare * v < (Trunc(Prod(Spare, v)) * ONE) * ONE + ONE * ONE
  BY <1>0, <1>5, SpareNat, ScaleValue, TruncProdValue
<1>6. /\ y \in Nat /\ y <= e
      /\ \/ m = Trunc(v) - s
         \/ /\ maxRatio # NoLimit /\ y <= Scale(Spare, b)
            /\ m = Trunc(Prod(Spare, v))
  <2>1. CASE maxRatio = NoLimit
    BY <1>0, <1>3, <2>1 DEF LimitedLsd, LimitedLuna, ExcessLuna
  <2>2. CASE maxRatio # NoLimit
    BY <1>0, <1>3, <1>5, <2>2 DEF LimitedLsd, LimitedLuna, ExcessLuna, Smaller
  <2> QED BY <2>1, <2>2
<1>7. m \in Int
  BY <1>4, <1>5, <1>6
<1> HIDE DEF e, y, m, w, n, v, t
<1>8. (y * r) * ONE < (m * ONE) * ONE + ONE * ONE + r
  <2>1. CASE m = Trunc(v) - s
    <3>1. (y * r) * ONE <= (e * r) * ONE
      BY <1>3, <1>6, OneAssumption, MulNat, MulMono
    <3>2. v * ONE <= (Trunc(v) * ONE + ONE) * ONE
      BY <1>0, <1>4, OneAssumption, MulNat, MulMono
    <3>3. (Trunc(v) * ONE + ONE) * ONE = (Trunc(v) * ONE) * ONE + ONE * ONE
      BY <1>4, OneAssumption, SMT
    <3>4. (m * ONE) * ONE = (Trunc(v) * ONE) * ONE - (s * ONE) * ONE
      BY <1>4, <2>1, OneAssumption, SMT
    <3>5. /\ (Trunc(v) * ONE) * ONE \in Nat /\ (s * ONE) * ONE \in Nat
          /\ v * ONE \in Nat /\ (e * r) * ONE \in Nat
          /\ (y * r) * ONE \in Nat
      BY <1>0, <1>3, <1>4, <1>6, OneAssumption, MulNat
    <3> QED BY <1>0, <1>3, <3>1, <3>2, <3>3, <3>4, <3>5
  <2>2. CASE /\ maxRatio # NoLimit /\ y <= Scale(Spare, b)
             /\ m = Trunc(Prod(Spare, v))
    <3>1. (y * r) * ONE <= (Scale(Spare, b) * r) * ONE
      BY <1>5, <1>6, <2>2, OneAssumption, MulNat, MulMono
    <3>2. /\ (y * r) * ONE \in Nat /\ (Scale(Spare, b) * r) * ONE \in Nat
          /\ Spare * v \in Nat /\ (m * ONE) * ONE \in Nat
      BY <1>0, <1>5, <1>6, <2>2, OneAssumption, MulNat
    <3> QED BY <1>0, <1>5, <2>2, <3>1, <3>2
  <2> QED BY <1>6, <2>1, <2>2
<1>9. (w * r) * ONE < (n * ONE) * ONE + ONE * ONE + r
  <2>1. CASE y = 0
    <3>1. w = 0 /\ (0 * r) * ONE = 0 /\ (n * ONE) * ONE \in Nat
      BY <1>2, <2>1, OneAssumption, MulNat
    <3> QED BY <1>0, <3>1
  <2>2. CASE y > 0
    <3>1. (w * r) * ONE = (y * r) * ONE - r * ONE
      BY <1>2, <1>6, <2>2, OneAssumption, SMT
    <3>2. (n * ONE) * ONE = (m * ONE) * ONE - (t * ONE) * ONE
      BY <1>1, <1>2, <1>7, <2>2, OneAssumption, SMT
    <3>3. (t * ONE) * ONE <= r * ONE
      BY <1>1, OneAssumption, MulNat, MulMono
    <3>4. /\ (t * ONE) * ONE \in Nat /\ r * ONE \in Nat
          /\ (y * r) * ONE \in Nat /\ (m * ONE) * ONE \in Int
      BY <1>1, <1>6, <1>7, OneAssumption, MulNat, SMT
    <3> QED BY <1>0, <1>8, <3>1, <3>2, <3>3, <3>4
  <2> QED BY <1>6, <2>1, <2>2
<1> QED BY <1>9 DEF w, n

-----------------------------------------------------------------------------
(* Every step keeps the invariant.                                         *)

LEMMA WrapperRateNat ==
  ASSUME TypeOK
  PROVE  WrapperRate \in Nat
<1>1. CASE lsd[Wrapper] = 0 \/ supply = 0
  BY <1>1, OneAssumption DEF WrapperRate
<1>2. CASE ~(lsd[Wrapper] = 0 \/ supply = 0)
  <2>1. lsd[Wrapper] \in Nat \ {0} /\ supply * ONE \in Nat
    BY <1>2, LimitTypes, OneAssumption, MulNat
  <2>2. FromRatio(supply, lsd[Wrapper]) \in Nat
    BY <2>1, DivBounds DEF FromRatio
  <2> QED BY <1>2, <2>2 DEF WrapperRate
<1> QED BY <1>1, <1>2

(* A step that leaves the clock and the limit alone.                       *)
LEMMA LimitUntouched ==
  ASSUME IInv, TokenTypeOK', UNCHANGED <<now, limitVars>>
  PROVE  IInv'
BY DEF IInv, TypeOK, ClockExact, CapInv, limitVars, CapAfter, Seconds

(* What the handler is to send, while the vault is not slashed, is there,  *)
(* and leaves the supply covered.                                          *)
LEMMA HarvestRewards ==
  ASSUME IInv, RecordHarvest
  PROVE  /\ LsdRewards(lsd[Wrapper], supply, rate) \in Nat
         /\ LsdRewards(lsd[Wrapper], supply, rate) <= lsd[Wrapper]
         /\ (lsd[Wrapper] - LsdRewards(lsd[Wrapper], supply, rate)) * rate
              >= supply * ONE
<1>1. lsd[Wrapper] \in Nat /\ supply \in Nat /\ rate \in Nat \ {0}
  BY LimitTypes DEF RecordHarvest, IInv, TypeOK
<1>2. lsd[Wrapper] * rate >= supply * ONE
  BY <1>1, SlashedExactly, OneAssumption, MulNat DEF Slashed, RecordHarvest
<1> QED BY <1>1, <1>2, RewardsKeepCover

(* What it records keeps the invariant, whatever becomes of the LSD.       *)
LEMMA RecordStep ==
  ASSUME IInv, RecordHarvest, TokenTypeOK', UNCHANGED now
  PROVE  IInv'
<1> DEFINE d == RateDecrease(lsd[Wrapper], supply, rate)
<1>1. /\ lsd[Wrapper] \in Nat /\ supply \in Nat /\ rate \in Nat \ {0}
      /\ ratioSum \in Nat /\ now \in Nat
      /\ startTime \in Nat /\ lastDecompound \in Nat
      /\ startTime <= lastDecompound
  BY LimitTypes DEF RecordHarvest, IInv, TypeOK
<1>2. d \in Nat /\ (maxRatio # NoLimit => d <= Spare)
  BY <1>1, RateDecreaseBounds DEF RecordHarvest
<1>3. /\ ratioSum' = ratioSum + d
      /\ totalSeconds' = TotalPeriod /\ lastDecompound' = now
      /\ lastDecompound < now
      /\ UNCHANGED <<maxRatio, startTime>>
  BY DEF RecordHarvest
<1> HIDE DEF d
<1>4. /\ TotalPeriod \in Nat
      /\ TotalPeriod = Seconds(now) - Seconds(startTime)
      /\ maxRatio # NoLimit => Spare \in Nat
  BY SpareNat
<1>5. TypeOK'
  BY <1>1, <1>2, <1>3, <1>4 DEF IInv, TypeOK
<1>6. ClockExact'
  BY <1>3, <1>4 DEF ClockExact, Seconds
<1>7. CapInv'
  <2> SUFFICES ASSUME maxRatio # NoLimit
               PROVE  ratioSum + d <= CapAfter(maxRatio, TotalPeriod)
    BY <1>3 DEF CapInv, CapAfter
  <2>1. /\ maxRatio \in Nat /\ CapAfter(maxRatio, TotalPeriod) \in Nat
    BY <1>4, LimitTypes, CapMono DEF IInv
  <2> QED BY <1>1, <1>2, <1>4, <2>1 DEF Spare
<1> QED BY <1>5, <1>6, <1>7 DEF IInv

LEMMA HarvestStep ==
  ASSUME IInv, NEW v \in Accounts, Harvest(v),
         UNCHANGED <<bal, supply, allowance, rate, now>>
  PROVE  IInv'
<1> DEFINE w == LsdRewards(lsd[Wrapper], supply, rate)
<1>1. RecordHarvest /\ PushLsd(v, w)
  BY DEF Harvest
<1>2. w \in Nat
  BY <1>1, HarvestRewards
<1> HIDE DEF w
<1>3. lsd' \in [Accounts -> Nat]
  BY <1>1, <1>2, PushFacts DEF IInv, TypeOK
<1>4. TokenTypeOK'
  BY <1>3 DEF IInv, TypeOK, TokenTypeOK
<1> QED BY <1>1, <1>4, RecordStep

-----------------------------------------------------------------------------
(* The LSD behind each token.                                              *)

(* ShareKept as a formula about one step.                                  *)
ShareAct ==
  supply > 0 /\ lastDecompound' = lastDecompound =>
    LET paid == IF lsd'[Wrapper] < lsd[Wrapper]
                THEN lsd[Wrapper] - lsd'[Wrapper] ELSE 0
    IN  (lsd'[Wrapper] * supply - lsd[Wrapper] * supply') * ONE
          >= 0 - paid * lsd[Wrapper]

(* The share rate, rounded down.                                           *)
LEMMA ShareRateBounds ==
  ASSUME TypeOK, supply > 0, lsd[Wrapper] > 0
  PROVE  /\ WrapperRate \in Nat
         /\ WrapperRate * lsd[Wrapper] <= supply * ONE
         /\ supply * ONE < WrapperRate * lsd[Wrapper] + lsd[Wrapper]
<1>1. lsd[Wrapper] \in Nat \ {0} /\ supply * ONE \in Nat
  BY LimitTypes, OneAssumption, MulNat
<1>2. WrapperRate = (supply * ONE) \div lsd[Wrapper]
  BY <1>1 DEF WrapperRate, FromRatio
<1> QED BY <1>1, <1>2, DivBounds

(* Who pays d LSD for n tokens at a rate no better than the share raises   *)
(* the share or keeps it; who is paid p for n tokens lowers it by less     *)
(* than the rounding of the rate.                                          *)
LEMMA MintKeepsShare ==
  ASSUME NEW b \in Nat, NEW s \in Nat, NEW x \in Nat, NEW d \in Nat,
         NEW n \in Nat, b = 0 \/ x * b <= s * ONE, d * x >= n * ONE
  PROVE  ((b + d) * s - b * (s + n)) * ONE >= 0
<1>0. (b + d) * s - b * (s + n) = d * s - b * n
  BY SMT
<1>1. /\ d * s \in Nat /\ b * n \in Nat
      /\ (d * s) * ONE \in Nat /\ (b * n) * ONE \in Nat
      /\ d * x \in Nat /\ n * ONE \in Nat /\ x * b \in Nat /\ s * ONE \in Nat
  BY OneAssumption, MulNat
<1>2. (b * n) * ONE <= (d * s) * ONE
  <2>1. CASE b = 0
    BY <1>1, <2>1, OneAssumption
  <2>2. CASE x * b <= s * ONE
    <3>1. (x * b) * d <= (s * ONE) * d
      BY <1>1, <2>2, MulMono
    <3>2. (n * ONE) * b <= (d * x) * b
      BY <1>1, MulMono
    <3>3. (x * b) * d = (d * x) * b /\ (s * ONE) * d = (d * s) * ONE
          /\ (n * ONE) * b = (b * n) * ONE
      BY OneAssumption, SMT
    <3> QED BY <1>1, <3>1, <3>2, <3>3, MulNat
  <2> QED BY <2>1, <2>2
<1>3. (d * s - b * n) * ONE = (d * s) * ONE - (b * n) * ONE
  BY OneAssumption, SMT
<1> QED BY <1>0, <1>1, <1>2, <1>3

LEMMA BurnKeepsShare ==
  ASSUME NEW b \in Nat, NEW s \in Nat, NEW x \in Nat, NEW p \in Nat,
         NEW n \in Nat, s * ONE <= x * b + b, p * x <= n * ONE
  PROVE  ((b - p) * s - b * (s - n)) * ONE >= 0 - p * b
<1>0. (b - p) * s - b * (s - n) = b * n - p * s
  BY SMT
<1>1. /\ p * s \in Nat /\ b * n \in Nat /\ p * b \in Nat
      /\ (p * s) * ONE \in Nat /\ (b * n) * ONE \in Nat
      /\ p * x \in Nat /\ n * ONE \in Nat /\ x * b \in Nat /\ s * ONE \in Nat
      /\ (p * x) * b \in Nat
  BY OneAssumption, MulNat
<1>2. (p * s) * ONE <= (b * n) * ONE + p * b
  <2>1. (s * ONE) * p <= (x * b + b) * p
    BY <1>1, MulMono
  <2>2. (p * x) * b <= (n * ONE) * b
    BY <1>1, MulMono
  <2>3. (x * b + b) * p = (p * x) * b + p * b /\ (s * ONE) * p = (p * s) * ONE
        /\ (n * ONE) * b = (b * n) * ONE
    BY OneAssumption, SMT
  <2> QED BY <1>1, <2>1, <2>2, <2>3
<1>3. (b * n - p * s) * ONE = (b * n) * ONE - (p * s) * ONE
  BY OneAssumption, SMT
<1> QED BY <1>0, <1>1, <1>2, <1>3

(* A step that leaves the supply alone and takes nothing from the vault.   *)
LEMMA ShareUntouched ==
  ASSUME TypeOK, lsd'[Wrapper] \in Nat, lsd'[Wrapper] >= lsd[Wrapper],
         supply' = supply
  PROVE  ShareAct
<1> DEFINE b == lsd[Wrapper]
           c == lsd'[Wrapper]
<1>1. /\ b \in Nat /\ c \in Nat /\ supply \in Nat /\ b <= c
  BY LimitTypes
<1> HIDE DEF b, c
<1>2. /\ b * supply <= c * supply
      /\ b * supply \in Nat /\ c * supply \in Nat
  BY <1>1, MulMono, MulNat
<1>3. (c * supply - b * supply) * ONE >= 0 - 0 * b
  BY <1>1, <1>2, OneAssumption, MulNat
<1>4. ~(c < b)
  BY <1>1
<1> QED BY <1>3, <1>4 DEF ShareAct, b, c

(* Mint and MintWith, from what they do to the vault and the supply.       *)
LEMMA IssueShare ==
  ASSUME TypeOK, NEW d \in Nat, NEW n \in Nat,
         d * WrapperRate >= n * ONE,
         lsd'[Wrapper] = lsd[Wrapper] + d, supply' = supply + n
  PROVE  ShareAct
<1> SUFFICES ASSUME supply > 0
             PROVE  (lsd'[Wrapper] * supply - lsd[Wrapper] * supply') * ONE >= 0
                    /\ ~(lsd'[Wrapper] < lsd[Wrapper])
  BY LimitTypes DEF ShareAct
<1> DEFINE b == lsd[Wrapper]
           x == WrapperRate
<1>1. /\ b \in Nat /\ supply \in Nat /\ x \in Nat
      /\ d * x >= n * ONE
      /\ b = 0 \/ x * b <= supply * ONE
  BY LimitTypes, WrapperRateNat, ShareRateBounds
<1> HIDE DEF b, x
<1>2. ((b + d) * supply - b * (supply + n)) * ONE >= 0
  BY <1>1, MintKeepsShare
<1>3. ~(b + d < b)
  BY <1>1
<1> QED BY <1>2, <1>3 DEF b

(* Burn, BurnAll and BurnFrom.                                             *)
LEMMA RedeemShare ==
  ASSUME TypeOK, NEW p \in Nat, NEW n \in Nat,
         p * WrapperRate <= n * ONE, lsd'[Wrapper] \in Nat,
         lsd'[Wrapper] = lsd[Wrapper] - p, supply' = supply - n
  PROVE  ShareAct
<1> SUFFICES ASSUME supply > 0 PROVE ShareAct
  BY DEF ShareAct
<1> DEFINE b == lsd[Wrapper]
           c == lsd'[Wrapper]
           x == WrapperRate
           k == IF c < b THEN b - c ELSE 0
<1>1. /\ b \in Nat /\ c \in Nat /\ supply \in Nat /\ x \in Nat
      /\ c = b - p /\ p * x <= n * ONE
      /\ b > 0 => supply * ONE < x * b + b
  BY LimitTypes, WrapperRateNat, ShareRateBounds
<1>2. (c * supply - b * supply') * ONE >= 0 - k * b
  <2> HIDE DEF b, c, x
  <2>1. k = p
    BY <1>1
  <2>2. CASE b = 0
    <3>1. c = 0 /\ p = 0
      BY <1>1, <2>2
    <3>2. (0 * supply - 0 * supply') * ONE = 0
      <4>1. supply' \in Int
        BY <1>1
      <4> QED BY <1>1, <4>1, OneAssumption
    <3> QED BY <2>1, <2>2, <3>1, <3>2
  <2>3. CASE b > 0
    <3>1. supply * ONE <= x * b + b
      BY <1>1, <2>3, OneAssumption, MulNat
    <3>2. ((b - p) * supply - b * (supply - n)) * ONE >= 0 - p * b
      BY <1>1, <3>1, BurnKeepsShare
    <3> QED BY <1>1, <2>1, <3>2
  <2> QED BY <1>1, <2>2, <2>3
<1> QED BY <1>2 DEF ShareAct, b, c

-----------------------------------------------------------------------------
(* Every step keeps the invariant and the share.                           *)

LEMMA MintStep ==
  ASSUME IInv, NEW u \in Users, NEW v \in Accounts, NEW n \in Amounts,
         Mint(u, v, n) \/ MintWith(u, v, n)
  PROVE  IInv' /\ ShareAct
<1>1. TypeOK /\ TokenTypeOK /\ WrapperRate \in Nat
  BY WrapperRateNat DEF IInv, TypeOK
<1>2. CASE Mint(u, v, n)
  <2>1. MintAt(WrapperRate, u, v, n) /\ UNCHANGED <<now, limitVars>>
    BY <1>2 DEF Mint
  <2>2. /\ TokenTypeOK'
        /\ n \in Nat /\ DepositFor(n, WrapperRate) \in Nat
        /\ DepositFor(n, WrapperRate) * WrapperRate >= n * ONE
        /\ lsd'[Wrapper] = lsd[Wrapper] + DepositFor(n, WrapperRate)
        /\ supply' = supply + n
    BY <1>1, <2>1, MintAtFacts
  <2> QED BY <1>1, <2>1, <2>2, LimitUntouched, IssueShare
<1>3. CASE MintWith(u, v, n)
  <2>1. MintWithAt(WrapperRate, u, v, n) /\ UNCHANGED <<now, limitVars>>
    BY <1>3 DEF MintWith
  <2>2. /\ TokenTypeOK'
        /\ n \in Nat /\ MintFor(n, WrapperRate) \in Nat
        /\ n * WrapperRate >= MintFor(n, WrapperRate) * ONE
        /\ lsd'[Wrapper] = lsd[Wrapper] + n
        /\ supply' = supply + MintFor(n, WrapperRate)
    BY <1>1, <2>1, MintWithAtFacts
  <2> QED BY <1>1, <2>1, <2>2, LimitUntouched, IssueShare
<1> QED BY <1>2, <1>3

LEMMA BurnStep ==
  ASSUME IInv, NEW u \in Users, NEW o \in Accounts, NEW n \in Nat,
         Burn(u, n) \/ BurnFrom(u, o, n)
  PROVE  IInv' /\ ShareAct
<1>1. TypeOK /\ TokenTypeOK /\ WrapperRate \in Nat
  BY WrapperRateNat DEF IInv, TypeOK
<1>2. /\ TokenTypeOK' /\ UNCHANGED <<now, limitVars>>
      /\ PayoutFor(n, WrapperRate) \in Nat
      /\ PayoutFor(n, WrapperRate) * WrapperRate <= n * ONE
      /\ lsd'[Wrapper] = lsd[Wrapper] - PayoutFor(n, WrapperRate)
      /\ supply' = supply - n
  <2>1. CASE Burn(u, n)
    BY <1>1, <2>1, BurnAtFacts DEF Burn
  <2>2. CASE BurnFrom(u, o, n)
    BY <1>1, <2>2, BurnFromAtFacts DEF BurnFrom
  <2> QED BY <2>1, <2>2
<1>3. lsd'[Wrapper] \in Nat
  BY <1>2, UsersAreAccounts DEF TokenTypeOK
<1> QED BY <1>1, <1>2, <1>3, LimitUntouched, RedeemShare

LEMMA TokenStepOK ==
  ASSUME IInv, NEW u \in Users, TokenStep(u)
  PROVE  IInv' /\ ShareAct
<1> USE AmountAssumption, UsersAreAccounts
<1>1. ASSUME NEW v \in Accounts, NEW n \in Amounts,
             Mint(u, v, n) \/ MintWith(u, v, n)
      PROVE  IInv' /\ ShareAct
  BY <1>1, MintStep
<1>2. ASSUME NEW v \in Accounts, NEW n \in Amounts, BurnFrom(u, v, n)
      PROVE  IInv' /\ ShareAct
  BY <1>2, BurnStep
<1>3. ASSUME NEW n \in Nat, Burn(u, n)
      PROVE  IInv' /\ ShareAct
  BY <1>3, BurnStep
<1>4. ASSUME BurnAll(u) PROVE IInv' /\ ShareAct
  <2>1. bal[u] \in Nat
    BY DEF IInv, TypeOK, TokenTypeOK
  <2> QED BY <1>3, <1>4, <2>1 DEF BurnAll
<1> QED
  BY <1>1, <1>2, <1>3, <1>4 DEF TokenStep

LEMMA DecompoundStep ==
  ASSUME IInv, NEW u \in Users \cup {Hub}, NEW v \in Accounts,
         Decompound(u, v)
  PROVE  IInv' /\ ShareAct
<1>1. TypeOK /\ lsd[Wrapper] \in Nat
  BY LimitTypes DEF IInv
<1>2. CASE UNCHANGED <<lsd, limitVars>>
  <2>1. TokenTypeOK' /\ UNCHANGED <<now, limitVars>>
    BY <1>1, <1>2 DEF Decompound, TypeOK, TokenTypeOK
  <2>2. lsd'[Wrapper] = lsd[Wrapper] /\ supply' = supply
    BY <1>2 DEF Decompound
  <2> QED BY <1>1, <2>1, <2>2, LimitUntouched, ShareUntouched
<1>3. CASE Harvest(v)
  <2>1. IInv'
    BY <1>3, HarvestStep DEF Decompound
  <2>2. lastDecompound' # lastDecompound
    BY <1>1, <1>3 DEF Harvest, RecordHarvest, TypeOK
  <2> QED BY <2>1, <2>2 DEF ShareAct
<1> QED BY <1>2, <1>3 DEF Decompound

LEMMA NextOK ==
  ASSUME IInv, [Next]_vars
  PROVE  IInv' /\ [ShareAct]_vars
<1>0. TypeOK /\ TokenTypeOK /\ lsd[Wrapper] \in Nat
  BY LimitTypes DEF IInv, TypeOK
<1>1. CASE UNCHANGED vars
  BY <1>1 DEF vars, tokenVars, limitVars, IInv, TypeOK, TokenTypeOK,
              ClockExact, CapInv, CapAfter, Seconds
<1>2. ASSUME NEW u \in Users, Cw20Step(u), UNCHANGED <<now, limitVars>>
      PROVE  IInv' /\ ShareAct
  <2>1. TokenTypeOK' /\ UNCHANGED <<lsd, supply>>
    BY <1>0, <1>2, Cw20StepFacts
  <2> QED BY <1>0, <1>2, <2>1, LimitUntouched, ShareUntouched
<1>3. ASSUME NEW u \in Users, TokenStep(u)
      PROVE  IInv' /\ ShareAct
  BY <1>3, TokenStepOK
<1>4. ASSUME NEW u \in Users \cup {Hub}, NEW v \in Accounts, Decompound(u, v)
      PROVE  IInv' /\ ShareAct
  BY <1>4, DecompoundStep
<1>5. ASSUME LsdRateChange, UNCHANGED <<now, limitVars>>
      PROVE  IInv' /\ ShareAct
  <2>1. TokenTypeOK' /\ UNCHANGED <<lsd, supply>>
    BY <1>0, <1>5, RateChangeFacts
  <2> QED BY <1>0, <1>5, <2>1, LimitUntouched, ShareUntouched
<1>6. ASSUME NEW u \in Users \cup {Hub}, NEW v \in Accounts, NEW n \in Amounts,
             LsdTransfer(u, v, n), UNCHANGED <<now, limitVars>>
      PROVE  IInv' /\ ShareAct
  <2>1. /\ TokenTypeOK' /\ UNCHANGED supply /\ n \in Nat
        /\ \/ lsd'[Wrapper] = lsd[Wrapper]
           \/ lsd'[Wrapper] = lsd[Wrapper] + n
    BY <1>0, <1>6, LsdTransferFacts
  <2>2. lsd'[Wrapper] \in Nat /\ lsd'[Wrapper] >= lsd[Wrapper]
    BY <1>0, <2>1
  <2> QED BY <1>0, <1>6, <2>1, <2>2, LimitUntouched, ShareUntouched
<1>7. CASE Tick
  <2>1. TypeOK'
    BY <1>0, <1>7 DEF Tick, TypeOK, TokenTypeOK, tokenVars, limitVars
  <2>2. ClockExact' /\ CapInv'
    BY <1>7 DEF Tick, limitVars, IInv, ClockExact, CapInv, CapAfter, Seconds
  <2>3. ShareAct
    BY <1>0, <1>7, ShareUntouched DEF Tick, tokenVars
  <2> QED BY <2>1, <2>2, <2>3 DEF IInv
<1>8. ASSUME NEW o \in Accounts, NEW s \in Accounts,
             AllowanceExpires(o, s), UNCHANGED <<now, limitVars>>
      PROVE  IInv' /\ ShareAct
  <2>1. TokenTypeOK' /\ UNCHANGED <<lsd, supply>>
    BY <1>0, <1>8, ExpiryStep
  <2> QED BY <1>0, <1>8, <2>1, LimitUntouched, ShareUntouched
<1> QED
  BY <1>1, <1>2, <1>3, <1>4, <1>5, <1>6, <1>7, <1>8 DEF Next, OutsideStep

-----------------------------------------------------------------------------
(* The theorems.                                                           *)

LEMMA InitOK == Init => IInv
<1> SUFFICES ASSUME Init PROVE IInv
  OBVIOUS
<1>1. /\ startTime \in Nat /\ now = startTime /\ lastDecompound = startTime
      /\ ratioSum = 0 /\ totalSeconds = 0 /\ maxRatio \in Limits
  BY LimitAssumption DEF Init
<1>2. TypeOK
  BY <1>1, TokenInitType DEF Init, TypeOK
<1>3. ClockExact
  BY <1>1, SecondsMono DEF ClockExact
<1>4. CapInv
  BY <1>1, <1>2, LimitTypes, CapMono DEF CapInv
<1> QED BY <1>2, <1>3, <1>4 DEF IInv

(* The inductive invariant: types, the clock and the limit.                *)
THEOREM Invariance == Spec => []IInv
<1>1. IInv /\ [Next]_vars => IInv'
  BY NextOK
<1> QED
  BY <1>1, InitOK, PTL DEF Spec

(* No handler, however the clock and the rates move, leaves the naturals   *)
(* or sets the last decompound in the future.                              *)
THEOREM TypeCorrect == Spec => []TypeOK
<1>1. IInv => TypeOK
  BY DEF IInv
<1> QED
  BY <1>1, Invariance, PTL

(* However often and whenever Decompound is called, the ratios it has      *)
(* recorded stay within max_decompound_ratio per year since instantiate.   *)
THEOREM CapNeverExceeded == Spec => []CapRespected
<1>1. IInv => CapRespected
  BY DEF IInv, ClockExact, CapInv, CapRespected
<1> QED
  BY <1>1, Invariance, PTL

(* The error path for having decompounded too much is dead code.           *)
THEOREM NeverOverdrawn == Spec => []SpareNeverNegative
<1>1. IInv => SpareNeverNegative
  BY SpareNat DEF SpareNeverNegative
<1> QED
  BY <1>1, Invariance, PTL

(* Only a Decompound lowers the LSD behind each token, beyond the rounding *)
(* of the share rate.                                                      *)
THEOREM SharePreserved == Spec => ShareKept
<1>1. IInv /\ [Next]_vars => [ShareAct]_vars
  BY NextOK
<1> QED
  BY <1>1, Invariance, PTL DEF Spec, ShareKept, ShareAct

(* Whatever the limit, a harvest leaves one Luna behind each token.        *)
THEOREM HarvestCovers == Spec => HarvestKeepsCover
<1> DEFINE Cover == lastDecompound' # lastDecompound =>
                      lsd'[Wrapper] * rate >= supply * ONE
<1>1. ASSUME IInv, [Next]_vars PROVE [Cover]_vars
  <2> SUFFICES ASSUME lastDecompound' # lastDecompound
               PROVE  lsd'[Wrapper] * rate >= supply * ONE
    OBVIOUS
  <2> DEFINE b == lsd[Wrapper]
             w == LsdRewards(b, supply, rate)
  <2>1. PICK v \in Accounts : Harvest(v)
    BY <1>1 DEF Next, TokenStep, Mint, MintWith, Burn, BurnAll, BurnFrom,
                Decompound, Tick, vars, limitVars
  <2>2. /\ b \in Nat /\ supply \in Nat /\ rate \in Nat \ {0}
    BY <1>1, <2>1, LimitTypes DEF Harvest, RecordHarvest, IInv
  <2>3. b * rate >= supply * ONE
    BY <2>1, <2>2, SlashedExactly, OneAssumption, MulNat DEF Slashed, Harvest, RecordHarvest
  <2>4. /\ w \in Nat /\ w <= b /\ (b - w) * rate >= supply * ONE
    BY <1>1, <2>2, <2>3, RewardsKeepCover
  <2>5. PushLsd(v, w)
    BY <2>1 DEF Harvest, RecordHarvest
  <2> HIDE DEF w
  <2>6. lsd'[Wrapper] = b - w \/ lsd'[Wrapper] = b
    BY <1>1, <2>4, <2>5, PushFacts DEF IInv, TypeOK
  <2> QED BY <2>3, <2>4, <2>6
<1>2. IInv /\ [Next]_vars => [Cover]_vars
  BY <1>1
<1> QED
  BY <1>2, Invariance, PTL DEF Spec, HarvestKeepsCover

(* What the handler is to send is what it records as taken, up to one Luna *)
(* and one atomic of ratio and rate.                                       *)
LEMMA HarvestRecorded ==
  ASSUME IInv, RecordHarvest,
         NEW w, w = LsdRewards(lsd[Wrapper], supply, rate)
  PROVE  /\ w \in Nat /\ ratioSum' \in Nat /\ ratioSum <= ratioSum'
         /\ w * rate * ONE
              < (ratioSum' - ratioSum + 1) * lsd[Wrapper] * rate
                  + ONE * ONE + rate
<1> DEFINE b == lsd[Wrapper]
           n == LunaRewards(b, supply, rate)
           d == RateDecrease(b, supply, rate)
<1>1. /\ rate > 0 /\ Backing(b, rate) > 0 /\ n >= 0
      /\ ratioSum' = ratioSum + d
  BY DEF RecordHarvest
<1>2. /\ b \in Nat /\ supply \in Nat /\ rate \in Nat \ {0} /\ ratioSum \in Nat
  BY <1>1, LimitTypes DEF IInv, TypeOK
<1>3. b * rate >= supply * ONE
  BY <1>2, SlashedExactly, OneAssumption, MulNat DEF Slashed, RecordHarvest
<1>4. w \in Nat /\ n \in Nat /\ d \in Nat
  BY <1>1, <1>2, <1>3, RewardsKeepCover, RateDecreaseBounds
<1>5. (w * rate) * ONE < (n * ONE) * ONE + ONE * ONE + rate
  BY <1>2, <1>3, <1>4, RewardsAgree
<1>6. (n * ONE) * ONE < d * (b * rate) + b * rate
  <2>1. Backing(b, rate) = b * rate
    BY <1>2, ProdFromInt DEF Backing
  <2>2. b * rate \in Nat \ {0}
    BY <1>1, <1>2, <2>1, MulNat
  <2>3. d = ((n * ONE) * ONE) \div (b * rate)
    BY <2>1 DEF RateDecrease, Quo, FromInt
  <2> HIDE DEF b, n, d
  <2>4. (n * ONE) * ONE \in Nat
    BY <1>4, OneAssumption, MulNat
  <2> QED BY <2>2, <2>3, <2>4, DivBounds
<1> HIDE DEF n, d
<1>7. ratioSum' - ratioSum + 1 = d + 1
  BY <1>1, <1>2, <1>4
<1> HIDE DEF b
<1>8. (d + 1) * b * rate = d * (b * rate) + b * rate
  BY <1>2, <1>4, SMT
<1>9. /\ (w * rate) * ONE \in Nat /\ (n * ONE) * ONE \in Nat
      /\ d * (b * rate) \in Nat /\ b * rate \in Nat /\ ONE * ONE \in Nat
  BY <1>2, <1>4, OneAssumption, MulNat
<1>10. w * rate * ONE < (d + 1) * b * rate + ONE * ONE + rate
  BY <1>2, <1>5, <1>6, <1>8, <1>9
<1> QED BY <1>1, <1>2, <1>4, <1>7, <1>10 DEF b

(* The limit on the record is a limit on the LSD that leave.               *)
THEOREM RecordsExtraction == Spec => ExtractionRecorded
<1> DEFINE Recorded ==
      \A recipient \in Accounts \ {Wrapper} :
        Decompound(Hub, recipient) /\ ~Slashed =>
          (lsd[Wrapper] - lsd'[Wrapper]) * rate * ONE
            < (ratioSum' - ratioSum + 1) * lsd[Wrapper] * rate
                + ONE * ONE + rate
<1>1. ASSUME IInv PROVE Recorded
  <2> SUFFICES ASSUME NEW v \in Accounts \ {Wrapper},
                      Decompound(Hub, v), ~Slashed
               PROVE  (lsd[Wrapper] - lsd'[Wrapper]) * rate * ONE
                        < (ratioSum' - ratioSum + 1) * lsd[Wrapper] * rate
                            + ONE * ONE + rate
    OBVIOUS
  <2> DEFINE w == LsdRewards(lsd[Wrapper], supply, rate)
  <2>1. RecordHarvest /\ PushLsd(v, w)
    BY DEF Decompound, Harvest
  <2> HIDE DEF w
  <2>2. /\ w \in Nat
        /\ w * rate * ONE < (ratioSum' - ratioSum + 1) * lsd[Wrapper] * rate
                              + ONE * ONE + rate
    BY <1>1, <2>1, HarvestRecorded DEF w
  <2>3. lsd[Wrapper] \in Nat /\ lsd'[Wrapper] = lsd[Wrapper] - w
    BY <1>1, <2>1, <2>2, LimitTypes, PushFacts DEF IInv, TypeOK
  <2>4. lsd[Wrapper] - lsd'[Wrapper] = w
    BY <2>2, <2>3
  <2> QED BY <2>2, <2>4
<1>2. IInv /\ [Next]_vars => [Recorded]_vars
  BY <1>1
<1> QED
  BY <1>2, Invariance, PTL DEF Spec, ExtractionRecorded

(* Nor does the limit make the Luna reward underflow at an ordinary rate:  *)
(* what it leaves of the LSD is worth what it leaves of the Luna.          *)
THEOREM NoUnderflow == Spec => []RewardsNeverUnderflow
<1>1. IInv => RewardsNeverUnderflow
  <2> SUFFICES ASSUME IInv, rate > 0, ~Slashed, OrdinaryRate(rate)
               PROVE  LunaRewards(lsd[Wrapper], supply, rate) >= 0
    BY DEF RewardsNeverUnderflow
  <2> DEFINE b == lsd[Wrapper]
  <2>1. b \in Nat /\ supply \in Nat /\ rate \in Nat \ {0}
    BY LimitTypes DEF IInv
  <2>2. b * rate >= supply * ONE
    BY <2>1, SlashedExactly, OneAssumption, MulNat DEF Slashed
  <2> HIDE DEF b
  <2> QED BY <2>1, <2>2, LimitedLunaCoversLsd DEF b
<1> QED
  BY <1>1, Invariance, PTL
=============================================================================
