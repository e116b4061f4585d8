--------------------------- MODULE LsdWrapperLimit ---------------------------
(***************************************************************************)
(* The wrapper token of packages/cavern_lsd_wrapper_token_with_limit, used *)
(* for LSDs that are themselves liquidity positions.  It differs from      *)
(* LsdWrapper in two ways.  Tokens are minted and burnt for a share of the *)
(* vault, at the rate of supply to LSD held, not at the LSD's Luna rate.   *)
(* And Decompound extracts at most max_decompound_ratio of the vault's     *)
(* Luna value per year: the contract keeps the sum of the ratios it has    *)
(* extracted and the seconds it has run for, and what a call may take is   *)
(* what the elapsed time allows less what has been taken.                  *)
(*                                                                         *)
(* SpareForgettingPast, LimitedLsdUnbounded, LimitedLsdIgnoringExcess,     *)
(* LimitedLunaUnbounded and LunaRewardsBeforeLimit are faulty forms of     *)
(* their neighbours, used by no specification, to confirm that the         *)
(* properties notice the faults.                                           *)
(***************************************************************************)
EXTENDS Cw20Wrapper

CONSTANTS
  NoLimit,          \* max_decompound_ratio = None
  Limits,           \* values max_decompound_ratio may be instantiated with
  YEAR,             \* SECONDS_PER_YEAR
  TicksPerSecond,   \* block time has a finer grain than the seconds counted
  MaxTime           \* bound on the block time, in ticks

ASSUME LimitAssumption ==
  /\ NoLimit \notin Nat
  /\ Limits \subseteq Nat \cup {NoLimit}
  /\ YEAR \in Nat \ {0} /\ TicksPerSecond \in Nat \ {0} /\ MaxTime \in Nat

VARIABLES
  now,              \* block time, in ticks
  maxRatio,         \* DECOMPOUND_CONFIG.max_decompound_ratio
  ratioSum,         \* DECOMPOUND_STATE.ratio_sum, a Decimal
  totalSeconds,     \* DECOMPOUND_STATE.total_seconds
  lastDecompound,   \* DECOMPOUND_STATE.last_decompound, in ticks
  startTime         \* block time of instantiate, kept for the properties

limitVars == <<maxRatio, ratioSum, totalSeconds, lastDecompound, startTime>>
vars == <<tokenVars, now, limitVars>>

TypeOK ==
  /\ TokenTypeOK
  /\ maxRatio \in Limits
  /\ now \in Nat /\ ratioSum \in Nat /\ totalSeconds \in Nat
  /\ lastDecompound \in Nat /\ startTime \in Nat
  /\ startTime <= lastDecompound /\ lastDecompound <= now

-----------------------------------------------------------------------------
(* get_lsd_wrapper_exchange_rate: wrapper tokens per LSD                   *)
WrapperRate ==
  IF lsd[Wrapper] = 0 \/ supply = 0 THEN ONE ELSE FromRatio(supply, lsd[Wrapper])

Smaller(a, b) == IF a <= b THEN a ELSE b
Larger(a, b) == IF a <= b THEN b ELSE a
Seconds(t) == t \div TicksPerSecond

(* Seconds between instantiate and now, by the contract's own count; the   *)
(* ratio it may have extracted after that many; and what is left of it.    *)
TotalPeriod == totalSeconds + Seconds(now) - Seconds(lastDecompound)
CapAfter(ratio, seconds) == Prod(ratio, FromRatio(seconds, YEAR))
SpareForgettingPast == CapAfter(maxRatio, TotalPeriod)
Spare == CapAfter(maxRatio, TotalPeriod) - ratioSum

(* What compute_accrued_rewards finds for a vault of b LSD at rate r, and  *)
(* a supply of s: the whole excess when there is no limit, or as much of   *)
(* it as the spare ratio of the vault.                                     *)
LimitedLsdUnbounded(b, s, r) == ExcessLsd(b, s, r)
LimitedLsdIgnoringExcess(b, s, r) ==
  IF maxRatio = NoLimit THEN ExcessLsd(b, s, r) ELSE Scale(Spare, b)
LimitedLsd(b, s, r) ==
  IF maxRatio = NoLimit THEN ExcessLsd(b, s, r)
  ELSE Smaller(ExcessLsd(b, s, r), Scale(Spare, b))
LimitedLunaUnbounded(b, s, r) == ExcessLuna(b, s, r)
LimitedLuna(b, s, r) ==
  IF maxRatio = NoLimit THEN ExcessLuna(b, s, r)
  ELSE Smaller(ExcessLuna(b, s, r), Trunc(Prod(Spare, Backing(b, r))))

(* One LSD less, if there is any, and its Luna value.                      *)
LsdRewards(b, s, r) ==
  IF LimitedLsd(b, s, r) > 0 THEN LimitedLsd(b, s, r) - 1 ELSE 0
LunaRewardsBeforeLimit(b, s, r) ==
  LimitedLuna(b, s, r) - (IF ExcessLsd(b, s, r) > 0 THEN Trunc(r) ELSE 0)
LunaRewards(b, s, r) ==
  LimitedLuna(b, s, r) - (IF LimitedLsd(b, s, r) > 0 THEN Trunc(r) ELSE 0)

(* The part of the vault's Luna value that these rewards are.              *)
RateDecrease(b, s, r) == Quo(FromInt(LunaRewards(b, s, r)), Backing(b, r))

(* get_expected_exchange_rate, the rate the TokenInfo query answers with:  *)
(* Luna per token less what a Decompound may take now.                     *)
ExpectedRate ==
  LET current == ExchangeRate(lsd[Wrapper], supply, rate) IN
  IF current < ONE \/ maxRatio = NoLimit THEN current
  ELSE Larger(current + ratioSum - CapAfter(maxRatio, TotalPeriod), ONE)

-----------------------------------------------------------------------------
Init ==
  /\ TokenInit
  /\ startTime \in 0 .. TicksPerSecond
  /\ now = startTime
  /\ maxRatio \in Limits
  /\ ratioSum = 0
  /\ totalSeconds = 0
  /\ lastDecompound = startTime

(* The messages of LsdWrapper, minting and burning at the share rate.      *)
Mint(u, recipient, amount) ==
  MintAt(WrapperRate, u, recipient, amount) /\ UNCHANGED <<now, limitVars>>

MintWith(u, recipient, lsdAmount) ==
  MintWithAt(WrapperRate, u, recipient, lsdAmount) /\ UNCHANGED <<now, limitVars>>

Burn(u, amount) ==
  BurnAt(WrapperRate, u, amount) /\ UNCHANGED <<now, limitVars>>

BurnAll(u) == bal[u] > 0 /\ Burn(u, bal[u])

BurnFrom(u, owner, amount) ==
  BurnFromAt(WrapperRate, u, owner, amount) /\ UNCHANGED <<now, limitVars>>

(* Decompound { recipient }.  A slashed vault is left alone, and so are    *)
(* the ratio and the clock.  Otherwise one of the error paths is that the  *)
(* ratio taken so far exceeds what the elapsed time allows; another, that  *)
(* the block is not later than the last decompound; a third, the division  *)
(* by the value of an empty vault.                                         *)
RecordHarvest ==
  LET b == lsd[Wrapper] IN
  /\ ~Slashed
  /\ rate > 0 /\ Backing(b, rate) > 0
  /\ maxRatio # NoLimit => Spare >= 0
  /\ LunaRewards(b, supply, rate) >= 0
  /\ lastDecompound < now
  /\ ratioSum' = ratioSum + RateDecrease(b, supply, rate)
  /\ totalSeconds' = TotalPeriod
  /\ lastDecompound' = now
  /\ UNCHANGED <<maxRatio, startTime>>
Harvest(recipient) ==
  /\ RecordHarvest
  /\ PushLsd(recipient, LsdRewards(lsd[Wrapper], supply, rate))

Decompound(u, recipient) ==
  /\ u = Hub
  /\ \/ Slashed /\ UNCHANGED <<lsd, limitVars>>
     \/ Harvest(recipient)
  /\ UNCHANGED <<bal, supply, allowance, rate, now>>

(* Blocks are produced; the contract sees the block time.                  *)
Tick ==
  /\ now < MaxTime
  /\ now' = now + 1
  /\ UNCHANGED <<tokenVars, limitVars>>

TokenStep(u) ==
  \/ \E v \in Accounts, n \in Amounts :
        Mint(u, v, n) \/ MintWith(u, v, n) \/ BurnFrom(u, v, n)
  \/ \E n \in Amounts : Burn(u, n)
  \/ BurnAll(u)

Next ==
  \/ \E u \in Users : Cw20Step(u) /\ UNCHANGED <<now, limitVars>>
  \/ \E u \in Users : TokenStep(u)
  \/ \E u \in Users \cup {Hub}, recipient \in Accounts : Decompound(u, recipient)
  \/ OutsideStep /\ UNCHANGED <<now, limitVars>>
  \/ Tick

Spec == Init /\ [][Next]_vars

-----------------------------------------------------------------------------
(* Properties.                                                             *)

(* The ratios recorded since instantiate never exceed what the limit       *)
(* allows for the time up to the last decompound, however often it was     *)
(* called, whatever happened in between, and counted in true seconds.      *)
CapRespected ==
  maxRatio # NoLimit =>
    ratioSum <= CapAfter(maxRatio, Seconds(lastDecompound) - Seconds(startTime))

(* The error path for having decompounded too much is never taken.         *)
SpareNeverNegative == maxRatio # NoLimit => Spare >= 0

(* What a Decompound sends, as a part of the vault, is what it records up  *)
(* to rounding: the value sent exceeds the recorded part of the vault's    *)
(* value by less than one Luna and one atomic of ratio.                    *)
ExtractionRecorded ==
  [][\A recipient \in Accounts \ {Wrapper} :
        Decompound(Hub, recipient) /\ ~Slashed =>
          (lsd[Wrapper] - lsd'[Wrapper]) * rate * ONE
            < (ratioSum' - ratioSum + 1) * lsd[Wrapper] * rate
                + ONE * ONE + rate]_vars

(* A harvest leaves at least one Luna behind each token.                   *)
HarvestKeepsCover ==
  [][lastDecompound' # lastDecompound =>
        lsd'[Wrapper] * rate >= supply * ONE]_vars

(* While there are holders, only a Decompound lowers the LSD behind each   *)
(* of their tokens: mints round in the vault's favour, and what a burn is  *)
(* paid beyond its share, because the share rate is rounded down first, is *)
(* less than one atomic of the vault per LSD paid.                         *)
ShareKept ==
  [][supply > 0 /\ lastDecompound' = lastDecompound =>
        LET paid == IF lsd'[Wrapper] < lsd[Wrapper]
                    THEN lsd[Wrapper] - lsd'[Wrapper] ELSE 0
        IN  (lsd'[Wrapper] * supply - lsd[Wrapper] * supply') * ONE
              >= 0 - paid * lsd[Wrapper]]_vars

(* The Luna reward of a vault that is not slashed does not underflow,      *)
(* which would make the hub's UpdateGlobalIndex fail: what the limit       *)
(* leaves of it is worth the LSD it leaves, except at a rate a few atomics *)
(* above a whole number of two or more.                                    *)
RewardsNeverUnderflow ==
  rate > 0 /\ ~Slashed /\ OrdinaryRate(rate) =>
    LunaRewards(lsd[Wrapper], supply, rate) >= 0

(* What the repository says and the code does not do; see the findings.    *)

(* The tests of the contracts built on this token mint at the Luna rate of *)
(* the LSD: one LSD worth four Luna mints four tokens.                     *)
MintWithFollowsLunaRate ==
  [][\A u \in Users, v \in Accounts, n \in Amounts :
        MintWith(u, v, n) => supply' - supply = MintFor(n, rate)]_vars

(* Rewards are taken out of the token if they exist: a vault that holds    *)
(* nothing has none, and does not make UpdateGlobalIndex fail.             *)
EmptyVaultNeverBlocksUpdate ==
  lsd[Wrapper] = 0 /\ now > lastDecompound => ENABLED Decompound(Hub, Hub)

(* The rate the TokenInfo query answers with is the value of the token     *)
(* once the decompound that is due has been applied, up to two LSD.        *)
ExpectedRateReached ==
  [][\A recipient \in Accounts \ {Wrapper} :
        Decompound(Hub, recipient) /\ ~Slashed /\ supply > 0 =>
          ExchangeRate(lsd'[Wrapper] + 2, supply, rate) >= ExpectedRate]_vars
=============================================================================
