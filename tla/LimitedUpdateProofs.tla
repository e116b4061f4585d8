------------------------ MODULE LimitedUpdateProofs -------------------------
(***************************************************************************)
(* That the hub's record of the last update and the wrapper's of its last  *)
(* harvest agree; that an update, seen from outside, distributes at once   *)
(* or not at all; that one that commits leaves nothing behind which could  *)
(* still be unbonded or sold, and the supply covered at the rate which its *)
(* own unbonding has moved: for every staking protocol, limit and clock,   *)
(* whichever message of an update fails.                                   *)
(***************************************************************************)
EXTENDS LimitedUpdate, RewardContractProofs, FiniteSetTheorems

LW == INSTANCE LsdWrapperLimitProofs
        WITH Users <- Users \cup {Reward, Market}, Rates <- Nat, rate <- Rate,
             Receivers <- {}, Spenders <- {}, InitialGrants <- {0}, Expiries <- {}

-----------------------------------------------------------------------------
(* The clocks.                                                             *)

(* ClocksAgree says nothing of what a transaction has done so far, nor     *)
(* that what it would be undone to is the state it began in.               *)
Recorded(decompound, index) ==
  decompound = startTime \/ W!Seconds(decompound) <= index

SavedClocks ==
  /\ saved.limit[4] \in Nat /\ saved.limit[4] <= now
  /\ saved.limit[5] = startTime
  /\ saved.index \in Nat
  /\ Recorded(saved.limit[4], saved.index)

ClockInv ==
  /\ now \in Nat /\ startTime \in Nat /\ lastIndexModification \in Nat
  /\ lastDecompound \in Nat /\ lastDecompound <= now
  /\ Recorded(lastDecompound, lastIndexModification)
  /\ ~Idle => SavedClocks /\ lastIndexModification = W!Seconds(now)

clockVars ==
  <<now, startTime, lastIndexModification, lastDecompound, stack, saved>>

(* Whole seconds are natural numbers that do not decrease with time.       *)
LEMMA SecondsMonotonic ==
  ASSUME NEW s \in Nat, NEW t \in Nat, s <= t
  PROVE  W!Seconds(s) \in Nat /\ W!Seconds(s) <= W!Seconds(t)
  BY LimitedAmountAssumption, SMTT(30) DEF W!Seconds

(* The hub and the token begin with the hub's clock not after the token's. *)
LEMMA ClocksInit == Init => ClockInv
<1> SUFFICES ASSUME Init PROVE ClockInv
  OBVIOUS
<1>1. /\ startTime \in 0 .. TicksPerSecond
      /\ now = startTime /\ lastDecompound = startTime
  BY DEF Init, W!Init
<1>2. startTime \in Nat
  BY <1>1, LimitedAmountAssumption
<1>3. lastIndexModification \in Nat
  BY <1>2, SecondsMonotonic DEF Init, HubInit
<1>4. Idle
  BY DEF Init, Idle
<1> QED
  BY <1>1, <1>2, <1>3, <1>4 DEF ClockInv, Recorded

(* Steps that leave the clocks and the transaction alone.                  *)
LEMMA ClocksUnchanged ==
  ASSUME ClockInv, UNCHANGED clockVars
  PROVE  ClockInv'
  BY DEF ClockInv, clockVars, Recorded, SavedClocks, Idle, W!Seconds

(* An update begins: the state it would be undone to satisfies the         *)
(* invariant, and the hub has recorded this very block.                    *)
LEMMA ClocksBegin ==
  ASSUME ClockInv, BeginUpdate
  PROVE  ClockInv'
<1>1. /\ saved' = Snapshot
      /\ lastIndexModification' = W!Seconds(now)
      /\ UNCHANGED <<now, limitVars>>
  BY DEF BeginUpdate, UpdateGlobalIndex, Begin, RecordIndex
<1>2. /\ saved'.limit[4] = lastDecompound
      /\ saved'.limit[5] = startTime
      /\ saved'.index = lastIndexModification
  BY <1>1 DEF Snapshot, limitVars
<1>3. UNCHANGED <<startTime, lastDecompound>>
  BY <1>1 DEF limitVars
<1>4. W!Seconds(now) \in Nat /\ W!Seconds(lastDecompound) <= W!Seconds(now)
  BY SecondsMonotonic DEF ClockInv
<1>5. (W!Seconds(now))' = W!Seconds(now)
  BY <1>1 DEF W!Seconds
<1>6. (W!Seconds(lastDecompound))' = W!Seconds(lastDecompound)
  BY <1>3 DEF W!Seconds
<1>7. SavedClocks'
  BY <1>1, <1>2, <1>3 DEF ClockInv, SavedClocks, Recorded, W!Seconds
<1>8. Recorded(lastDecompound, lastIndexModification)'
  BY <1>1, <1>4, <1>6 DEF Recorded
<1> QED
  BY <1>1, <1>3, <1>4, <1>5, <1>7, <1>8 DEF ClockInv

(* A message of the transaction is executed: only Decompound touches the   *)
(* wrapper's clock, and sets it to this block.                             *)
LEMMA ClocksRun ==
  ASSUME ClockInv, ~Idle, Run(Head(stack)),
         UNCHANGED <<lastIndexModification, now>>
  PROVE  ClockInv'
<1>1. /\ lastDecompound' \in {lastDecompound, now}
      /\ startTime' = startTime
  <2>1. CASE RunDecompound(Head(stack))
    BY <2>1 DEF RunDecompound, W!RecordHarvest, limitVars
  <2>2. CASE RunTransferLsd(Head(stack))
    BY <2>2 DEF RunTransferLsd, limitVars
  <2>3. CASE RunReward(Head(stack))
    BY <2>3 DEF RunReward, limitVars
  <2> QED
    BY <2>1, <2>2, <2>3 DEF Run
<1>2. \E msgs : Continue(msgs)
  <2>1. CASE RunDecompound(Head(stack))
    BY <2>1 DEF RunDecompound
  <2>2. CASE RunTransferLsd(Head(stack))
    BY <2>2 DEF RunTransferLsd
  <2>3. CASE RunReward(Head(stack))
    BY <2>3 DEF RunReward, RunRetrieve, RunReply, RunUnbond,
                RunWithdrawLiquidity, RunSell, SellOffers
  <2> QED
    BY <2>1, <2>2, <2>3 DEF Run
<1>3. ~Idle' => saved' = saved
  BY <1>2 DEF Continue, Idle
<1>4. ~Idle' => SavedClocks'
  BY <1>1, <1>3 DEF ClockInv, SavedClocks, Recorded, W!Seconds
<1>5. /\ lastIndexModification = W!Seconds(now)
      /\ W!Seconds(lastDecompound) <= W!Seconds(now)
      /\ W!Seconds(now) <= W!Seconds(now)
  BY SecondsMonotonic DEF ClockInv
<1>6. (W!Seconds(lastDecompound))' <= W!Seconds(now)
  BY <1>1, <1>5 DEF W!Seconds
<1>7. Recorded(lastDecompound, lastIndexModification)'
  BY <1>5, <1>6 DEF Recorded
<1>8. (W!Seconds(now))' = W!Seconds(now)
  BY DEF W!Seconds
<1> QED
  BY <1>1, <1>4, <1>5, <1>7, <1>8 DEF ClockInv

(* The transaction is undone: both clocks go back together.                *)
LEMMA ClocksAbort ==
  ASSUME ClockInv, ~Idle, Abort, UNCHANGED now
  PROVE  ClockInv'
<1>1. /\ lastDecompound' = saved.limit[4]
      /\ startTime' = saved.limit[5]
      /\ lastIndexModification' = saved.index
      /\ Idle'
  BY DEF Abort, Undo, Idle
<1>2. SavedClocks
  BY DEF ClockInv
<1> QED
  BY <1>1, <1>2 DEF ClockInv, SavedClocks, Recorded, W!Seconds

(* Between transactions the block time advances, and nothing else changes  *)
(* the clocks.                                                             *)
LEMMA ClocksOutside ==
  ASSUME ClockInv, Idle,
         WrapperStep \/ ProtocolStep \/ ConfigStep \/ RewardStep
  PROVE  ClockInv'
<1>1. CASE WrapperStep
  <2>1. UNCHANGED <<lastIndexModification, stack, saved>>
    BY <1>1 DEF WrapperStep, txVars
  <2>2. CASE W!Tick
    <3>1. now' = now + 1 /\ UNCHANGED <<startTime, lastDecompound>>
      BY <2>2 DEF W!Tick, W!limitVars
    <3> QED
      BY <2>1, <3>1 DEF ClockInv, Recorded, Idle, W!Seconds
  <2>3. CASE \E u \in Users, n \in Amounts :
               W!Mint(u, u, n) \/ W!MintWith(u, u, n) \/ W!Burn(u, n)
    <3>1. UNCHANGED <<now, startTime, lastDecompound>>
      BY <2>3 DEF W!Mint, W!MintWith, W!Burn, W!limitVars
    <3> QED
      BY <2>1, <3>1, ClocksUnchanged DEF clockVars
  <2>4. CASE UNCHANGED <<now, limitVars>>
    BY <2>1, <2>4, ClocksUnchanged DEF clockVars, limitVars
  <2> QED
    BY <1>1, <2>2, <2>3, <2>4 DEF WrapperStep
<1>2. CASE ProtocolStep
  BY <1>2, ClocksUnchanged DEF ProtocolStep, clockVars, limitVars, txVars
<1>3. CASE ConfigStep
  BY <1>3, ClocksUnchanged DEF ConfigStep, HubUpdateConfig, clockVars, limitVars
<1>4. CASE RewardStep
  <2>1. UNCHANGED <<stack, saved>>
    BY <1>4 DEF RewardStep, RewardUpdateConfig, ClaimRewards, Donate
  <2> QED
    BY <1>4, <2>1, ClocksUnchanged DEF RewardStep, clockVars, limitVars, hubVars
<1> QED
  BY <1>1, <1>2, <1>3, <1>4

(* The invariant is inductive.                                             *)
LEMMA ClocksStep == ClockInv /\ [Next]_vars => ClockInv'
<1> SUFFICES ASSUME ClockInv, [Next]_vars PROVE ClockInv'
  OBVIOUS
<1>1. CASE Idle /\ BeginUpdate
  BY <1>1, ClocksBegin
<1>2. CASE Idle /\ (WrapperStep \/ ProtocolStep \/ ConfigStep \/ RewardStep)
  BY <1>2, ClocksOutside
<1>3. CASE TxStep
  BY <1>3, ClocksRun, ClocksAbort DEF TxStep
<1>4. CASE UNCHANGED vars
  BY <1>4, ClocksUnchanged DEF vars, clockVars, limitVars, txVars
<1> QED
  BY <1>1, <1>2, <1>3, <1>4 DEF Next

(* The hub's record of the last update is never behind the wrapper's of    *)
(* its last harvest, as the rest of the chain sees them.                   *)
THEOREM ClocksAlwaysAgree == Spec => []ClocksAgree
<1>1. ClockInv => ClocksAgree
  BY DEF ClockInv, ClocksAgree, CommittedDecompound, CommittedIndex,
         Recorded, SavedClocks
<1> QED
  BY <1>1, ClocksInit, ClocksStep, PTL DEF Spec

-----------------------------------------------------------------------------
(* What is known of the wrapper token and of sums, in the terms of         *)
(* LimitedUpdate.                                                          *)

LEMMA FiniteAccounts == IsFiniteSet(Accounts) /\ Accounts = LW!Accounts
<1>1. IsFiniteSet({Reward}) /\ IsFiniteSet({Market})
      /\ IsFiniteSet({Wrapper}) /\ IsFiniteSet({Hub})
  BY FS_Singleton
<1>2. IsFiniteSet(Users \cup {Reward})
  BY <1>1, LimitedUpdateAssumption, FS_Union
<1>3. IsFiniteSet((Users \cup {Reward}) \cup {Market})
  BY <1>1, <1>2, FS_Union
<1>4. IsFiniteSet(((Users \cup {Reward}) \cup {Market}) \cup {Wrapper})
  BY <1>1, <1>3, FS_Union
<1>5. IsFiniteSet((((Users \cup {Reward}) \cup {Market}) \cup {Wrapper}) \cup {Hub})
  BY <1>1, <1>4, FS_Union
<1>6. Accounts = (((Users \cup {Reward}) \cup {Market}) \cup {Wrapper}) \cup {Hub}
  BY DEF Accounts
<1>7. Accounts = LW!Accounts
  BY DEF Accounts, LW!Accounts
<1> QED
  BY <1>5, <1>6, <1>7

(* The contracts are different accounts, and none of the users.            *)
LEMMA Parties ==
  /\ Wrapper \notin Users \cup {Hub, Reward, Market}
  /\ Hub \notin Users \cup {Reward, Market}
  /\ Reward \notin Users \cup {Market}
  /\ {Wrapper, Hub, Reward, Market} \cup Users \subseteq Accounts
BY LimitedUpdateAssumption, RewardAssumption DEF Accounts

LEMMA WrapperAssumptions ==
  /\ LW!OneAssumption /\ LW!ActorAssumption /\ LW!ExpiryAssumption
  /\ LW!AmountAssumption /\ LW!LimitAssumption
<1> USE LimitedUpdateAssumption, LimitedAmountAssumption
<1>1. IsFiniteSet(Users \cup {Reward, Market})
  <2>1. Users \cup {Reward, Market} \subseteq Accounts
    BY DEF Accounts
  <2> QED
    BY <2>1, FiniteAccounts, FS_Subset
<1>2. LW!ActorAssumption
  <2>1. /\ Wrapper \notin Users \cup {Reward, Market}
        /\ Hub \notin Users \cup {Reward, Market}
        /\ Wrapper # Hub
        /\ {} \subseteq LW!Accounts \ {Wrapper} /\ {} \subseteq LW!Accounts
    BY Parties
  <2>2. LW!IsFiniteSet(Users \cup {Reward, Market})
    BY <1>1 DEF LW!IsFiniteSet, IsFiniteSet
  <2> QED
    BY <2>1, <2>2 DEF LW!ActorAssumption
<1>3. LW!OneAssumption /\ LW!ExpiryAssumption /\ LW!LimitAssumption
  BY DEF LW!OneAssumption, LW!ExpiryAssumption, LW!LimitAssumption
<1>4. LW!AmountAssumption
  BY FiniteAccounts DEF LW!AmountAssumption
<1> QED
  BY <1>2, <1>3, <1>4

LEMMA TypesAgree == W!TypeOK <=> LW!TypeOK
BY DEF W!TypeOK, LW!TypeOK, W!TokenTypeOK, LW!TokenTypeOK, W!Accounts, LW!Accounts,
       W!Allowances, LW!Allowances

LEMMA ArithmeticFacts ==
  /\ Arithmetic!OneAssumption
  /\ Arithmetic!IsFiniteSet(Accounts)
BY FiniteAccounts
DEF Arithmetic!OneAssumption, Arithmetic!IsFiniteSet, IsFiniteSet

LEMMA SharesBound ==
  ASSUME NEW f \in [Accounts -> Nat]
  PROVE  /\ SumFunction(f) \in Nat
         /\ \A a \in Accounts : f[a] <= SumFunction(f)
BY FiniteAccounts, SumBound

(* LSD that changes hands leaves the shares as they are; LSD that is taken *)
(* apart is a share less each.                                             *)
LEMMA SharesChange ==
  ASSUME NEW f \in [Accounts -> Nat], NEW h \in [Accounts -> Nat],
         NEW a \in Accounts, \A x \in Accounts : x # a => h[x] = f[x]
  PROVE  SumFunction(h) = SumFunction(f) + (h[a] - f[a])
BY FiniteAccounts, SumFollows

LEMMA SharesMoved ==
  ASSUME NEW f \in [Accounts -> Nat], NEW h \in [Accounts -> Nat],
         NEW a \in Accounts, NEW b \in Accounts, a # b,
         NEW n \in Nat, h[a] = f[a] - n, h[b] = f[b] + n,
         \A x \in Accounts \ {a, b} : h[x] = f[x]
  PROVE  SumFunction(h) = SumFunction(f)
BY FiniteAccounts, SumKept

(* So the rate the adapters answer is a natural number.                    *)
LEMMA RateNat ==
  lsd \in [Accounts -> Nat] /\ totalLp \in Nat => Shares \in Nat /\ Rate \in Nat
<1> SUFFICES ASSUME lsd \in [Accounts -> Nat], totalLp \in Nat
             PROVE  Shares \in Nat /\ Rate \in Nat
  OBVIOUS
<1>1. Shares \in Nat
  BY SharesBound DEF Shares
<1>2. totalLp * ONE \in Nat /\ ONE \in Nat
  BY LimitedAmountAssumption, SMT
<1> HIDE DEF Shares
<1>3. CASE Shares # 0
  <2>1. (totalLp * ONE) \div Shares \in Nat
    BY <1>1, <1>2, <1>3, ArithmeticFacts, Arithmetic!DivBounds
  <2> QED
    BY <1>1, <1>3, <2>1 DEF Rate
<1> QED
  BY <1>1, <1>2, <1>3 DEF Rate

-----------------------------------------------------------------------------
(* The arithmetic of an unbonding.  u liquidity tokens are paid for m      *)
(* shares, of the L that the reward contract holds of S shares in all, for *)
(* T liquidity tokens bonded.                                              *)

(* The payment rounds down, or the shares asked for it up: what remains is *)
(* worth no less per share.                                                *)
LEMMA UnbondingKeepsRate ==
  ASSUME NEW S \in Nat, NEW T \in Nat, NEW u \in Nat, NEW m \in Nat,
         0 < m, m <= S, u * S <= m * T
  PROVE  /\ u <= T
         /\ m < S => (T * ONE) \div S <= ((T - u) * ONE) \div (S - m)
<1>0. ONE \in Nat /\ ONE > 0 /\ S > 0
  BY LimitedAmountAssumption
<1>1. u <= T
  <2>1. m * T <= S * T
    BY Arithmetic!MulMono, ArithmeticFacts
  <2>2. u * S <= T * S
    <3>1. S * T = T * S
      OBVIOUS
    <3>2. u * S \in Nat /\ m * T \in Nat /\ S * T \in Nat
      BY SMT
    <3> QED
      BY <2>1, <3>1, <3>2
  <2> QED
    BY <1>0, <2>2, Arithmetic!MulCancelLeq, ArithmeticFacts
<1>2. ASSUME m < S
      PROVE  (T * ONE) \div S <= ((T - u) * ONE) \div (S - m)
  <2> DEFINE r == (T * ONE) \div S
             q == ((T - u) * ONE) \div (S - m)
             k == S - m
             v == T - u
  <2>1. /\ k \in Nat \ {0} /\ v \in Nat
        /\ T * ONE \in Nat /\ v * ONE \in Nat
    BY <1>0, <1>1, <1>2, SMT
  <2>2. /\ r \in Nat /\ r * S <= T * ONE
    BY <1>0, <2>1, Arithmetic!DivBounds, ArithmeticFacts
  <2>3. /\ q \in Nat /\ v * ONE < q * k + k
    BY <2>1, Arithmetic!DivBounds, ArithmeticFacts
  <2>4. T * k <= v * S
    <3>1. T * k = T * S - m * T /\ v * S = T * S - u * S
      BY SMT
    <3>2. T * S \in Nat /\ m * T \in Nat /\ u * S \in Nat
      BY SMT
    <3> QED
      BY <3>1, <3>2
  <2> HIDE DEF r, q, k, v
  <2>5. r * k <= v * ONE
    <3>1. (r * S) * k <= (T * ONE) * k
      <4>1. r * S \in Nat
        BY <2>2, SMT
      <4> QED
        BY <2>1, <2>2, <4>1, Arithmetic!MulMono, ArithmeticFacts
    <3>2. (T * k) * ONE <= (v * S) * ONE
      <4>1. T * k \in Nat /\ v * S \in Nat
        BY <2>1, SMT
      <4> QED
        BY <1>0, <2>4, <4>1, Arithmetic!MulMono, ArithmeticFacts
    <3>3. /\ (r * S) * k = (r * k) * S
          /\ (T * ONE) * k = (T * k) * ONE
          /\ (v * S) * ONE = (v * ONE) * S
      BY <1>0, <2>1, <2>2, SMT
    <3>4. /\ r * k \in Nat /\ v * ONE \in Nat
          /\ (r * k) * S \in Nat /\ (T * k) * ONE \in Nat /\ (v * ONE) * S \in Nat
      BY <1>0, <2>1, <2>2, SMT
    <3>5. (r * k) * S <= (v * ONE) * S
      BY <3>1, <3>2, <3>3, <3>4
    <3> QED
      BY <1>0, <3>4, <3>5, Arithmetic!MulCancelLeq, ArithmeticFacts
  <2>6. r * k < (q + 1) * k
    <3>1. (q + 1) * k = q * k + k
      BY <2>1, <2>3, SMT
    <3>2. r * k \in Nat /\ q * k \in Nat /\ v * ONE \in Nat
      BY <1>0, <2>1, <2>2, <2>3, SMT
    <3> QED
      BY <2>1, <2>3, <2>5, <3>1, <3>2
  <2>7. r < q + 1
    BY <2>1, <2>2, <2>3, <2>6, Arithmetic!MulCancel, ArithmeticFacts
  <2>8. r <= q
    BY <2>2, <2>3, <2>7
  <2> QED
    BY <2>8 DEF r, q, k, v
<1> QED
  BY <1>1, <1>2

(* When as many liquidity tokens are asked for as the L shares are worth,  *)
(* rounded down, the shares that remain are worth none.                    *)
LEMMA UnbondingLeavesDust ==
  ASSUME NEW S \in Nat, NEW T \in Nat, NEW L \in Nat, NEW b \in Nat,
         NEW m \in Nat, m <= L, L <= S, m < S, b <= T,
         b * S <= L * T, L * T < b * S + S,
         b * S <= m * T,
         NEW k, k = L - m, NEW d, d = T - b, NEW n, n = S - m
  PROVE  (k * d) \div n = 0
<1> DEFINE e == m * T - b * S
<1>0. /\ k \in Nat /\ d \in Nat /\ n \in Nat \ {0}
      /\ L * T \in Nat /\ b * S \in Nat /\ m * T \in Nat /\ e \in Nat
      /\ k * T \in Nat /\ k * d \in Nat
  BY SMT
<1>1. k * T + e < S
  <2>1. k * T = L * T - m * T
    BY SMT
  <2> QED
    BY <1>0, <2>1
<1>2. n * T = S * d - e
  <2>1. n * T = S * T - m * T /\ S * d = S * T - b * S
    BY SMT
  <2>2. S * T \in Nat
    BY SMT
  <2> QED
    BY <1>0, <2>1, <2>2
<1>3. k * d < n
  <2>1. CASE d = 0
    <3>1. k * d = 0
      BY <1>0, <2>1
    <3> QED
      BY <1>0, <3>1
  <2>2. CASE d # 0
    <3> HIDE DEF e
    <3>1. (k * T + e) * d < S * d
      <4>1. k * T + e + 1 <= S
        BY <1>0, <1>1
      <4>2. (k * T + e + 1) * d <= S * d
        BY <1>0, <4>1, Arithmetic!MulMono, ArithmeticFacts
      <4>3. (k * T + e + 1) * d = (k * T + e) * d + d
        BY <1>0, SMT
      <4>4. (k * T + e) * d \in Nat /\ S * d \in Nat /\ d > 0
        BY <1>0, <2>2, SMT
      <4> QED
        BY <1>0, <4>2, <4>3, <4>4
    <3>2. (k * T + e) * d = (k * d) * T + e * d
      BY <1>0, SMT
    <3>3. e <= e * d
      BY <1>0, <2>2, SMT
    <3>4. (k * d) * T < n * T
      <4>1. (k * d) * T \in Nat /\ e * d \in Nat /\ S * d \in Nat /\ n * T \in Int
        BY <1>0, SMT
      <4> QED
        BY <1>0, <1>2, <3>1, <3>2, <3>3, <4>1
    <3>5. T # 0
      <4>1. d <= T
        BY <1>0
      <4> QED
        BY <1>0, <2>2, <4>1
    <3> QED
      BY <1>0, <3>4, <3>5, Arithmetic!MulCancel, ArithmeticFacts
  <2> QED
    BY <2>1, <2>2
<1>4. PICK z : z = k * d
  OBVIOUS
<1>5. z \in Nat /\ z < n
  BY <1>0, <1>3, <1>4
<1>6. z \div n = 0
  <2>1. z \div n \in Nat /\ (z \div n) * n <= z
    BY <1>0, <1>5, Arithmetic!DivBounds, ArithmeticFacts
  <2>2. (z \div n) * n < 1 * n
    <3>1. (z \div n) * n \in Nat
      BY <1>0, <2>1, SMT
    <3> QED
      BY <1>0, <1>5, <2>1, <3>1
  <2>3. z \div n < 1
    BY <1>0, <2>1, <2>2, Arithmetic!MulCancel, ArithmeticFacts
  <2> QED
    BY <2>1, <2>3
<1> QED
  BY <1>4, <1>6

(* LpFor and SharesFor, in these terms.                                    *)
LEMMA LpForBounds ==
  ASSUME NEW S \in Nat, NEW T \in Nat, NEW L \in Nat, L <= S, S > 0
  PROVE  /\ (L * T) \div S \in Nat
         /\ ((L * T) \div S) * S <= L * T
         /\ L * T < ((L * T) \div S) * S + S
<1>1. L * T \in Nat /\ S \in Nat \ {0}
  BY SMT
<1> QED
  BY <1>1, Arithmetic!DivBounds, ArithmeticFacts

LEMMA SharesForBounds ==
  ASSUME NEW S \in Nat, NEW T \in Nat \ {0}, NEW b \in Nat
  PROVE  /\ (b * S + T - 1) \div T \in Nat
         /\ b * S <= ((b * S + T - 1) \div T) * T
<1>1. b * S \in Nat /\ b * S + T - 1 \in Nat
  BY SMT
<1>2. PICK a : a = b * S + T - 1
  OBVIOUS
<1>3. a \div T \in Nat /\ a < (a \div T) * T + T
  BY <1>1, <1>2, Arithmetic!DivBounds, ArithmeticFacts
<1>4. (a \div T) * T \in Nat
  BY <1>3, SMT
<1> QED
  BY <1>1, <1>2, <1>3, <1>4

-----------------------------------------------------------------------------
(* The invariant.  A transaction passes through seven stages, in which     *)
(* what is queued, and how the state differs from the saved one, are       *)
(* known; what the limit would be undone to satisfies the limit.           *)

SavedLimit(s) ==
  /\ s.limit[5] <= s.limit[4] /\ s.limit[4] <= now
  /\ s.limit[3] = W!Seconds(s.limit[4]) - W!Seconds(s.limit[5])
  /\ s.limit[1] # NoLimit => s.limit[2] <= W!CapAfter(s.limit[1], s.limit[3])

Typed ==
  /\ TypeOK /\ Distinct /\ LW!IInv
  /\ hubConfig.reward \in {Reward, None}
  /\ ~Idle => saved \in Snapshots /\ SavedLimit(saved)

(* Untouched, or the vault covers the supply at the rate as it now is: s   *)
(* is the state saved.                                                     *)
Untouched(s) == lsd = s.lsd /\ held = s.held /\ totalLp = s.totalLp
StillCovered(v) == v * Rate >= supply * ONE
VaultHarvested(s) ==
  \/ lsd[Wrapper] = s.lsd[Wrapper]
  \/ lsd[Wrapper] <= s.lsd[Wrapper] /\ StillCovered(lsd[Wrapper])

(* The LSD there was to unbond once the harvest had arrived, what n of     *)
(* them were worth, and what has been unbonded with how many.              *)
Harvested(s) == s.lsd[Reward] + (s.lsd[Wrapper] - lsd[Wrapper])
WorthAt(s, n) ==
  IF SumFunction(s.lsd) = 0 THEN 0 ELSE (n * s.totalLp) \div SumFunction(s.lsd)
Freed(s) == s.totalLp - totalLp
Spent(s) == SumFunction(s.lsd) - Shares

(* What there was to sell of x, and of the pot, once w liquidity tokens    *)
(* had been withdrawn.                                                     *)
Before(s, x, w) ==
  CASE x = Lsd -> Harvested(s) - Spent(s)
    [] x = Lp -> s.held[Lp] + Freed(s) - w
    [] x \in PairAssets -> s.held[x] + w
    [] OTHER -> s.held[x]
PotBefore(s, w) == s.held[Stable] + (IF Stable \in PairAssets THEN w ELSE 0)
Withdrawable(s) == {Freed(s), Freed(s) + s.held[Lp]}

(* The harvest has arrived, and no LSD has gone anywhere else.             *)
Arrived(s) ==
  /\ held = s.held /\ VaultHarvested(s) /\ totalLp = s.totalLp
  /\ lsd[Reward] = Harvested(s) /\ lsd[Market] = s.lsd[Market]
  /\ Shares = SumFunction(s.lsd)

(* It has been unbonded for all that it was worth; the LSD that are left   *)
(* are not worth a liquidity token, and could not be unbonded for any.     *)
TakenApart(s) ==
  /\ Freed(s) = WorthAt(s, Harvested(s))
  /\ Spent(s) \in 0 .. Harvested(s)
  /\ \/ Spent(s) = Harvested(s)
     \/ (Harvested(s) - Spent(s)) * totalLp < Shares
OnlyDust == LpFor(lsd[Reward]) = 0
Retrieved(s) == VaultHarvested(s) /\ TakenApart(s) /\ OnlyDust

(* Everything is there to be sold.                                         *)
Ready(s, w) ==
  /\ w \in Withdrawable(s) /\ held[Stable] = PotBefore(s, w)
  /\ \A x \in Goods \ {Stable} : Held(x) = Before(s, x, w)
  /\ lsd[Market] = s.lsd[Market]

(* Each asset is sold or not, the LSD to the market, and something was     *)
(* earned if anything was sold.                                            *)
SoldOrKept(s, w) ==
  /\ w \in Withdrawable(s) /\ held[Stable] >= PotBefore(s, w)
  /\ \A x \in Goods \ {Stable} : Held(x) \in {0, Before(s, x, w)}
  /\ lsd[Market] = s.lsd[Market] + (Before(s, Lsd, w) - lsd[Reward])
  /\ held[Stable] > PotBefore(s, w)
       <=> \E x \in Goods \ {Stable} : Held(x) < Before(s, x, w)

(* The first sale, the one that is paid as it was answered, comes first.   *)
FirstSaleFirst(s, w) ==
  stack # << >> => stack[1].first \/ held[Stable] > PotBefore(s, w)
Selling(s) == \E w \in Nat : SoldOrKept(s, w) /\ FirstSaleFirst(s, w)

AtUpdate ==
  stack = UpdateMessages /\ hubConfig.reward = Reward /\ Untouched(saved)

AtTransfer ==
  \E n \in 0 .. lsd[Wrapper] :
    /\ stack = <<TransferLsd(Reward, n), SwapToRewardDenom(Hub, Reward)>>
    /\ StillCovered(lsd[Wrapper] - n)
    /\ Untouched(saved)

AtSwap == stack = <<SwapToRewardDenom(Hub, Reward)>> /\ Arrived(saved)

(* Everything is unbonded, or as little of the LSD as what it is worth     *)
(* costs; and withdrawn with the liquidity tokens there were, or by itself.*)
AtUnbond ==
  \E m, w \in Nat :
    /\ stack = <<Unbond(m, LpFor(lsd[Reward])), WithdrawLiquidity(w), Reply>>
    /\ IF Retrieval = "amp_lp"
       THEN m = lsd[Reward] /\ w = LpFor(lsd[Reward]) + held[Lp]
       ELSE m = SharesFor(LpFor(lsd[Reward])) /\ w = LpFor(lsd[Reward])
    /\ lsd[Reward] > 0 /\ (Retrieval = "amp_lp" => w > 0)
    /\ Arrived(saved)

AtWithdraw ==
  \E w \in Withdrawable(saved) :
    /\ stack = <<WithdrawLiquidity(w), Reply>> /\ w \in Nat \ {0}
    /\ held[Lp] = saved.held[Lp] + Freed(saved)
    /\ \A x \in Assets \ {Lp} : held[x] = saved.held[x]
    /\ lsd[Reward] = Harvested(saved) - Spent(saved)
    /\ lsd[Market] = saved.lsd[Market]
    /\ Retrieved(saved)

AtReply ==
  /\ stack = <<Reply>>
  /\ Retrieved(saved) /\ \E w \in Nat : Ready(saved, w)

AtSales ==
  /\ Sales(stack) /\ AllOnSale(stack)
  /\ Retrieved(saved) /\ Selling(saved)

Stage ==
  AtUpdate \/ AtTransfer \/ AtSwap \/ AtUnbond \/ AtWithdraw \/ AtReply \/ AtSales

Inv == Typed /\ (~Idle => Stage)

-----------------------------------------------------------------------------
(* Types, and the steps of a transaction as far as types go.               *)

LEMMA AccountTypes ==
  ASSUME Typed
  PROVE  /\ lsd \in [Accounts -> Nat] /\ totalLp \in Nat
         /\ lsd[Wrapper] \in Nat /\ lsd[Reward] \in Nat /\ supply \in Nat
         /\ Shares \in Nat /\ Rate \in Nat /\ lsd[Reward] <= Shares
         /\ RewardTypeOK /\ HubTypeOK /\ Distinct /\ LW!IInv /\ LW!TypeOK
         /\ held \in [Assets -> Nat]
<1>1. /\ W!TypeOK /\ HubTypeOK /\ RewardTypeOK /\ Distinct /\ LW!IInv
      /\ totalLp \in Nat
  BY DEF Typed, TypeOK
<1>2. lsd \in [Accounts -> Nat] /\ supply \in Nat /\ LW!TypeOK
  BY <1>1, FiniteAccounts DEF LW!IInv, LW!TypeOK, LW!TokenTypeOK
<1>3. lsd[Wrapper] \in Nat /\ lsd[Reward] \in Nat /\ Reward \in Accounts
  BY <1>2, Parties
<1>4. Shares \in Nat /\ Rate \in Nat
  BY <1>1, <1>2, RateNat
<1>5. lsd[Reward] <= Shares
  BY <1>2, <1>3, SharesBound DEF Shares
<1> QED
  BY <1>1, <1>2, <1>3, <1>4, <1>5 DEF RewardTypeOK

LEMMA SavedTypes ==
  ASSUME Typed, ~Idle
  PROVE  /\ saved.lsd \in [Accounts -> Nat] /\ saved.held \in [Assets -> Nat]
         /\ saved.totalLp \in Nat /\ saved.index \in Nat
         /\ saved.limit \in Limits \X Nat \X Nat \X Nat \X Nat
         /\ saved.lsd[Wrapper] \in Nat /\ saved.lsd[Reward] \in Nat
         /\ SavedLimit(saved) /\ saved # None
<1>1. saved \in Snapshots /\ SavedLimit(saved)
  BY DEF Typed
<1>2. /\ saved.lsd \in [Accounts -> Nat] /\ saved.held \in [Assets -> Nat]
      /\ saved.totalLp \in Nat /\ saved.index \in Nat
      /\ saved.limit \in Limits \X Nat \X Nat \X Nat \X Nat
  BY <1>1 DEF Snapshots
<1>3. saved # None
  BY <1>1, LimitedUpdateAssumption
<1> QED
  BY <1>1, <1>2, <1>3, Parties

LEMMA AssetKinds ==
  /\ Stable \in Assets /\ Lp \in Assets /\ Lsd \notin Assets /\ Lp # Stable
  /\ PairAssets \subseteq Assets \ {Lp}
  /\ Goods \ {Stable} = (Assets \ {Stable}) \cup {Lsd}
BY RewardAssumption, CustomRewardAssumption DEF Assets, Goods

LEMMA TokenTypes ==
  ASSUME LW!TokenTypeOK, lsd' \in [Accounts -> Nat], totalLp' \in Nat,
         UNCHANGED <<bal, supply, allowance>>
  PROVE  LW!TokenTypeOK'
<1>1. Rate' \in Nat
  <2>1. (lsd \in [Accounts -> Nat] /\ totalLp \in Nat
           => Shares \in Nat /\ Rate \in Nat)'
    BY RateNat, PTL
  <2> QED
    BY <2>1
<1> QED
  BY <1>1, FiniteAccounts DEF LW!TokenTypeOK

(* The limit is kept by what leaves it and the clock alone.                *)
LEMMA KeepLimit ==
  ASSUME LW!IInv, lsd' \in [Accounts -> Nat], totalLp' \in Nat,
         UNCHANGED <<bal, supply, allowance, now, limitVars>>
  PROVE  LW!IInv'
<1>1. LW!TokenTypeOK'
  BY TokenTypes DEF LW!IInv, LW!TypeOK
<1>2. UNCHANGED <<now, LW!limitVars>>
  BY DEF limitVars, LW!limitVars
<1> QED
  BY <1>1, <1>2, WrapperAssumptions, LW!LimitUntouched

(* A transaction goes on, or it has ended.                                 *)
GoesOnOrEnds ==
  \/ stack' # << >> /\ saved' = saved
  \/ stack' = << >> /\ saved' = None

LEMMA TxTypes ==
  ASSUME Typed, ~Idle, LW!IInv', UNCHANGED <<now, hubConfig, rewardConfigs>>,
         held' \in [Assets -> Nat], totalLp' \in Nat,
         lastIndexModification' \in Nat, unsold' \subseteq Goods, GoesOnOrEnds
  PROVE  Typed'
<1>1. W!TypeOK'
  <2>1. (W!TypeOK <=> LW!TypeOK)'
    BY TypesAgree, PTL
  <2> QED
    BY <2>1 DEF LW!IInv
<1>2. HubTypeOK' /\ RewardTypeOK' /\ Distinct'
  BY DEF Typed, TypeOK, HubTypeOK, RewardTypeOK, Distinct, rewardConfigs, Goods
<1>3. (saved = None <=> Idle)'
  BY DEF Typed, TypeOK, GoesOnOrEnds, Idle
<1>4. (~Idle)' => saved' \in Snapshots /\ SavedLimit(saved)'
  BY DEF Typed, GoesOnOrEnds, Idle, SavedLimit, W!Seconds, W!CapAfter
<1>5. hubConfig'.reward \in {Reward, None}
  BY DEF Typed
<1> QED
  BY <1>1, <1>2, <1>3, <1>4, <1>5 DEF Typed, TypeOK

-----------------------------------------------------------------------------
(* The wrapper's handler, whichever module it is defined in.               *)
LEMMA RewardsAgree ==
  /\ W!Slashed <=> LW!Slashed
  /\ \A b, s, r : W!LsdRewards(b, s, r) = LW!LsdRewards(b, s, r)
  /\ W!RecordHarvest <=> LW!RecordHarvest
<1>1. W!Slashed <=> LW!Slashed
  BY DEF W!Slashed, LW!Slashed, W!ExchangeRate, LW!ExchangeRate,
         W!Backing, LW!Backing, W!QuoInt, LW!QuoInt, W!Prod, LW!Prod,
         W!FromInt, LW!FromInt
<1>2. W!TotalPeriod = LW!TotalPeriod
  BY DEF W!TotalPeriod, LW!TotalPeriod, W!Seconds, LW!Seconds
<1>3. W!Spare = LW!Spare
  BY <1>2 DEF W!Spare, LW!Spare, W!CapAfter, LW!CapAfter, W!Prod, LW!Prod,
              W!FromRatio, LW!FromRatio
<1>4. \A b, r : W!Backing(b, r) = LW!Backing(b, r)
  BY DEF W!Backing, LW!Backing, W!Prod, LW!Prod, W!FromInt, LW!FromInt
<1>5. \A b, s, r : /\ W!ExcessLsd(b, s, r) = LW!ExcessLsd(b, s, r)
                   /\ W!ExcessLuna(b, s, r) = LW!ExcessLuna(b, s, r)
  BY <1>4 DEF W!ExcessLsd, LW!ExcessLsd, W!ExcessLuna, LW!ExcessLuna,
              W!Trunc, LW!Trunc, W!FromInt, LW!FromInt, W!Quo, LW!Quo
<1>6. \A b, s, r : W!LimitedLsd(b, s, r) = LW!LimitedLsd(b, s, r)
  BY <1>3, <1>5 DEF W!LimitedLsd, LW!LimitedLsd, W!Smaller, LW!Smaller,
                    W!Scale, LW!Scale
<1>7. \A b, s, r : W!LimitedLuna(b, s, r) = LW!LimitedLuna(b, s, r)
  BY <1>3, <1>4, <1>5 DEF W!LimitedLuna, LW!LimitedLuna, W!Smaller, LW!Smaller,
                          W!Trunc, LW!Trunc, W!Prod, LW!Prod
<1>8. \A b, s, r : W!LsdRewards(b, s, r) = LW!LsdRewards(b, s, r)
  BY <1>6 DEF W!LsdRewards, LW!LsdRewards
<1>9. \A b, s, r : W!LunaRewards(b, s, r) = LW!LunaRewards(b, s, r)
  BY <1>5, <1>6, <1>7 DEF W!LunaRewards, LW!LunaRewards, W!Trunc, LW!Trunc
<1>10. \A b, s, r : W!RateDecrease(b, s, r) = LW!RateDecrease(b, s, r)
  BY <1>4, <1>9 DEF W!RateDecrease, LW!RateDecrease, W!Quo, LW!Quo,
                    W!FromInt, LW!FromInt
<1>11. W!RecordHarvest <=> LW!RecordHarvest
  BY <1>1, <1>2, <1>3, <1>4, <1>9, <1>10 DEF W!RecordHarvest, LW!RecordHarvest
<1> QED
  BY <1>1, <1>8, <1>11

LEMMA SmallFacts ==
  ASSUME Typed
  PROVE  /\ unsold \subseteq Goods /\ lastIndexModification \in Nat
         /\ hubConfig.reward \in {Reward, None}
BY DEF Typed, TypeOK, RewardTypeOK, HubTypeOK, Goods

(* The handler queues the transfer of the rewards, which leave the supply  *)
(* covered, and records them; or nothing, when the vault is slashed or     *)
(* there are none.                                                         *)
LEMMA DecompoundFacts ==
  ASSUME Typed, AtUpdate, RunDecompound(Head(stack)),
         UNCHANGED <<tokenVars, now, hubConfig, rewardConfigs,
                     lastIndexModification>>
  PROVE  Typed' /\ GoesOnOrEnds /\ ~Idle' /\ (AtTransfer \/ AtSwap)'
<1> DEFINE n == W!LsdRewards(lsd[Wrapper], supply, Rate)
           sale == SwapToRewardDenom(Hub, Reward)
<1>1. /\ stack = <<Decompound(hubConfig.token, Reward), sale>>
      /\ hubConfig.reward = Reward /\ lsd = saved.lsd /\ held = saved.held
      /\ totalLp = saved.totalLp
  BY DEF AtUpdate, UpdateMessages, Untouched
<1>2. /\ Head(stack) = Decompound(hubConfig.token, Reward) /\ ~Idle
      /\ Continue(<< >>) => stack' = <<sale>> /\ saved' = saved
      /\ Continue(<<TransferLsd(Reward, n)>>) =>
           /\ stack' = <<TransferLsd(Reward, n), sale>>
           /\ saved' = saved
  <2> HIDE DEF n, sale
  <2> QED
    BY <1>1, ContinuePair
<1>3. Head(stack).recipient = Reward
  BY <1>2 DEF Decompound
<1>4. UNCHANGED <<lsd, held, totalLp, unsold, bal, supply, allowance>> /\ Rate' = Rate
  BY DEF RunDecompound, tokenVars, Rate, Shares
<1>5. /\ lsd \in [Accounts -> Nat] /\ held \in [Assets -> Nat] /\ totalLp \in Nat
      /\ LW!IInv /\ LW!TypeOK /\ lsd[Wrapper] \in Nat /\ lsd[Reward] \in Nat
      /\ unsold \subseteq Goods /\ lastIndexModification \in Nat
  BY AccountTypes, SmallFacts
<1>6. LW!TokenTypeOK'
  BY <1>4, <1>5, TokenTypes DEF LW!TypeOK
<1>7. ASSUME LW!IInv', stack' # << >>, saved' = saved
      PROVE  Typed' /\ GoesOnOrEnds /\ ~Idle'
  <2>1. GoesOnOrEnds /\ ~Idle'
    BY <1>7 DEF GoesOnOrEnds, Idle
  <2> QED
    BY <1>2, <1>4, <1>5, <1>7, <2>1, TxTypes
<1>8. ASSUME Continue(<< >>)
      PROVE  stack' # << >> /\ saved' = saved /\ AtSwap'
  <2>1. stack' = <<sale>> /\ saved' = saved /\ stack' # << >>
    BY <1>2, <1>8
  <2>2. held' = saved'.held /\ lsd' = saved'.lsd /\ totalLp' = saved'.totalLp
    BY <1>1, <1>4, <2>1
  <2>3. lsd'[Reward] = lsd'[Reward] + (lsd'[Wrapper] - lsd'[Wrapper])
    BY <1>4, <1>5
  <2>4. VaultHarvested(saved)'
    BY <2>2 DEF VaultHarvested
  <2>5. (lsd[Reward] = Harvested(saved))'
    BY <2>2, <2>3 DEF Harvested
  <2>6. lsd'[Market] = saved'.lsd[Market] /\ Shares' = SumFunction(saved'.lsd)
    BY <2>2 DEF Shares
  <2> QED
    BY <2>1, <2>2, <2>4, <2>5, <2>6 DEF AtSwap, Arrived
<1>9. CASE W!Slashed /\ Continue(<< >>) /\ UNCHANGED limitVars
  <2>1. LW!IInv'
    BY <1>4, <1>5, <1>9, KeepLimit
  <2> QED
    BY <1>7, <1>8, <1>9, <2>1
<1>10. CASE W!RecordHarvest /\ Continue(IF n > 0 THEN <<TransferLsd(Reward, n)>>
                                                 ELSE << >>)
  <2>1. LW!RecordHarvest
    BY <1>10, RewardsAgree
  <2>2. LW!IInv'
    BY <1>4, <1>5, <1>6, <2>1, WrapperAssumptions, LW!RecordStep
  <2>3. /\ n \in Nat /\ n <= lsd[Wrapper]
        /\ (lsd[Wrapper] - n) * Rate >= supply * ONE
    <3>1. n = LW!LsdRewards(lsd[Wrapper], supply, Rate)
      BY RewardsAgree
    <3> QED
      BY <1>5, <2>1, <3>1, WrapperAssumptions, LW!HarvestRewards
  <2>4. CASE n = 0
    <3>1. Continue(<< >>)
      BY <1>10, <2>4
    <3> QED
      BY <1>7, <1>8, <2>2, <3>1
  <2>5. CASE n # 0
    <3>1. Continue(<<TransferLsd(Reward, n)>>)
      BY <1>10, <2>3, <2>5
    <3>2. /\ stack' = <<TransferLsd(Reward, n), sale>>
          /\ saved' = saved /\ stack' # << >>
      BY <1>2, <3>1
    <3> HIDE DEF n
    <3>3. PICK k : k = n
      OBVIOUS
    <3>4. /\ k \in 0 .. lsd'[Wrapper] /\ stack' = <<TransferLsd(Reward, k), sale>>
          /\ (lsd'[Wrapper] - k) * Rate' >= supply' * ONE
      BY <1>4, <1>5, <2>3, <3>2, <3>3
    <3>5. StillCovered(lsd[Wrapper] - k)'
      BY <3>4 DEF StillCovered
    <3>6. Untouched(saved)'
      BY <1>1, <1>4, <3>2 DEF Untouched
    <3>7. AtTransfer'
      BY <3>4, <3>5, <3>6 DEF AtTransfer
    <3> QED
      BY <1>7, <2>2, <3>2, <3>7
  <2> QED
    BY <2>4, <2>5
<1> QED
  BY <1>3, <1>9, <1>10 DEF RunDecompound

(* LSD that moves between two accounts leaves the rate and the limit.      *)
LEMMA MoveKeepsRate ==
  ASSUME Typed, NEW a \in Accounts, NEW b \in Accounts, a # b,
         NEW n \in Nat, n <= lsd[a],
         lsd' = [[lsd EXCEPT ![a] = @ - n] EXCEPT ![b] = @ + n],
         totalLp' = totalLp
  PROVE  /\ lsd' \in [Accounts -> Nat] /\ Shares' = Shares /\ Rate' = Rate
         /\ lsd'[a] = lsd[a] - n /\ lsd'[b] = lsd[b] + n
         /\ \A x \in Accounts \ {a, b} : lsd'[x] = lsd[x]
<1>1. lsd \in [Accounts -> Nat]
  BY AccountTypes
<1>2. /\ lsd' \in [Accounts -> Nat]
      /\ lsd'[a] = lsd[a] - n /\ lsd'[b] = lsd[b] + n
      /\ \A x \in Accounts \ {a, b} : lsd'[x] = lsd[x]
  BY <1>1
<1>3. PICK f \in [Accounts -> Nat], h \in [Accounts -> Nat] : f = lsd /\ h = lsd'
  BY <1>1, <1>2
<1>4. SumFunction(lsd') = SumFunction(lsd)
  BY <1>2, <1>3, SharesMoved
<1>5. Shares' = Shares
  BY <1>4 DEF Shares
<1>6. Rate' = Rate
  BY <1>5 DEF Rate
<1> QED
  BY <1>2, <1>5, <1>6

(* The transfer takes the rewards out of the vault.                        *)
LEMMA TransferFacts ==
  ASSUME Typed, AtTransfer, RunTransferLsd(Head(stack)),
         UNCHANGED <<tokenVars, now, hubConfig, rewardConfigs,
                     lastIndexModification>>
  PROVE  Typed' /\ GoesOnOrEnds /\ ~Idle' /\ AtSwap'
<1>1. PICK n \in 0 .. lsd[Wrapper] :
        /\ stack = <<TransferLsd(Reward, n), SwapToRewardDenom(Hub, Reward)>>
        /\ StillCovered(lsd[Wrapper] - n)
        /\ lsd = saved.lsd /\ held = saved.held /\ totalLp = saved.totalLp
  BY DEF AtTransfer, Untouched
<1>2. /\ Head(stack) = TransferLsd(Reward, n) /\ ~Idle
      /\ Continue(<< >>) => /\ stack' = <<SwapToRewardDenom(Hub, Reward)>>
                            /\ saved' = saved
  BY <1>1, ContinuePair
<1>3. /\ W!PushLsd(Reward, n) /\ Continue(<< >>)
      /\ UNCHANGED <<held, totalLp, unsold, limitVars>>
  BY <1>2 DEF RunTransferLsd, TransferLsd
<1>4. /\ lsd \in [Accounts -> Nat] /\ held \in [Assets -> Nat] /\ totalLp \in Nat
      /\ LW!IInv /\ lsd[Wrapper] \in Nat /\ lsd[Reward] \in Nat
      /\ unsold \subseteq Goods /\ lastIndexModification \in Nat
  BY AccountTypes, SmallFacts
<1>5. /\ n \in Nat /\ n <= lsd[Wrapper]
      /\ {Wrapper, Reward, Market} \subseteq Accounts /\ Wrapper # Reward
      /\ Market \notin {Wrapper, Reward}
  BY <1>4, Parties
<1>6. /\ lsd' \in [Accounts -> Nat] /\ Rate' = Rate /\ Shares' = Shares
      /\ lsd'[Wrapper] = lsd[Wrapper] - n /\ lsd'[Reward] = lsd[Reward] + n
      /\ lsd'[Market] = lsd[Market]
  <2>1. lsd' = [[lsd EXCEPT ![Wrapper] = @ - n] EXCEPT ![Reward] = @ + n]
    BY <1>3 DEF W!PushLsd, W!Move
  <2> QED
    BY <1>3, <1>5, <2>1, MoveKeepsRate
<1>7. /\ stack' = <<SwapToRewardDenom(Hub, Reward)>> /\ saved' = saved
      /\ stack' # << >>
  BY <1>2, <1>3
<1>8. GoesOnOrEnds /\ ~Idle'
  BY <1>7 DEF GoesOnOrEnds, Idle
<1>9. LW!IInv'
  BY <1>3, <1>4, <1>6, KeepLimit DEF tokenVars
<1>10. Typed'
  BY <1>2, <1>3, <1>4, <1>8, <1>9, TxTypes
<1>11. VaultHarvested(saved)'
  <2>1. lsd'[Wrapper] <= lsd[Wrapper] /\ StillCovered(lsd[Wrapper])'
    BY <1>1, <1>4, <1>5, <1>6 DEF StillCovered, tokenVars
  <2> QED
    BY <1>1, <1>7, <2>1 DEF VaultHarvested
<1>12. (lsd[Reward] = Harvested(saved))'
  <2>1. lsd[Reward] + n = lsd[Reward] + (lsd[Wrapper] - (lsd[Wrapper] - n))
    BY <1>4, <1>5
  <2> QED
    BY <1>1, <1>6, <1>7, <2>1 DEF Harvested
<1>13. /\ held' = saved'.held /\ totalLp' = saved'.totalLp
       /\ lsd'[Market] = saved'.lsd[Market]
       /\ Shares' = SumFunction(saved'.lsd)
  BY <1>1, <1>3, <1>6, <1>7 DEF Shares
<1> QED
  BY <1>7, <1>8, <1>10, <1>11, <1>12, <1>13 DEF AtSwap, Arrived

(* What taking LSD apart is worth, and costs.                              *)
LEMMA RetrievalBounds ==
  ASSUME Typed
  PROVE  /\ \A n \in Nat : n <= Shares =>
              /\ LpFor(n) \in Nat /\ LpFor(n) <= totalLp
              /\ LpFor(n) * Shares <= n * totalLp
              /\ Shares > 0 => n * totalLp < LpFor(n) * Shares + Shares
         /\ LpFor(0) = 0
         /\ \A b \in Nat :
              /\ SharesFor(b) \in Nat
              /\ totalLp > 0 => b * Shares <= SharesFor(b) * totalLp
<1>1. Shares \in Nat /\ totalLp \in Nat
  BY AccountTypes
<1> HIDE DEF Shares
<1>2. ASSUME NEW n \in Nat, n <= Shares
      PROVE  /\ LpFor(n) \in Nat /\ LpFor(n) <= totalLp
             /\ LpFor(n) * Shares <= n * totalLp
             /\ Shares > 0 => n * totalLp < LpFor(n) * Shares + Shares
  <2>1. CASE Shares = 0
    <3>1. LpFor(n) = 0 /\ n = 0
      BY <1>1, <1>2, <2>1 DEF LpFor
    <3> QED
      BY <1>1, <2>1, <3>1, SMT
  <2>2. CASE Shares # 0
    <3>1. LpFor(n) = (n * totalLp) \div Shares
      BY <2>2 DEF LpFor
    <3>2. /\ LpFor(n) \in Nat
          /\ LpFor(n) * Shares <= n * totalLp
          /\ n * totalLp < LpFor(n) * Shares + Shares
      BY <1>1, <1>2, <2>2, <3>1, LpForBounds
    <3> HIDE DEF LpFor
    <3>3. LpFor(n) <= totalLp
      <4>1. n * totalLp <= Shares * totalLp
        BY <1>1, <1>2, Arithmetic!MulMono, ArithmeticFacts
      <4>2. Shares * totalLp = totalLp * Shares
        BY <1>1, SMT
      <4>3. /\ LpFor(n) * Shares \in Nat /\ n * totalLp \in Nat
            /\ totalLp * Shares \in Nat
        BY <1>1, <3>2, SMT
      <4>4. LpFor(n) * Shares <= totalLp * Shares
        BY <3>2, <4>1, <4>2, <4>3
      <4> QED
        BY <1>1, <2>2, <3>2, <4>4, Arithmetic!MulCancelLeq, ArithmeticFacts
    <3> QED
      BY <3>2, <3>3
  <2> QED
    BY <2>1, <2>2
<1>3. LpFor(0) = 0
  <2>1. CASE Shares = 0
    BY <2>1 DEF LpFor
  <2>2. CASE Shares # 0
    <3>1. /\ LpFor(0) \in Nat /\ LpFor(0) * Shares <= 0 * totalLp
      BY <1>1, <1>2
    <3>2. PICK v \in Nat : v = LpFor(0)
      BY <3>1
    <3>3. v * Shares <= 0
      BY <1>1, <3>1, <3>2, SMT
    <3>4. v > 0 => v * Shares > 0
      BY <1>1, <2>2, SMT
    <3>5. v * Shares \in Nat
      BY <1>1, SMT
    <3>6. v = 0
      BY <3>3, <3>4, <3>5
    <3> QED
      BY <3>2, <3>6
  <2> QED
    BY <2>1, <2>2
<1>4. ASSUME NEW b \in Nat
      PROVE  /\ SharesFor(b) \in Nat
             /\ totalLp > 0 => b * Shares <= SharesFor(b) * totalLp
  <2>1. CASE totalLp = 0
    BY <1>1, <2>1 DEF SharesFor
  <2>2. CASE totalLp # 0
    BY <1>1, <2>2, SharesForBounds DEF SharesFor
  <2> QED
    BY <2>1, <2>2
<1> QED
  BY <1>2, <1>3, <1>4

(* Where neither the LSD nor what it stands for moves, nothing of worth    *)
(* changes.                                                                *)
LEMMA WorthUnchanged ==
  ASSUME UNCHANGED <<lsd, totalLp, supply>>, NEW CONSTANT s
  PROVE  /\ Shares' = Shares /\ Rate' = Rate
         /\ VaultHarvested(s)' <=> VaultHarvested(s)
         /\ TakenApart(s)' <=> TakenApart(s)
         /\ OnlyDust' <=> OnlyDust
         /\ Retrieved(s)' <=> Retrieved(s)
<1>1. Shares' = Shares
  BY DEF Shares
<1>2. Rate' = Rate
  BY <1>1 DEF Rate
<1>3. VaultHarvested(s)' <=> VaultHarvested(s)
  BY <1>2 DEF VaultHarvested, StillCovered
<1>4. TakenApart(s)' <=> TakenApart(s)
  BY <1>1 DEF TakenApart, Freed, Spent, WorthAt, Harvested
<1>5. OnlyDust' <=> OnlyDust
  BY <1>1 DEF OnlyDust, LpFor
<1> QED
  BY <1>1, <1>2, <1>3, <1>4, <1>5 DEF Retrieved

(* What there was to sell, in numbers.                                     *)
LEMMA BeforeTypes ==
  ASSUME Typed, ~Idle, NEW CONSTANT s, s = saved, NEW w \in Nat,
         VaultHarvested(s), TakenApart(s)
  PROVE  /\ Harvested(s) \in Nat /\ Spent(s) \in Nat
         /\ Freed(s) \in Int
         /\ Before(s, Lsd, w) = Harvested(s) - Spent(s)
         /\ Before(s, Lsd, w) \in Nat
         /\ \A x \in Goods \ {Stable} : Before(s, x, w) \in Int
         /\ PotBefore(s, w) \in Nat
         /\ s.lsd[Market] \in Nat /\ lsd[Market] \in Nat
<1>1. /\ lsd \in [Accounts -> Nat] /\ totalLp \in Nat
      /\ s.lsd \in [Accounts -> Nat] /\ s.held \in [Assets -> Nat]
      /\ s.totalLp \in Nat
      /\ {Wrapper, Reward, Market} \subseteq Accounts
  BY AccountTypes, SavedTypes, Parties
<1>2. Harvested(s) \in Nat
  BY <1>1 DEF Harvested, VaultHarvested
<1>3. Spent(s) \in Nat /\ Spent(s) <= Harvested(s) /\ Freed(s) \in Int
  BY <1>1, <1>2 DEF TakenApart, Freed
<1> HIDE DEF Harvested, Spent, Freed
<1>4. /\ Before(s, Lsd, w) = Harvested(s) - Spent(s)
      /\ Before(s, Lsd, w) \in Nat
  BY <1>2, <1>3, AssetKinds DEF Before
<1>5. ASSUME NEW x \in Goods \ {Stable}, x # Lsd
      PROVE  Before(s, x, w) \in Int
  BY <1>1, <1>3, <1>5, AssetKinds DEF Before
<1>6. PotBefore(s, w) \in Nat
  BY <1>1, AssetKinds DEF PotBefore
<1> QED
  BY <1>1, <1>2, <1>3, <1>4, <1>5, <1>6

(* The reward contract puts everything it can on sale: nothing is sold     *)
(* yet, or there is nothing to sell and the transaction has ended.         *)
LEMMA SellingFacts ==
  ASSUME Typed, ~Idle, Tail(stack) = << >>, SellOffers,
         UNCHANGED <<tokenVars, now, limitVars, totalLp, hubConfig,
                     rewardConfigs, lastIndexModification>>,
         NEW CONSTANT s, s = saved, Retrieved(s),
         NEW w \in Nat, Ready(s, w)
  PROVE  /\ Typed' /\ GoesOnOrEnds
         /\ Sales(stack)' /\ AllOnSale(stack)' /\ Len(stack') <= Len(Listed)
         /\ Retrieved(s)' /\ Selling(s)'
<1>1. /\ lsd \in [Accounts -> Nat] /\ held \in [Assets -> Nat] /\ totalLp \in Nat
      /\ LW!IInv /\ unsold \subseteq Goods /\ lastIndexModification \in Nat
      /\ RewardTypeOK /\ Reward \in Accounts /\ Lsd \in Goods \ {Stable}
  BY AccountTypes, SmallFacts, Parties, AssetKinds
<1>2. /\ Sales(stack)' /\ AllOnSale(stack)' /\ unsold' \subseteq Goods
      /\ saved' = IF stack' = << >> THEN None ELSE saved
      /\ Len(stack') <= Len(Listed)
      /\ stack' # << >> => stack'[1].first
      /\ UNCHANGED <<lsd, held>>
  <2>1. RewardTypeOK /\ Distinct /\ Reward \in Accounts
        /\ lsd \in [Accounts -> Nat]
    BY AccountTypes, Parties
  <2> QED
    BY <2>1, SellOffersFacts
<1>3. GoesOnOrEnds
  BY <1>2 DEF GoesOnOrEnds
<1>4. LW!IInv'
  BY <1>1, <1>2, KeepLimit DEF tokenVars
<1>5. Typed'
  BY <1>1, <1>2, <1>3, <1>4, TxTypes
<1>6. Retrieved(s)'
  BY <1>2, WorthUnchanged DEF tokenVars
<1>7. SoldOrKept(s, w)
  <2>1. \A x \in Goods \ {Stable} : Held(x) \in Nat
    BY <1>1, HeldNat
  <2>2. \A x \in Goods \ {Stable} : Held(x) = Before(s, x, w)
    BY DEF Ready
  <2>3. PotBefore(s, w) \in Nat /\ s.lsd[Market] \in Nat
    BY BeforeTypes DEF Retrieved
  <2>4. lsd[Market] = s.lsd[Market] + (Before(s, Lsd, w) - lsd[Reward])
    <3>1. Before(s, Lsd, w) = lsd[Reward] /\ lsd[Reward] \in Nat
      BY <1>1, <2>1, <2>2 DEF Held
    <3> QED
      BY <2>3, <3>1 DEF Ready
  <2> QED
    BY <2>1, <2>2, <2>3, <2>4 DEF Ready, SoldOrKept
<1>8. SoldOrKept(s, w)'
  <2>1. Shares' = Shares
    BY <1>2 DEF Shares
  <2> QED
    BY <1>2, <1>7, <2>1
    DEF SoldOrKept, Held, Before, PotBefore, Withdrawable, Freed, Spent, Harvested
<1>9. FirstSaleFirst(s, w)'
  BY <1>2 DEF FirstSaleFirst
<1> QED
  BY <1>2, <1>3, <1>5, <1>6, <1>8, <1>9 DEF Selling

(* Nothing is sold yet when the harvest has arrived and is worth nothing.  *)
LEMMA ArrivedFacts ==
  ASSUME Typed, ~Idle, NEW CONSTANT s, s = saved, Arrived(s), OnlyDust
  PROVE  Retrieved(s) /\ Ready(s, 0)
<1>1. /\ held \in [Assets -> Nat] /\ lsd \in [Accounts -> Nat] /\ totalLp \in Nat
      /\ Shares \in Nat /\ lsd[Reward] \in Nat /\ lsd[Reward] <= Shares
      /\ Stable \in Assets /\ Lp \in Assets
  BY AccountTypes, AssetKinds
<1>2. /\ held = s.held /\ VaultHarvested(s) /\ totalLp = s.totalLp
      /\ lsd[Reward] = Harvested(s) /\ lsd[Market] = s.lsd[Market]
      /\ Shares = SumFunction(s.lsd)
  BY DEF Arrived
<1>3. Freed(s) = 0 /\ Spent(s) = 0
  BY <1>1, <1>2 DEF Freed, Spent
<1>4. TakenApart(s)
  <2>1. WorthAt(s, Harvested(s)) = LpFor(lsd[Reward])
    BY <1>2 DEF WorthAt, LpFor
  <2>2. LpFor(lsd[Reward]) = 0
    BY DEF OnlyDust
  <2>3. Harvested(s) = 0 \/ Harvested(s) * totalLp < Shares
    <3>1. /\ LpFor(lsd[Reward]) \in Nat
          /\ Shares > 0 => lsd[Reward] * totalLp
                             < LpFor(lsd[Reward]) * Shares + Shares
      BY <1>1, RetrievalBounds
    <3> HIDE DEF Shares, Harvested
    <3>2. 0 * Shares = 0
      BY <1>1, SMT
    <3> QED
      BY <1>1, <1>2, <2>2, <3>1, <3>2
  <2> HIDE DEF Harvested, Spent, Freed, Shares
  <2>4. Harvested(s) - 0 = Harvested(s) /\ 0 \in 0 .. Harvested(s)
    BY <1>1, <1>2
  <2> QED
    BY <1>3, <2>1, <2>2, <2>3, <2>4 DEF TakenApart
<1>5. \A x \in Goods \ {Stable} : Held(x) = Before(s, x, 0)
  <2> HIDE DEF Harvested, Spent, Freed, Shares
  <2> TAKE x \in Goods \ {Stable}
  <2>1. CASE x = Lsd
    BY <1>1, <1>2, <1>3, <2>1, AssetKinds DEF Before, Held
  <2>2. CASE x # Lsd
    <3>1. x \in Assets /\ Held(x) = s.held[x] /\ s.held[x] \in Nat
      BY <1>1, <1>2, <2>2, AssetKinds DEF Held
    <3> QED
      BY <1>1, <1>3, <2>2, <3>1 DEF Before
  <2> QED
    BY <2>1, <2>2
<1>6. held[Stable] = PotBefore(s, 0) /\ 0 \in Withdrawable(s)
  BY <1>1, <1>2, <1>3 DEF PotBefore, Withdrawable
<1> QED
  BY <1>2, <1>4, <1>5, <1>6 DEF Retrieved, Ready

(* The reward contract takes its LSD apart, if that is worth anything, and *)
(* else begins to sell.                                                    *)
LEMMA SwapFacts ==
  ASSUME Typed, AtSwap, RunRetrieve(Head(stack)),
         UNCHANGED <<tokenVars, now, limitVars, hubConfig, rewardConfigs,
                     lastIndexModification>>,
         NEW CONSTANT s, s = saved
  PROVE  /\ Typed' /\ GoesOnOrEnds
         /\ \/ ~Idle' /\ AtUnbond'
            \/ /\ Sales(stack)' /\ AllOnSale(stack)' /\ Len(stack') <= Len(Listed)
               /\ Retrieved(s)' /\ Selling(s)'
<1> DEFINE L == lsd[Reward]
           b == LpFor(lsd[Reward])
<1>1. stack = <<SwapToRewardDenom(Hub, Reward)>> /\ Arrived(s)
  BY DEF AtSwap
<1>2. ~Idle /\ Tail(stack) = << >>
  BY <1>1 DEF Idle
<1>3. /\ lsd \in [Accounts -> Nat] /\ held \in [Assets -> Nat] /\ totalLp \in Nat
      /\ LW!IInv /\ unsold \subseteq Goods /\ lastIndexModification \in Nat
      /\ L \in Nat /\ L <= Shares
  BY AccountTypes, SmallFacts
<1>4. /\ b \in Nat /\ (L = 0 => b = 0) /\ SharesFor(b) \in Nat
      /\ held[Lp] \in Nat
  BY <1>3, RetrievalBounds, AssetKinds
<1>5. VaultHarvested(s)
  BY <1>1 DEF Arrived
<1>6. totalLp' = totalLp
  BY DEF RunRetrieve
<1>7. CASE RetrieveMessages = << >>
  <2>1. OnlyDust
    <3>1. L = 0 \/ b + held[Lp] = 0
      <4>1. \A x, y : <<x, y>> # << >>
        OBVIOUS
      <4>2. L > 0 /\ Retrieval = "amp_lp" => b + held[Lp] = 0
        BY <1>3, <1>7, <4>1 DEF RetrieveMessages, AmpLpRetrieveMessages
      <4>3. L > 0 => Retrieval # "spectrum"
        BY <1>3, <1>7, <4>1 DEF RetrieveMessages, SpectrumRetrieveMessages
      <4> QED
        BY <1>3, <4>2, <4>3, CustomRewardAssumption
    <3> QED
      BY <1>4, <3>1 DEF OnlyDust
  <2>2. SellOffers
    BY <1>7 DEF RunRetrieve
  <2> QED
    BY <1>1, <1>2, <1>6, <2>1, <2>2, ArrivedFacts, SellingFacts
<1>8. CASE RetrieveMessages # << >>
  <2>1. /\ Continue(RetrieveMessages \o <<Reply>>) /\ UNCHANGED <<lsd, held, unsold>>
    BY <1>8 DEF RunRetrieve
  <2>2. L > 0
    BY <1>3, <1>8 DEF RetrieveMessages, AmpLpRetrieveMessages,
                      SpectrumRetrieveMessages
  <2>3. \E m, w \in Nat :
          /\ RetrieveMessages = <<Unbond(m, b), WithdrawLiquidity(w)>>
          /\ IF Retrieval = "amp_lp" THEN m = L /\ w = b + held[Lp]
             ELSE m = SharesFor(b) /\ w = b
          /\ Retrieval = "amp_lp" => w > 0
    <3> HIDE DEF b
    <3>1. CASE Retrieval = "amp_lp"
      <4>1. RetrieveMessages = <<Unbond(L, b), WithdrawLiquidity(b + held[Lp])>>
        BY <1>8, <2>2, <3>1 DEF RetrieveMessages, AmpLpRetrieveMessages, b
      <4>2. b + held[Lp] \in Nat \ {0}
        BY <1>4, <1>8, <2>2, <3>1 DEF RetrieveMessages, AmpLpRetrieveMessages, b
      <4> QED
        BY <1>3, <3>1, <4>1, <4>2
    <3>2. CASE Retrieval = "spectrum"
      <4>1. RetrieveMessages = <<Unbond(SharesFor(b), b), WithdrawLiquidity(b)>>
        BY <1>8, <2>2, <3>2 DEF RetrieveMessages, SpectrumRetrieveMessages, b
      <4> QED
        BY <1>4, <3>2, <4>1
    <3> QED
      BY <3>1, <3>2, CustomRewardAssumption
  <2>4. PICK m, w \in Nat :
          /\ RetrieveMessages = <<Unbond(m, b), WithdrawLiquidity(w)>>
          /\ IF Retrieval = "amp_lp" THEN m = L /\ w = b + held[Lp]
             ELSE m = SharesFor(b) /\ w = b
          /\ Retrieval = "amp_lp" => w > 0
    BY <2>3
  <2> HIDE DEF b
  <2>5. /\ stack' = <<Unbond(m, b), WithdrawLiquidity(w), Reply>>
        /\ saved' = saved /\ stack' # << >>
    BY <1>1, <2>1, <2>4, ContinueLast
  <2>6. GoesOnOrEnds /\ ~Idle'
    BY <2>5 DEF GoesOnOrEnds, Idle
  <2>7. LW!IInv'
    BY <1>3, <1>6, <2>1, KeepLimit DEF tokenVars
  <2>8. Typed'
    BY <1>2, <1>3, <1>6, <2>1, <2>6, <2>7, TxTypes
  <2>9. LpFor(lsd[Reward])' = b
    BY <1>6, <2>1 DEF LpFor, Shares, b
  <2>10. Arrived(saved)'
    <3>1. VaultHarvested(s)'
      BY <1>5, <1>6, <2>1, WorthUnchanged DEF tokenVars
    <3>2. VaultHarvested(saved)'
      BY <2>5, <3>1 DEF VaultHarvested
    <3> QED
      BY <1>1, <1>6, <2>1, <2>5, <3>2 DEF Arrived, Harvested, Shares
  <2>11. AtUnbond'
    <3>2. (SharesFor(LpFor(lsd[Reward])))' = SharesFor(b)
      BY <1>6, <2>1 DEF SharesFor, Shares, LpFor, b
    <3>3. IF Retrieval = "amp_lp"
          THEN m = lsd'[Reward] /\ w = (LpFor(lsd[Reward]))' + held'[Lp]
          ELSE m = (SharesFor(LpFor(lsd[Reward])))' /\ w = (LpFor(lsd[Reward]))'
      BY <2>1, <2>4, <2>9, <3>2
    <3> QED
      BY <2>1, <2>2, <2>4, <2>5, <2>9, <2>10, <3>3 DEF AtUnbond
  <2> QED
    BY <2>6, <2>8, <2>11
<1> QED
  BY <1>7, <1>8

(* To unbond no liquidity token costs no share.                            *)
LEMMA NothingCostsNothing ==
  ASSUME Typed
  PROVE  SharesFor(0) = 0
<1>1. Shares \in Nat /\ totalLp \in Nat
  BY AccountTypes
<1> HIDE DEF Shares
<1>2. CASE totalLp = 0
  BY <1>2 DEF SharesFor
<1>3. CASE totalLp # 0
  <2>1. 0 * Shares = 0
    BY <1>1, SMT
  <2>2. 0 * Shares + totalLp - 1 = totalLp - 1 /\ totalLp - 1 \in Nat
    BY <1>1, <1>3, <2>1
  <2>3. (totalLp - 1) \div totalLp = 0
    BY <1>1, <1>3, <2>2, Arithmetic!DivBounds, ArithmeticFacts
  <2> QED
    BY <1>3, <2>2, <2>3 DEF SharesFor
<1> QED
  BY <1>2, <1>3

(* The unbonding, in numbers.                                              *)
LEMMA UnbondNumbers ==
  ASSUME Typed, AtUnbond, RunUnbond(Head(stack)), NEW CONSTANT s, s = saved
  PROVE  \E m, w, b \in Nat :
           /\ stack' = <<WithdrawLiquidity(w), Reply>> /\ saved' = s
           /\ b = LpFor(lsd[Reward]) /\ Arrived(s)
           /\ 0 < m /\ m <= lsd[Reward] /\ b * Shares <= m * totalLp /\ w > 0
           /\ IF Retrieval = "amp_lp" THEN w = b + held[Lp] ELSE w = b
           /\ lsd' = [lsd EXCEPT ![Reward] = @ - m]
           /\ held' = [held EXCEPT ![Lp] = @ + b]
           /\ totalLp' = totalLp - b /\ unsold' = unsold
<1>1. PICK m, w \in Nat :
        /\ stack = <<Unbond(m, LpFor(lsd[Reward])), WithdrawLiquidity(w), Reply>>
        /\ IF Retrieval = "amp_lp"
           THEN m = lsd[Reward] /\ w = LpFor(lsd[Reward]) + held[Lp]
           ELSE m = SharesFor(LpFor(lsd[Reward])) /\ w = LpFor(lsd[Reward])
        /\ (Retrieval = "amp_lp" => w > 0) /\ Arrived(s)
  BY DEF AtUnbond
<1>2. /\ lsd[Reward] \in Nat /\ lsd[Reward] <= Shares /\ totalLp \in Nat
      /\ Shares \in Nat
  BY AccountTypes
<1>3. PICK b \in Nat : /\ b = LpFor(lsd[Reward])
                       /\ b * Shares <= lsd[Reward] * totalLp
                       /\ SharesFor(b) \in Nat
                       /\ totalLp > 0 => b * Shares <= SharesFor(b) * totalLp
  BY <1>2, RetrievalBounds
<1> HIDE DEF Shares
<1>4. stack = <<Unbond(m, b), WithdrawLiquidity(w), Reply>>
  BY <1>1, <1>3
<1>5. /\ Head(stack) = Unbond(m, b)
      /\ Continue(<< >>) => /\ stack' = <<WithdrawLiquidity(w), Reply>>
                            /\ saved' = saved
  BY <1>4, ContinueTriple
<1>6. /\ Head(stack).shares = m /\ Head(stack).amount = b
  BY <1>5 DEF Unbond
<1>7. 0 < m /\ m <= lsd[Reward] /\ Continue(<< >>) /\ unsold' = unsold
      /\ lsd' = [lsd EXCEPT ![Reward] = @ - m]
  BY <1>6 DEF RunUnbond
<1>8. Unbonded(Head(stack)) = b
  BY <1>1, <1>3, <1>6 DEF Unbonded
<1>9. /\ held' = [held EXCEPT ![Lp] = @ + b] /\ totalLp' = totalLp - b
  BY <1>8 DEF RunUnbond
<1>10. b * Shares <= m * totalLp
  <2>1. CASE Retrieval = "amp_lp"
    BY <1>1, <1>3, <2>1
  <2>2. CASE Retrieval # "amp_lp"
    <3>1. m = SharesFor(b)
      BY <1>1, <1>3, <2>2
    <3>2. totalLp # 0
      BY <1>7, <3>1 DEF SharesFor
    <3> QED
      BY <1>2, <1>3, <3>1, <3>2
  <2> QED
    BY <2>1, <2>2
<1>11. IF Retrieval = "amp_lp" THEN w = b + held[Lp] ELSE w = b
  BY <1>1, <1>3
<1>12. w > 0
  <2>1. CASE Retrieval = "amp_lp"
    BY <1>1, <2>1
  <2>2. CASE Retrieval # "amp_lp"
    <3>1. SharesFor(b) > 0 /\ w = b
      BY <1>1, <1>3, <1>7, <2>2
    <3> QED
      BY <1>3, <3>1, NothingCostsNothing, AccountTypes
  <2> QED
    BY <2>1, <2>2
<1> QED
  BY <1>1, <1>3, <1>5, <1>7, <1>9, <1>10, <1>11, <1>12

(* Taking LSD apart leaves what backs the wrapper's tokens worth no less,  *)
(* and no LSD that could be taken apart again.                             *)
LEMMA UnbondingEffect ==
  ASSUME Typed, NEW m \in Nat, NEW b \in Nat, NEW CONSTANT s,
         b = LpFor(lsd[Reward]), 0 < m, m <= lsd[Reward],
         b * Shares <= m * totalLp,
         lsd' = [lsd EXCEPT ![Reward] = @ - m],
         totalLp' = totalLp - b, UNCHANGED supply, VaultHarvested(s)
  PROVE  /\ lsd' \in [Accounts -> Nat] /\ totalLp' \in Nat
         /\ lsd'[Wrapper] = lsd[Wrapper] /\ lsd'[Reward] = lsd[Reward] - m
         /\ Shares' = Shares - m
         /\ \/ m = lsd[Reward]
            \/ (lsd[Reward] - m) * totalLp' < Shares'
         /\ VaultHarvested(s)' /\ OnlyDust'
<1>1. /\ lsd \in [Accounts -> Nat] /\ totalLp \in Nat /\ supply \in Nat
      /\ lsd[Reward] \in Nat /\ lsd[Reward] <= Shares /\ Shares \in Nat
      /\ lsd[Wrapper] \in Nat
      /\ Reward \in Accounts /\ Wrapper \in Accounts /\ Wrapper # Reward
  BY AccountTypes, Parties
<1>2. PICK S, T, L \in Nat : S = Shares /\ T = totalLp /\ L = lsd[Reward]
  BY <1>1
<1>3. /\ L <= S /\ S > 0 /\ m <= S /\ b <= T /\ m <= L
      /\ b * S <= L * T /\ L * T < b * S + S /\ b * S <= m * T
  <2>1. /\ L <= S /\ S > 0 /\ m <= S /\ m <= L /\ b * S <= m * T
    BY <1>1, <1>2
  <2>2. /\ b <= T /\ b * S <= L * T /\ L * T < b * S + S
    <3> HIDE DEF LpFor, Shares
    <3>1. /\ LpFor(L) <= totalLp /\ LpFor(L) * Shares <= L * totalLp
          /\ Shares > 0 => L * totalLp < LpFor(L) * Shares + Shares
      BY <1>1, <1>2, RetrievalBounds
    <3>2. LpFor(L) = b
      BY <1>2
    <3> QED
      BY <1>2, <2>1, <3>1, <3>2
  <2> QED
    BY <2>1, <2>2
<1>4. /\ lsd' \in [Accounts -> Nat] /\ Shares' = S - m
      /\ lsd'[Reward] = L - m /\ lsd'[Wrapper] = lsd[Wrapper]
  <2>1. /\ lsd' \in [Accounts -> Nat]
        /\ lsd'[Reward] = L - m /\ lsd'[Wrapper] = lsd[Wrapper]
        /\ \A x \in Accounts : x # Reward => lsd'[x] = lsd[x]
    BY <1>1, <1>2
  <2>2. PICK f \in [Accounts -> Nat], h \in [Accounts -> Nat] : f = lsd /\ h = lsd'
    BY <1>1, <2>1
  <2>3. SumFunction(h) = SumFunction(f) + (h[Reward] - f[Reward])
    BY <1>1, <2>1, <2>2, SharesChange
  <2>4. SumFunction(lsd') = S + ((L - m) - L)
    BY <1>2, <2>1, <2>2, <2>3 DEF Shares
  <2>5. S + ((L - m) - L) = S - m
    OBVIOUS
  <2> QED
    BY <2>1, <2>4, <2>5 DEF Shares
<1>5. totalLp' = T - b /\ totalLp' \in Nat
  BY <1>2, <1>3
<1>6. lsd'[Wrapper] <= Shares'
  <2>1. \A a \in Accounts : lsd'[a] <= SumFunction(lsd')
    <3>1. PICK h \in [Accounts -> Nat] : h = lsd'
      BY <1>4
    <3> QED
      BY <3>1, SharesBound
  <2> QED
    BY <1>1, <2>1 DEF Shares
<1> HIDE DEF Shares
<1>7. VaultHarvested(s)'
  <2>1. CASE lsd[Wrapper] = s.lsd[Wrapper]
    BY <1>4, <2>1 DEF VaultHarvested
  <2>2. CASE lsd[Wrapper] <= s.lsd[Wrapper] /\ StillCovered(lsd[Wrapper])
    <3>1. StillCovered(lsd[Wrapper])'
      <4>1. PICK v, u \in Nat : v = lsd[Wrapper] /\ u = supply * ONE
        BY <1>1, LimitedAmountAssumption, SMT
      <4>2. v * Rate >= u
        BY <2>2, <4>1 DEF StillCovered
      <4>3. v * Rate' >= u
        <5>1. CASE m = S
          <6>1. v = 0
            BY <1>3, <1>4, <1>6, <4>1, <5>1
          <6>2. Rate \in Nat /\ Rate' \in Nat
            <7>1. (lsd \in [Accounts -> Nat] /\ totalLp \in Nat
                     => Shares \in Nat /\ Rate \in Nat)'
              BY RateNat, PTL
            <7> QED
              BY <1>4, <1>5, <7>1, AccountTypes
          <6>3. \A r \in Nat : 0 * r = 0
            BY SMT
          <6> QED
            BY <4>2, <6>1, <6>2, <6>3
        <5>2. CASE m < S
          <6>1. Rate = (T * ONE) \div S
            BY <1>2, <1>3 DEF Rate
          <6>2. Rate' = ((T - b) * ONE) \div (S - m)
            BY <1>4, <1>5, <5>2 DEF Rate
          <6>3. Rate <= Rate'
            BY <1>3, <5>2, <6>1, <6>2, UnbondingKeepsRate
          <6>4. Rate \in Nat /\ Rate' \in Nat
            <7>1. (lsd \in [Accounts -> Nat] /\ totalLp \in Nat
                     => Shares \in Nat /\ Rate \in Nat)'
              BY RateNat, PTL
            <7> QED
              BY <1>4, <1>5, <7>1, AccountTypes
          <6>5. PICK p, q \in Nat : p = Rate /\ q = Rate'
            BY <6>4
          <6>6. p * v <= q * v
            BY <6>3, <6>5, Arithmetic!MulMono, ArithmeticFacts
          <6>7. p * v = v * p /\ q * v = v * q
            BY SMT
          <6>8. v * p \in Nat /\ v * q \in Nat
            BY SMT
          <6>9. v * p >= u
            BY <4>2, <6>5, Zenon
          <6>10. v * q >= u
            BY <6>6, <6>7, <6>8, <6>9
          <6> QED
            BY <6>5, <6>10, Zenon
        <5> QED
          BY <1>3, <5>1, <5>2
      <4> QED
        BY <1>4, <4>1, <4>3 DEF StillCovered
    <3> QED
      BY <1>4, <2>2, <3>1 DEF VaultHarvested
  <2> QED
    BY <2>1, <2>2 DEF VaultHarvested
<1>8. OnlyDust' /\ (m = L \/ (L - m) * (T - b) < S - m)
  <2>1. CASE m = S
    BY <1>3, <1>4, <2>1 DEF OnlyDust, LpFor
  <2>2. CASE m < S
    <3>1. PICK k, d, n : k = L - m /\ d = T - b /\ n = S - m
      OBVIOUS
    <3>2. (k * d) \div n = 0
      BY <1>3, <2>2, <3>1, UnbondingLeavesDust
    <3>3. (LpFor(lsd[Reward]))' = (k * d) \div n
      BY <1>4, <1>5, <2>2, <3>1 DEF LpFor
    <3>4. k * d < n
      <4>1. k \in Nat /\ d \in Nat /\ n \in Nat \ {0}
        BY <1>3, <2>2, <3>1
      <4>2. k * d \in Nat
        BY <4>1, SMT
      <4>3. PICK p \in Nat : p = k * d
        BY <4>2
      <4>4. p < (p \div n) * n + n /\ p \div n = 0
        BY <3>2, <4>1, <4>3, Arithmetic!DivBounds, ArithmeticFacts
      <4>5. 0 * n = 0
        BY <4>1, SMT
      <4> QED
        BY <4>1, <4>3, <4>4, <4>5
    <3> QED
      BY <3>1, <3>2, <3>3, <3>4 DEF OnlyDust
  <2> QED
    BY <1>3, <2>1, <2>2
<1> QED
  BY <1>2, <1>4, <1>5, <1>7, <1>8

(* The liquidity tokens have arrived.                                      *)
LEMMA UnbondFacts ==
  ASSUME Typed, AtUnbond, RunUnbond(Head(stack)),
         UNCHANGED <<tokenVars, now, limitVars, hubConfig, rewardConfigs,
                     lastIndexModification>>
  PROVE  Typed' /\ GoesOnOrEnds /\ ~Idle' /\ AtWithdraw'
<1>1. PICK s : s = saved
  OBVIOUS
<1>2. PICK m, w, b \in Nat :
        /\ stack' = <<WithdrawLiquidity(w), Reply>> /\ saved' = s
        /\ b = LpFor(lsd[Reward]) /\ Arrived(s)
        /\ 0 < m /\ m <= lsd[Reward] /\ b * Shares <= m * totalLp /\ w > 0
        /\ IF Retrieval = "amp_lp" THEN w = b + held[Lp] ELSE w = b
        /\ lsd' = [lsd EXCEPT ![Reward] = @ - m]
        /\ held' = [held EXCEPT ![Lp] = @ + b]
        /\ totalLp' = totalLp - b /\ unsold' = unsold
  BY <1>1, UnbondNumbers
<1>3. /\ held \in [Assets -> Nat] /\ LW!IInv /\ unsold \subseteq Goods
      /\ lastIndexModification \in Nat /\ lsd[Reward] \in Nat
      /\ Lp \in Assets /\ ~Idle /\ lsd \in [Accounts -> Nat]
      /\ totalLp \in Nat /\ Shares \in Nat
      /\ {Wrapper, Reward, Market} \subseteq Accounts
      /\ Market # Reward /\ Wrapper # Reward
  BY AccountTypes, SmallFacts, AssetKinds, Parties DEF AtUnbond, Idle
<1>4. /\ held = s.held /\ VaultHarvested(s) /\ totalLp = s.totalLp
      /\ lsd[Reward] = Harvested(s) /\ lsd[Market] = s.lsd[Market]
      /\ Shares = SumFunction(s.lsd)
  BY <1>2 DEF Arrived
<1>5. /\ lsd' \in [Accounts -> Nat] /\ totalLp' \in Nat
      /\ lsd'[Wrapper] = lsd[Wrapper] /\ lsd'[Reward] = lsd[Reward] - m
      /\ Shares' = Shares - m
      /\ \/ m = lsd[Reward]
         \/ (lsd[Reward] - m) * totalLp' < Shares'
      /\ VaultHarvested(s)' /\ OnlyDust'
  BY <1>2, <1>4, UnbondingEffect DEF tokenVars
<1>6. stack' # << >> /\ saved' = saved
  BY <1>1, <1>2
<1>7. GoesOnOrEnds /\ ~Idle'
  BY <1>6 DEF GoesOnOrEnds, Idle
<1>8. LW!IInv'
  BY <1>3, <1>5, KeepLimit DEF tokenVars
<1>9. /\ held' \in [Assets -> Nat] /\ held'[Lp] = held[Lp] + b
      /\ \A x \in Assets \ {Lp} : held'[x] = held[x]
      /\ held[Lp] \in Nat
  BY <1>2, <1>3
<1>10. Typed'
  BY <1>2, <1>3, <1>5, <1>7, <1>8, <1>9, TxTypes
<1>11. /\ Harvested(s)' = lsd[Reward] /\ Freed(s)' = b /\ Spent(s)' = m
  <2>1. Harvested(s)' = Harvested(s)
    BY <1>5 DEF Harvested
  <2>2. Freed(s)' = totalLp - (totalLp - b)
    BY <1>2, <1>4 DEF Freed
  <2>3. Spent(s)' = Shares - (Shares - m)
    BY <1>4, <1>5 DEF Spent
  <2> HIDE DEF Shares
  <2>4. totalLp - (totalLp - b) = b /\ Shares - (Shares - m) = m
    BY <1>3
  <2> QED
    BY <1>4, <2>1, <2>2, <2>3, <2>4
<1>12. TakenApart(s)'
  <2>1. WorthAt(s, lsd[Reward]) = b
    BY <1>2, <1>4 DEF WorthAt, LpFor
  <2>2. WorthAt(s, Harvested(s))' = WorthAt(s, lsd[Reward])
    BY <1>11 DEF WorthAt
  <2>3. m \in 0 .. lsd[Reward]
    BY <1>2, <1>3
  <2> QED
    BY <1>5, <1>11, <2>1, <2>2, <2>3 DEF TakenApart
<1>13. w \in Withdrawable(s)'
  <2>1. CASE Retrieval = "amp_lp"
    BY <1>2, <1>4, <1>11, <2>1 DEF Withdrawable
  <2>2. CASE Retrieval # "amp_lp"
    BY <1>2, <1>11, <2>2 DEF Withdrawable
  <2> QED
    BY <2>1, <2>2
<1>14. /\ held'[Lp] = s.held[Lp] + Freed(s)'
       /\ \A x \in Assets \ {Lp} : held'[x] = s.held[x]
       /\ lsd'[Reward] = Harvested(s)' - Spent(s)'
       /\ lsd'[Market] = s.lsd[Market]
  BY <1>2, <1>3, <1>4, <1>5, <1>9, <1>11
<1>15. Retrieved(s)'
  BY <1>5, <1>12 DEF Retrieved
<1>16. saved' = s /\ s' = s
  BY <1>2
<1>17. /\ Retrieved(saved)' /\ w \in Withdrawable(saved)'
       /\ held'[Lp] = (saved.held[Lp] + Freed(saved))'
       /\ (lsd[Reward] = Harvested(saved) - Spent(saved))'
  BY <1>13, <1>14, <1>15, <1>16
  DEF Retrieved, VaultHarvested, TakenApart, WorthAt, Withdrawable, Freed, Spent,
      Harvested
<1> QED
  BY <1>2, <1>7, <1>10, <1>14, <1>16, <1>17 DEF AtWithdraw

(* Everything is there to be sold when the pair has paid.                  *)
LEMMA WithdrawFacts ==
  ASSUME Typed, AtWithdraw, RunWithdrawLiquidity(Head(stack)),
         UNCHANGED <<tokenVars, now, limitVars, hubConfig, rewardConfigs,
                     lastIndexModification>>
  PROVE  Typed' /\ GoesOnOrEnds /\ ~Idle' /\ AtReply'
<1>1. PICK s : s = saved
  OBVIOUS
<1>2. PICK w \in Nat :
        /\ stack = <<WithdrawLiquidity(w), Reply>> /\ w \in Withdrawable(s)
        /\ held[Lp] = s.held[Lp] + Freed(s)
        /\ \A x \in Assets \ {Lp} : held[x] = s.held[x]
        /\ lsd[Reward] = Harvested(s) - Spent(s)
        /\ lsd[Market] = s.lsd[Market]
        /\ Retrieved(s)
  BY <1>1 DEF AtWithdraw
<1>3. /\ Head(stack) = WithdrawLiquidity(w) /\ ~Idle
      /\ Continue(<< >>) => stack' = <<Reply>> /\ saved' = saved
  BY <1>2, ContinuePair
<1>4. Head(stack).amount = w
  BY <1>3 DEF WithdrawLiquidity
<1>5. /\ 0 < w /\ w <= held[Lp] /\ Continue(<< >>)
      /\ held' = [x \in Assets |->
                    CASE x = Lp -> held[x] - w
                      [] x \in PairAssets -> held[x] + w
                      [] OTHER -> held[x]]
      /\ UNCHANGED <<lsd, totalLp, unsold>>
  BY <1>4 DEF RunWithdrawLiquidity
<1>6. /\ held \in [Assets -> Nat] /\ LW!IInv /\ unsold \subseteq Goods
      /\ lastIndexModification \in Nat /\ totalLp \in Nat
      /\ lsd \in [Accounts -> Nat]
      /\ s.held \in [Assets -> Nat]
  BY <1>1, <1>3, AccountTypes, SmallFacts, SavedTypes
<1>7. stack' = <<Reply>> /\ stack' # << >> /\ saved' = saved
  <2>1. Continue(<< >>)
    BY <1>5, Zenon
  <2> QED
    BY <1>3, <2>1
<1>8. GoesOnOrEnds /\ ~Idle'
  BY <1>7 DEF GoesOnOrEnds, Idle
<1>9. LW!IInv'
  BY <1>5, <1>6, KeepLimit DEF tokenVars
<1>10. /\ held'[Lp] = held[Lp] - w /\ held'[Lp] \in Nat
       /\ \A x \in PairAssets : held'[x] = held[x] + w
       /\ \A x \in Assets \ (PairAssets \cup {Lp}) : held'[x] = held[x]
       /\ held' \in [Assets -> Nat]
  <2>1. ASSUME NEW x \in Assets
        PROVE  /\ held'[x] = CASE x = Lp -> held[x] - w
                               [] x \in PairAssets -> held[x] + w
                               [] OTHER -> held[x]
               /\ held[x] \in Nat
    BY <1>5, <1>6
  <2>2. /\ held'[Lp] = held[Lp] - w /\ held'[Lp] \in Nat
    BY <1>5, <2>1, AssetKinds
  <2>3. ASSUME NEW x \in PairAssets
        PROVE  held'[x] = held[x] + w /\ held'[x] \in Nat
    <3>1. x \in Assets /\ x # Lp
      BY AssetKinds
    <3> QED
      BY <2>1, <3>1
  <2>4. ASSUME NEW x \in Assets \ (PairAssets \cup {Lp})
        PROVE  held'[x] = held[x] /\ held'[x] \in Nat
    BY <2>1
  <2>5. \A x \in Assets : held'[x] \in Nat
    BY <2>2, <2>3, <2>4
  <2>6. DOMAIN held' = Assets /\ held' = [x \in Assets |-> held'[x]]
    BY <1>5
  <2>7. held' \in [Assets -> Nat]
    BY <2>5, <2>6, Zenon
  <2> QED
    BY <2>2, <2>3, <2>4, <2>7
<1>11. Typed'
  BY <1>3, <1>5, <1>6, <1>8, <1>9, <1>10, TxTypes
<1>12. Retrieved(s)'
  BY <1>2, <1>5, WorthUnchanged DEF tokenVars
<1>13. Ready(s, w)'
  <2>1. /\ \A x : Before(s, x, w)' = Before(s, x, w)
        /\ Withdrawable(s)' = Withdrawable(s) /\ Freed(s)' = Freed(s)
    BY <1>5 DEF Before, Harvested, Freed, Spent, Shares, Withdrawable
  <2>2. held'[Stable] = PotBefore(s, w)
    <3>1. Stable \in Assets \ {Lp} /\ held[Stable] = s.held[Stable]
      BY <1>2, AssetKinds
    <3> QED
      BY <1>6, <1>10, <3>1 DEF PotBefore
  <2>3. ASSUME NEW x \in Goods \ {Stable}
        PROVE  Held(x)' = Before(s, x, w)
    <3> HIDE DEF Harvested, Freed, Spent
    <3>1. CASE x = Lsd
      BY <1>2, <1>5, <3>1, AssetKinds DEF Held, Before
    <3>2. CASE x = Lp
      <4>1. Held(x)' = held[Lp] - w
        BY <1>10, <3>2, AssetKinds DEF Held
      <4>2. Before(s, x, w) = s.held[Lp] + Freed(s) - w
        BY <3>2, AssetKinds DEF Before
      <4>3. s.held[Lp] \in Nat /\ Freed(s) \in Int
        BY <1>1, <1>2, <1>3, <1>6, AssetKinds, BeforeTypes DEF Retrieved
      <4> QED
        BY <1>2, <4>1, <4>2, <4>3
    <3>3. CASE x \in PairAssets
      <4>1. held'[x] = s.held[x] + w
        BY <1>2, <1>10, <3>3, AssetKinds
      <4> QED
        BY <3>3, <4>1, AssetKinds DEF Held, Before
    <3>4. CASE x \notin PairAssets \cup {Lp, Lsd}
      <4>1. x \in Assets /\ held'[x] = s.held[x]
        BY <1>2, <1>10, <3>4, AssetKinds
      <4> QED
        BY <3>4, <4>1 DEF Held, Before
    <3> QED
      BY <3>1, <3>2, <3>3, <3>4
  <2>4. lsd'[Market] = s.lsd[Market]
    BY <1>2, <1>5
  <2> QED
    BY <1>2, <2>1, <2>2, <2>3, <2>4 DEF Ready, PotBefore
<1>14. Retrieved(saved)' /\ Ready(saved, w)'
  BY <1>1, <1>7, <1>12, <1>13
  DEF Retrieved, VaultHarvested, TakenApart, WorthAt, Ready, Withdrawable,
      PotBefore, Before, Freed, Spent, Harvested
<1> QED
  BY <1>7, <1>8, <1>11, <1>14 DEF AtReply

(* The reply sells.                                                        *)
LEMMA ReplyFacts ==
  ASSUME Typed, AtReply, RunReply(Head(stack)),
         UNCHANGED <<tokenVars, now, limitVars, hubConfig, rewardConfigs,
                     lastIndexModification>>,
         NEW CONSTANT s, s = saved
  PROVE  /\ Typed' /\ GoesOnOrEnds
         /\ Sales(stack)' /\ AllOnSale(stack)' /\ Len(stack') <= Len(Listed)
         /\ Retrieved(s)' /\ Selling(s)'
<1>1. stack = <<Reply>> /\ Retrieved(s) /\ \E w \in Nat : Ready(s, w)
  BY DEF AtReply
<1>2. ~Idle /\ Tail(stack) = << >>
  BY <1>1 DEF Idle
<1>3. SellOffers /\ totalLp' = totalLp
  BY DEF RunReply
<1> QED
  BY <1>1, <1>2, <1>3, SellingFacts

(* A sale of the LSD moves all of it to the market.                        *)
LEMMA SaleMoves ==
  ASSUME Typed, ~Idle, Sales(stack), RunSell(Head(stack)), totalLp' = totalLp,
         UNCHANGED supply, NEW CONSTANT s, Retrieved(s)
  PROVE  /\ lsd'[Wrapper] = lsd[Wrapper] /\ Shares' = Shares
         /\ Retrieved(s)'
<1> DEFINE m == Head(stack)
<1>1. m \in SaleMessages /\ m.amount = Held(m.asset)
  <2>1. stack \in Seq(SaleMessages) /\ Len(stack) > 0
    BY DEF Sales, Idle
  <2>2. m = stack[1] /\ 1 \in DOMAIN stack
    BY <2>1
  <2> QED
    BY <2>1, <2>2 DEF Sales
<1>2. m.asset \in Goods \ {Stable} /\ m.amount \in Nat
  BY <1>1 DEF SaleMessages
<1>3. PICK x, n : x = m.asset /\ n = m.amount
  OBVIOUS
<1>4. PICK paid \in Quotes : Exchange(x, n, paid)
  BY <1>3 DEF RunSell
<1>5. CASE x # Lsd
  <2>1. UNCHANGED <<lsd, totalLp, supply>>
    BY <1>4, <1>5 DEF Exchange
  <2>2. Shares' = Shares /\ (Retrieved(s)' <=> Retrieved(s))
    BY <2>1, WorthUnchanged
  <2> QED
    BY <2>1, <2>2
<1>6. CASE x = Lsd
  <2>1. n = lsd[Reward] /\ n \in Nat /\ n <= n
    BY <1>1, <1>2, <1>3, <1>6 DEF Held
  <2>2. lsd' = [[lsd EXCEPT ![Reward] = @ - n] EXCEPT ![Market] = @ + n]
    <3>1. lsd' = [lsd EXCEPT ![Reward] = @ - n, ![Market] = @ + n]
      BY <1>4, <1>6 DEF Exchange
    <3>2. lsd \in [Accounts -> Nat] /\ Reward # Market
      BY AccountTypes, Parties
    <3> QED
      BY <3>1, <3>2
  <2>3. /\ Reward \in Accounts /\ Market \in Accounts /\ Wrapper \in Accounts
        /\ Reward # Market /\ Wrapper \notin {Reward, Market}
    BY Parties
  <2>4. /\ Shares' = Shares /\ Rate' = Rate
        /\ lsd'[Reward] = lsd[Reward] - n
        /\ \A a \in Accounts \ {Reward, Market} : lsd'[a] = lsd[a]
    BY <2>1, <2>2, <2>3, MoveKeepsRate
  <2>5. lsd'[Wrapper] = lsd[Wrapper]
    BY <2>3, <2>4
  <2>6. VaultHarvested(s)' /\ TakenApart(s)'
    <3>1. VaultHarvested(s)'
      BY <2>4, <2>5 DEF Retrieved, VaultHarvested, StillCovered
    <3>2. TakenApart(s)'
      BY <2>4, <2>5
      DEF Retrieved, TakenApart, Freed, Spent, WorthAt, Harvested
    <3> QED
      BY <3>1, <3>2
  <2>7. OnlyDust'
    <3>1. lsd'[Reward] = 0
      BY <2>1, <2>4
    <3>2. (LpFor(lsd[Reward]))' = LpFor(0)
      BY <2>4, <3>1 DEF LpFor
    <3> QED
      BY <3>2, RetrievalBounds DEF OnlyDust
  <2> QED
    BY <2>4, <2>5, <2>6, <2>7 DEF Retrieved
<1> QED
  BY <1>5, <1>6

(* A sale empties what it sells, and leaves the vault and the others.      *)
LEMMA SaleFacts ==
  ASSUME Typed, ~Idle, AtSales, RunSell(Head(stack)),
         UNCHANGED <<tokenVars, now, limitVars, totalLp, hubConfig,
                     rewardConfigs, lastIndexModification>>,
         NEW CONSTANT s, s = saved
  PROVE  /\ Typed' /\ GoesOnOrEnds
         /\ Sales(stack)' /\ AllOnSale(stack)' /\ Len(stack') < Len(stack)
         /\ Retrieved(s)' /\ Selling(s)'
<1>1. /\ Sales(stack) /\ AllOnSale(stack) /\ Retrieved(s) /\ Selling(s)
  BY DEF AtSales
<1>2. /\ held \in [Assets -> Nat] /\ LW!IInv /\ unsold \subseteq Goods
      /\ lastIndexModification \in Nat /\ totalLp \in Nat
      /\ RewardTypeOK /\ Distinct /\ lsd \in [Accounts -> Nat]
      /\ {Reward, Market} \subseteq Accounts /\ Stable \in Assets
      /\ Lsd \in Goods \ {Stable}
  BY AccountTypes, SmallFacts, Parties, AssetKinds
<1>3. /\ Sales(stack)' /\ AllOnSale(stack)'
      /\ saved' = IF stack' = << >> THEN None ELSE saved
      /\ unsold' = unsold /\ Len(stack') < Len(stack)
      /\ held' \in [Assets -> Nat] /\ lsd' \in [Accounts -> Nat]
      /\ lsd'[Market] = lsd[Market] + (lsd[Reward] - lsd'[Reward])
      /\ held'[Stable] >= held[Stable]
      /\ Head(stack).first => held'[Stable] > held[Stable]
      /\ \E x \in Goods \ {Stable} :
           /\ Held(x) > 0
           /\ \A y \in Goods \ {Stable} :
                Held(y)' = IF y = x THEN 0 ELSE Held(y)
  <2>1. UNCHANGED rewardConfigs /\ stack # << >>
    BY DEF Idle
  <2> QED
    BY <1>1, <1>2, <2>1, FiniteAccounts, RunSellFacts
<1>4. GoesOnOrEnds
  BY <1>3 DEF GoesOnOrEnds
<1>5. LW!IInv'
  BY <1>2, <1>3, KeepLimit DEF tokenVars
<1>6. Typed'
  BY <1>2, <1>3, <1>4, <1>5, TxTypes
<1>7. lsd'[Wrapper] = lsd[Wrapper] /\ Shares' = Shares /\ Retrieved(s)'
  BY <1>1, SaleMoves DEF tokenVars
<1>8. PICK w \in Nat : SoldOrKept(s, w) /\ FirstSaleFirst(s, w)
  BY <1>1 DEF Selling
<1>9. /\ Before(s, Lsd, w) \in Nat /\ PotBefore(s, w) \in Nat
      /\ s.lsd[Market] \in Nat /\ lsd[Market] \in Nat
      /\ \A y \in Goods \ {Stable} : Before(s, y, w) \in Int
  BY <1>1, BeforeTypes DEF Retrieved
<1>10. held'[Stable] > PotBefore(s, w)
  <2>1. held[Stable] \in Nat /\ held'[Stable] \in Nat
    BY <1>2, <1>3
  <2>2. Head(stack) = stack[1] /\ stack # << >>
    BY DEF Idle
  <2>3. held[Stable] >= PotBefore(s, w)
    BY <1>8 DEF SoldOrKept
  <2> QED
    BY <1>3, <1>8, <1>9, <2>1, <2>2, <2>3 DEF FirstSaleFirst
<1>11. /\ \A y : Before(s, y, w)' = Before(s, y, w)
       /\ PotBefore(s, w)' = PotBefore(s, w)
       /\ Withdrawable(s)' = Withdrawable(s)
  BY <1>7 DEF Before, PotBefore, Withdrawable, Freed, Spent, Harvested
<1>12. SoldOrKept(s, w)'
  <2>1. \A y \in Goods : Held(y) \in Nat
    BY <1>2, HeldNat
  <2>2. PICK x \in Goods \ {Stable} :
          /\ Held(x) > 0
          /\ \A y \in Goods \ {Stable} :
               Held(y)' = IF y = x THEN 0 ELSE Held(y)
    BY <1>3
  <2>3. \A y \in Goods \ {Stable} : Held(y)' \in {0, Before(s, y, w)}
    BY <1>8, <2>2 DEF SoldOrKept
  <2>4. Held(x)' < Before(s, x, w)
    BY <1>8, <2>1, <2>2 DEF SoldOrKept
  <2>5. lsd'[Market] = s.lsd[Market] + (Before(s, Lsd, w) - lsd'[Reward])
    <3>1. lsd[Market] = s.lsd[Market] + (Before(s, Lsd, w) - lsd[Reward])
      BY <1>8 DEF SoldOrKept
    <3>2. lsd[Reward] \in Nat /\ lsd'[Reward] \in Nat
      BY <1>2, <1>3
    <3>3. PICK m, b, r, q \in Nat :
            m = s.lsd[Market] /\ b = Before(s, Lsd, w) /\ r = lsd[Reward]
            /\ q = lsd'[Reward]
      BY <1>9, <3>2
    <3>4. lsd[Market] = m + (b - r)
      BY <3>1, <3>3
    <3>5. lsd'[Market] = lsd[Market] + (r - q)
      BY <1>3, <3>3
    <3>6. lsd'[Market] = m + (b - q)
      BY <3>4, <3>5
    <3> QED
      BY <3>3, <3>6
  <2>6. held'[Stable] >= PotBefore(s, w)
    <3>1. held'[Stable] \in Nat
      BY <1>2, <1>3
    <3> QED
      BY <1>9, <1>10, <3>1
  <2>7. w \in Withdrawable(s)
    BY <1>8 DEF SoldOrKept
  <2> QED
    BY <1>10, <1>11, <2>3, <2>4, <2>5, <2>6, <2>7 DEF SoldOrKept
<1>13. FirstSaleFirst(s, w)'
  BY <1>10, <1>11 DEF FirstSaleFirst
<1> QED
  BY <1>3, <1>4, <1>6, <1>7, <1>12, <1>13 DEF Selling

(* A rejection undoes everything, and the limit is as it was.              *)
LEMMA AbortFacts ==
  ASSUME Typed, ~Idle, Abort, UNCHANGED <<tokenVars, now, hubConfig, rewardConfigs>>
  PROVE  /\ Typed' /\ GoesOnOrEnds /\ Idle'
         /\ lsd' = saved.lsd /\ held' = saved.held /\ totalLp' = saved.totalLp
<1>1. /\ stack' = << >> /\ saved' = None /\ unsold' = unsold
      /\ lsd' = saved.lsd /\ held' = saved.held /\ totalLp' = saved.totalLp
      /\ lastIndexModification' = saved.index
  BY DEF Abort, Undo
<1>2. /\ lsd' \in [Accounts -> Nat] /\ held' \in [Assets -> Nat]
      /\ totalLp' \in Nat /\ lastIndexModification' \in Nat
      /\ SavedLimit(saved)
      /\ saved.limit \in Limits \X Nat \X Nat \X Nat \X Nat
      /\ LW!IInv /\ unsold' \subseteq Goods
  BY <1>1, AccountTypes, SavedTypes, SmallFacts
<1>3. /\ maxRatio' = saved.limit[1] /\ ratioSum' = saved.limit[2]
      /\ totalSeconds' = saved.limit[3] /\ lastDecompound' = saved.limit[4]
      /\ startTime' = saved.limit[5]
  BY DEF Abort
<1>4. /\ maxRatio' \in Limits /\ ratioSum' \in Nat /\ totalSeconds' \in Nat
      /\ lastDecompound' \in Nat /\ startTime' \in Nat
  BY <1>2, <1>3
<1>5. LW!TypeOK'
  <2>1. LW!TokenTypeOK'
    BY <1>2, TokenTypes DEF LW!IInv, LW!TypeOK, tokenVars
  <2>2. now' \in Nat /\ startTime' <= lastDecompound' /\ lastDecompound' <= now'
    BY <1>2, <1>3 DEF SavedLimit, LW!IInv, LW!TypeOK
  <2> QED
    BY <1>4, <2>1, <2>2 DEF LW!TypeOK
<1>6. LW!ClockExact'
  BY <1>2, <1>3 DEF SavedLimit, LW!ClockExact, W!Seconds, LW!Seconds
<1>7. LW!CapInv'
  BY <1>2, <1>3 DEF SavedLimit, LW!CapInv, W!CapAfter, LW!CapAfter,
                    W!Prod, LW!Prod, W!FromRatio, LW!FromRatio
<1>8. GoesOnOrEnds /\ Idle'
  BY <1>1 DEF GoesOnOrEnds, Idle
<1>9. Typed'
  BY <1>2, <1>5, <1>6, <1>7, <1>8, TxTypes DEF LW!IInv
<1> QED
  BY <1>1, <1>8, <1>9

(* Each stage waits for a message of its own.                              *)
LEMMA HeadOfStage ==
  ~Idle => /\ AtUpdate => Head(stack).op = "Decompound"
           /\ AtTransfer => Head(stack).op = "TransferLsd"
           /\ AtSwap => Head(stack).op = "SwapToRewardDenom"
           /\ AtUnbond => Head(stack).op = "Unbond"
           /\ AtWithdraw => Head(stack).op = "WithdrawLiquidity"
           /\ AtReply => Head(stack).op = "Reply"
           /\ AtSales => Head(stack).op = "Sell"
<1> SUFFICES ASSUME ~Idle
             PROVE  /\ AtUpdate => Head(stack).op = "Decompound"
                    /\ AtTransfer => Head(stack).op = "TransferLsd"
                    /\ AtSwap => Head(stack).op = "SwapToRewardDenom"
                    /\ AtUnbond => Head(stack).op = "Unbond"
                    /\ AtWithdraw => Head(stack).op = "WithdrawLiquidity"
                    /\ AtReply => Head(stack).op = "Reply"
                    /\ AtSales => Head(stack).op = "Sell"
  OBVIOUS
<1>1. AtUpdate => Head(stack).op = "Decompound"
  BY DEF AtUpdate, UpdateMessages, Decompound
<1>2. AtTransfer => Head(stack).op = "TransferLsd"
  BY DEF AtTransfer, TransferLsd
<1>3. AtSwap => Head(stack).op = "SwapToRewardDenom"
  BY DEF AtSwap, SwapToRewardDenom
<1>4. AtUnbond => Head(stack).op = "Unbond"
  BY DEF AtUnbond, Unbond
<1>5. AtWithdraw => Head(stack).op = "WithdrawLiquidity"
  BY DEF AtWithdraw, WithdrawLiquidity
<1>6. AtReply => Head(stack).op = "Reply"
  BY DEF AtReply, Reply
<1>7. AtSales => Head(stack).op = "Sell"
  <2> SUFFICES ASSUME AtSales PROVE Head(stack).op = "Sell"
    OBVIOUS
  <2>1. stack \in Seq(SaleMessages) /\ stack # << >>
    BY DEF AtSales, Sales, Idle
  <2>2. Head(stack) \in SaleMessages
    BY <2>1
  <2> QED
    BY <2>2 DEF SaleMessages
<1> QED
  BY <1>1, <1>2, <1>3, <1>4, <1>5, <1>6, <1>7

(* How many messages a transaction may still execute: the sales that are   *)
(* queued, or the stages to come and then as many sales as there are       *)
(* tokens to sell.                                                         *)
StagesLeft(op) ==
  CASE op = "Decompound" -> 6
    [] op = "TransferLsd" -> 5
    [] op = "SwapToRewardDenom" -> 4
    [] op = "Unbond" -> 3
    [] op = "WithdrawLiquidity" -> 2
    [] OTHER -> 1

StepsLeft ==
  IF Idle THEN 0
  ELSE IF Head(stack).op = "Sell" THEN Len(stack)
  ELSE Len(Listed) + StagesLeft(Head(stack).op)

StepsKnown ==
  /\ Len(Listed) \in Nat
  /\ Idle => StepsLeft = 0
  /\ Sales(stack) => StepsLeft = Len(stack) /\ Len(stack) \in Nat
  /\ ~Idle => /\ AtUpdate => StepsLeft = Len(Listed) + 6
              /\ AtTransfer => StepsLeft = Len(Listed) + 5
              /\ AtSwap => StepsLeft = Len(Listed) + 4
              /\ AtUnbond => StepsLeft = Len(Listed) + 3
              /\ AtWithdraw => StepsLeft = Len(Listed) + 2
              /\ AtReply => StepsLeft = Len(Listed) + 1
              /\ AtSales => StepsLeft > 0

LEMMA StepsLeftAt == Typed => StepsKnown
<1> SUFFICES ASSUME Typed PROVE StepsKnown
  OBVIOUS
<1>1. Len(Listed) \in Nat
  <2>1. Listed \in Seq(Goods)
    BY AccountTypes, ListedFacts
  <2> QED
    BY <2>1
<1>2. Idle => StepsLeft = 0
  BY DEF StepsLeft
<1>3. ASSUME Sales(stack)
      PROVE  /\ StepsLeft = Len(stack) /\ Len(stack) \in Nat
             /\ ~Idle => StepsLeft > 0
  <2>1. stack \in Seq(SaleMessages)
    BY <1>3 DEF Sales
  <2>2. CASE Idle
    BY <1>2, <2>2 DEF Idle
  <2>3. CASE ~Idle
    <3>1. Head(stack) \in SaleMessages /\ Len(stack) \in Nat /\ Len(stack) > 0
      BY <2>1, <2>3 DEF Idle
    <3>2. Head(stack).op = "Sell"
      BY <3>1 DEF SaleMessages
    <3> QED
      BY <2>3, <3>1, <3>2 DEF StepsLeft
  <2> QED
    BY <2>2, <2>3
<1>4. ASSUME ~Idle, Head(stack).op # "Sell"
      PROVE  StepsLeft = Len(Listed) + StagesLeft(Head(stack).op)
  BY <1>4 DEF StepsLeft
<1>5. CASE ~Idle
  <2>1. /\ AtUpdate => StepsLeft = Len(Listed) + StagesLeft("Decompound")
        /\ AtTransfer => StepsLeft = Len(Listed) + StagesLeft("TransferLsd")
        /\ AtSwap => StepsLeft = Len(Listed) + StagesLeft("SwapToRewardDenom")
        /\ AtUnbond => StepsLeft = Len(Listed) + StagesLeft("Unbond")
        /\ AtWithdraw => StepsLeft = Len(Listed) + StagesLeft("WithdrawLiquidity")
        /\ AtReply => StepsLeft = Len(Listed) + StagesLeft("Reply")
    BY <1>4, <1>5, HeadOfStage
  <2>2. /\ StagesLeft("Decompound") = 6 /\ StagesLeft("TransferLsd") = 5
        /\ StagesLeft("SwapToRewardDenom") = 4 /\ StagesLeft("Unbond") = 3
        /\ StagesLeft("WithdrawLiquidity") = 2 /\ StagesLeft("Reply") = 1
    BY DEF StagesLeft
  <2>3. AtSales => StepsLeft > 0
    BY <1>3, <1>5 DEF AtSales
  <2> QED
    BY <1>1, <1>2, <1>3, <2>1, <2>2, <2>3 DEF StepsKnown
<1> QED
  BY <1>1, <1>2, <1>3, <1>5 DEF StepsKnown

LEMMA StepsLeftThen == (Typed => StepsKnown)'
BY StepsLeftAt, PTL


(* What a transaction has done when it ends, seen from where it began: it  *)
(* was undone, or the vault has been harvested, what LSD there was has     *)
(* been taken apart, all that could be sold has been, and nothing was      *)
(* lost.                                                                   *)
Undone(s) == lsd = s.lsd /\ held = s.held /\ totalLp = s.totalLp
Done(s) == Retrieved(s) /\ Selling(s) /\ AllOnSale(stack)

(* The invariant holds while sales are queued, and when the last is done.  *)
LEMMA LastStageFacts ==
  ASSUME Typed', GoesOnOrEnds, Sales(stack)', AllOnSale(stack)',
         NEW CONSTANT s, s = saved,
         Retrieved(s)', Selling(s)'
  PROVE  Inv' /\ Done(s)' /\ (Idle \/ AtSales)'
<1>1. ~Idle' => saved' = s
  BY DEF GoesOnOrEnds, Idle
<1>2. ~Idle' => AtSales'
  BY <1>1
  DEF AtSales, Retrieved, VaultHarvested, StillCovered, TakenApart, WorthAt, Selling,
      SoldOrKept, FirstSaleFirst, Withdrawable, PotBefore, Before, Freed, Spent,
      Harvested
<1>3. Done(s)'
  BY DEF Done
<1> QED
  BY <1>2, <1>3 DEF Inv, Stage

(* The reward contract takes the transaction from its third stage to its   *)
(* last, and ends it.                                                      *)
LEMMA RewardFacts ==
  ASSUME Typed, Stage, ~Idle, RunReward(Head(stack)),
         UNCHANGED <<tokenVars, now, hubConfig, rewardConfigs,
                     lastIndexModification>>,
         NEW CONSTANT s, s = saved
  PROVE  /\ Inv' /\ GoesOnOrEnds /\ StepsLeft' < StepsLeft
         /\ Idle' => Done(s)'
         /\ (Idle \/ AtUnbond \/ AtWithdraw \/ AtReply \/ AtSales)'
<1>0. UNCHANGED limitVars
  BY DEF RunReward
<1> USE StepsLeftAt, StepsLeftThen DEF StepsKnown
<1>6. Listed' = Listed
  BY DEF Listed, rewardConfigs
<1>1. CASE RunRetrieve(Head(stack))
  <2>1. Head(stack).op = "SwapToRewardDenom"
    BY <1>1 DEF RunRetrieve
  <2>2. AtSwap
    BY <2>1, HeadOfStage DEF Stage
  <2>3. /\ Typed' /\ GoesOnOrEnds
        /\ \/ ~Idle' /\ AtUnbond'
           \/ /\ Sales(stack)' /\ AllOnSale(stack)' /\ Len(stack') <= Len(Listed)
              /\ Retrieved(s)' /\ Selling(s)'
    BY <1>0, <1>1, <2>2, SwapFacts
  <2>4. StepsLeft' < StepsLeft
    BY <1>6, <2>2, <2>3
  <2> QED
    BY <2>3, <2>4, LastStageFacts DEF Inv, Stage
<1>2. CASE RunUnbond(Head(stack))
  <2>1. Head(stack).op = "Unbond"
    BY <1>2 DEF RunUnbond
  <2>2. AtUnbond
    BY <2>1, HeadOfStage DEF Stage
  <2>3. Typed' /\ GoesOnOrEnds /\ ~Idle' /\ AtWithdraw'
    BY <1>0, <1>2, <2>2, UnbondFacts
  <2>4. StepsLeft' < StepsLeft
    BY <1>6, <2>2, <2>3
  <2> QED
    BY <2>3, <2>4 DEF Inv, Stage
<1>3. CASE RunWithdrawLiquidity(Head(stack))
  <2>1. Head(stack).op = "WithdrawLiquidity"
    BY <1>3 DEF RunWithdrawLiquidity
  <2>2. AtWithdraw
    BY <2>1, HeadOfStage DEF Stage
  <2>3. Typed' /\ GoesOnOrEnds /\ ~Idle' /\ AtReply'
    BY <1>0, <1>3, <2>2, WithdrawFacts
  <2>4. StepsLeft' < StepsLeft
    BY <1>6, <2>2, <2>3
  <2> QED
    BY <2>3, <2>4 DEF Inv, Stage
<1>4. CASE RunReply(Head(stack))
  <2>1. Head(stack).op = "Reply"
    BY <1>4 DEF RunReply
  <2>2. AtReply
    BY <2>1, HeadOfStage DEF Stage
  <2>3. /\ Typed' /\ GoesOnOrEnds /\ Sales(stack)' /\ AllOnSale(stack)'
        /\ Retrieved(s)' /\ Selling(s)'
        /\ Len(stack') <= Len(Listed)
    BY <1>0, <1>4, <2>2, ReplyFacts
  <2>4. StepsLeft' < StepsLeft
    BY <1>6, <2>2, <2>3
  <2> QED
    BY <2>3, <2>4, LastStageFacts
<1>5. CASE RunSell(Head(stack)) /\ UNCHANGED totalLp
  <2>1. Head(stack).op = "Sell"
    BY <1>5 DEF RunSell
  <2>2. AtSales
    BY <2>1, HeadOfStage DEF Stage
  <2>3. /\ Typed' /\ GoesOnOrEnds /\ Sales(stack)' /\ AllOnSale(stack)'
        /\ Retrieved(s)' /\ Selling(s)'
        /\ Len(stack') < Len(stack)
    BY <1>0, <1>5, <2>2, SaleFacts
  <2>4. StepsLeft' < StepsLeft
    BY <2>2, <2>3 DEF AtSales
  <2> QED
    BY <2>3, <2>4, LastStageFacts
<1> QED
  BY <1>1, <1>2, <1>3, <1>4, <1>5 DEF RunReward

LEMMA TxStepFacts ==
  ASSUME Inv, TxStep, NEW CONSTANT s, s = saved
  PROVE  /\ Inv' /\ GoesOnOrEnds /\ StepsLeft' < StepsLeft /\ Listed' = Listed
         /\ Idle' => Undone(s)' \/ Done(s)'
         /\ Idle' /\ ~Abort => Done(s)'
<1>0. UNCHANGED <<tokenVars, now, hubConfig, rewardConfigs>> /\ Typed /\ Stage /\ ~Idle
  BY DEF TxStep, configVars, Inv
<1> USE StepsLeftAt, StepsLeftThen DEF StepsKnown
<1>6. Listed' = Listed
  BY <1>0 DEF Listed, rewardConfigs
<1>1. CASE Abort
  <2>1. Typed' /\ GoesOnOrEnds /\ Idle' /\ Undone(s)'
    BY <1>0, <1>1, AbortFacts DEF Undone
  <2>2. StepsLeft' < StepsLeft
    BY <1>0, <2>1 DEF Stage, AtSales
  <2> QED
    BY <1>1, <1>6, <2>1, <2>2 DEF Inv
<1>2. CASE RunDecompound(Head(stack)) /\ UNCHANGED lastIndexModification
  <2>1. Head(stack).op = "Decompound"
    BY <1>2 DEF RunDecompound
  <2>2. AtUpdate
    BY <1>0, <2>1, HeadOfStage DEF Stage
  <2>3. Typed' /\ GoesOnOrEnds /\ ~Idle' /\ (AtTransfer \/ AtSwap)'
    BY <1>0, <1>2, <2>2, DecompoundFacts
  <2>4. StepsLeft' < StepsLeft
    BY <1>0, <1>6, <2>2, <2>3
  <2> QED
    BY <1>6, <2>3, <2>4 DEF Inv, Stage
<1>3. CASE RunTransferLsd(Head(stack)) /\ UNCHANGED lastIndexModification
  <2>1. Head(stack).op = "TransferLsd"
    BY <1>3 DEF RunTransferLsd
  <2>2. AtTransfer
    BY <1>0, <2>1, HeadOfStage DEF Stage
  <2>3. Typed' /\ GoesOnOrEnds /\ ~Idle' /\ AtSwap'
    BY <1>0, <1>3, <2>2, TransferFacts
  <2>4. StepsLeft' < StepsLeft
    BY <1>0, <1>6, <2>2, <2>3
  <2> QED
    BY <1>6, <2>3, <2>4 DEF Inv, Stage
<1>4. CASE RunReward(Head(stack)) /\ UNCHANGED lastIndexModification
  BY <1>0, <1>4, <1>6, RewardFacts
<1>5. \/ Run(Head(stack)) /\ UNCHANGED lastIndexModification
      \/ Abort
  BY DEF TxStep
<1> QED
  BY <1>1, <1>2, <1>3, <1>4, <1>5 DEF Run

-----------------------------------------------------------------------------
(* What begins a transaction, and transactions of one handler.             *)

LEMMA LimitTypes ==
  ASSUME LW!IInv
  PROVE  /\ limitVars \in Limits \X Nat \X Nat \X Nat \X Nat
         /\ startTime <= lastDecompound /\ lastDecompound <= now
         /\ totalSeconds = W!Seconds(lastDecompound) - W!Seconds(startTime)
         /\ maxRatio # NoLimit => ratioSum <= W!CapAfter(maxRatio, totalSeconds)
<1>1. /\ maxRatio \in Limits /\ ratioSum \in Nat /\ totalSeconds \in Nat
      /\ lastDecompound \in Nat /\ startTime \in Nat
      /\ startTime <= lastDecompound /\ lastDecompound <= now
  BY DEF LW!IInv, LW!TypeOK
<1>2. totalSeconds = W!Seconds(lastDecompound) - W!Seconds(startTime)
  BY DEF LW!IInv, LW!ClockExact, W!Seconds, LW!Seconds
<1>3. maxRatio # NoLimit => ratioSum <= W!CapAfter(maxRatio, totalSeconds)
  BY DEF LW!IInv, LW!CapInv, W!CapAfter, LW!CapAfter, W!Prod, LW!Prod,
         W!FromRatio, LW!FromRatio
<1> QED
  BY <1>1, <1>2, <1>3 DEF limitVars

LEMMA BeginFacts ==
  ASSUME Typed, BeginUpdate
  PROVE  /\ Inv' /\ ~Idle' /\ AtUpdate' /\ UNCHANGED <<lsd, held, totalLp, supply>>
         /\ saved'.lsd = lsd /\ saved'.held = held /\ saved'.totalLp = totalLp
<1>1. /\ Idle /\ saved' = Snapshot /\ stack' = UpdateMessages
      /\ hubConfig.reward # None
      /\ UNCHANGED <<bal, supply, allowance, now, limitVars, lsd, totalLp, held,
                     hubConfig, rewardConfigs>>
      /\ lastIndexModification' = W!Seconds(now) /\ unsold' = {}
  BY DEF BeginUpdate, UpdateGlobalIndex, RecordIndex, Begin, tokenVars
<1>2. /\ lsd \in [Accounts -> Nat] /\ held \in [Assets -> Nat] /\ totalLp \in Nat
      /\ LW!IInv /\ HubTypeOK /\ RewardTypeOK /\ Distinct
      /\ hubConfig.reward \in {Reward, None}
  BY AccountTypes, SmallFacts
<1>3. Snapshot \in Snapshots /\ SavedLimit(Snapshot)
  <2>1. lastIndexModification \in Nat
    BY SmallFacts
  <2>2. Snapshot \in Snapshots
    BY <1>2, <2>1, LimitTypes DEF Snapshot, Snapshots
  <2>3. /\ Snapshot.limit[1] = maxRatio /\ Snapshot.limit[2] = ratioSum
        /\ Snapshot.limit[3] = totalSeconds /\ Snapshot.limit[4] = lastDecompound
        /\ Snapshot.limit[5] = startTime
    BY DEF Snapshot, limitVars
  <2> QED
    BY <1>2, <2>2, <2>3, LimitTypes DEF SavedLimit
<1>4. /\ Snapshot # None /\ Snapshot.lsd = lsd /\ Snapshot.held = held
      /\ Snapshot.totalLp = totalLp
  BY <1>3, LimitedUpdateAssumption DEF Snapshot
<1>5. stack' # << >>
  BY <1>1 DEF UpdateMessages
<1>6. LW!IInv'
  BY <1>1, <1>2, KeepLimit
<1>7. W!TypeOK'
  <2>1. (W!TypeOK <=> LW!TypeOK)'
    BY TypesAgree, PTL
  <2> QED
    BY <1>6, <2>1 DEF LW!IInv
<1>8. HubTypeOK' /\ RewardTypeOK' /\ Distinct'
  <2>1. now \in Nat
    BY <1>2 DEF LW!IInv, LW!TypeOK
  <2>2. W!Seconds(now) \in Nat
    BY <2>1, SecondsMonotonic
  <2> QED
    BY <1>1, <1>2, <2>2 DEF HubTypeOK, RewardTypeOK, Distinct, rewardConfigs
<1>9. SavedLimit(saved)'
  BY <1>1, <1>3 DEF SavedLimit, W!Seconds, W!CapAfter
<1>10. Typed'
  BY <1>1, <1>2, <1>3, <1>4, <1>5, <1>6, <1>7, <1>8, <1>9 DEF Typed, TypeOK, Idle
<1>11. AtUpdate'
  BY <1>1, <1>2, <1>4 DEF AtUpdate, UpdateMessages, Untouched
<1> QED
  BY <1>1, <1>4, <1>5, <1>10, <1>11 DEF Inv, Stage, Idle

(* Between transactions only the types and the limit are at stake.         *)
LEMMA IdleInv ==
  ASSUME Typed, Idle, UNCHANGED <<stack, saved>>, LW!IInv', totalLp' \in Nat,
         HubTypeOK', RewardTypeOK', Distinct', hubConfig'.reward \in {Reward, None}
  PROVE  Inv' /\ Idle'
<1>1. W!TypeOK'
  <2>1. (W!TypeOK <=> LW!TypeOK)'
    BY TypesAgree, PTL
  <2> QED
    BY <2>1 DEF LW!IInv
<1> QED
  BY <1>1 DEF Inv, Typed, TypeOK, Idle

(* The steps of the wrapper's users and of the clock are steps of          *)
(* LsdWrapperLimit.                                                        *)
LEMMA WrapperStepIsNext ==
  ASSUME WrapperStep
  PROVE  LW!Next
<1>0. /\ W!WrapperRate = LW!WrapperRate /\ W!limitVars = LW!limitVars
      /\ W!limitVars = limitVars
  BY DEF W!WrapperRate, LW!WrapperRate, W!FromRatio, LW!FromRatio,
         W!limitVars, LW!limitVars, limitVars
<1>1. ASSUME NEW u \in Users, NEW n \in Amounts, W!Mint(u, u, n)
      PROVE  LW!Mint(u, u, n)
  BY <1>0, <1>1
  DEF W!Mint, W!MintAt, W!PullLsd, W!DepositFor, W!Issue, W!Move,
      W!Trunc, W!Quo, W!FromInt, W!limitVars,
      LW!Mint, LW!MintAt, LW!PullLsd, LW!DepositFor, LW!Issue, LW!Move,
      LW!Trunc, LW!Quo, LW!FromInt, LW!limitVars
<1>2. ASSUME NEW u \in Users, NEW n \in Amounts, W!MintWith(u, u, n)
      PROVE  LW!MintWith(u, u, n)
  BY <1>0, <1>2
  DEF W!MintWith, W!MintWithAt, W!PullLsd, W!MintFor, W!Issue, W!Move,
      W!Trunc, W!Prod, W!FromInt, W!limitVars,
      LW!MintWith, LW!MintWithAt, LW!PullLsd, LW!MintFor, LW!Issue,
      LW!Move, LW!Trunc, LW!Prod, LW!FromInt, LW!limitVars
<1>3. ASSUME NEW u \in Users, NEW n \in Amounts, W!Burn(u, n)
      PROVE  LW!Burn(u, n)
  BY <1>0, <1>3
  DEF W!Burn, W!BurnAt, W!PushLsd, W!PayoutFor, W!Destroy, W!Move,
      W!Trunc, W!Quo, W!FromInt, W!limitVars,
      LW!Burn, LW!BurnAt, LW!PushLsd, LW!PayoutFor, LW!Destroy, LW!Move,
      LW!Trunc, LW!Quo, LW!FromInt, LW!limitVars
<1>4. ASSUME NEW u \in Users, NEW to \in {Wrapper, Reward}, NEW n \in Amounts,
             W!LsdTransfer(u, to, n), UNCHANGED <<now, limitVars>>
      PROVE  LW!LsdTransfer(u, to, n) /\ UNCHANGED <<now, LW!limitVars>>
  BY <1>4 DEF W!LsdTransfer, W!Move, LW!LsdTransfer, LW!Move,
              limitVars, LW!limitVars
<1>5. W!Tick => LW!Tick
  BY DEF W!Tick, LW!Tick, W!tokenVars, LW!tokenVars, W!limitVars, LW!limitVars
<1>6. /\ Users \subseteq Users \cup {Reward, Market}
      /\ Users \subseteq LW!Accounts /\ {Wrapper, Reward} \subseteq LW!Accounts
  BY DEF LW!Accounts
<1>7. ASSUME NEW u \in Users, NEW n \in Amounts,
             LW!Mint(u, u, n) \/ LW!MintWith(u, u, n) \/ LW!Burn(u, n)
      PROVE  LW!Next
  <2>1. LW!TokenStep(u)
    BY <1>6, <1>7 DEF LW!TokenStep
  <2> QED
    BY <1>6, <2>1 DEF LW!Next
<1>8. ASSUME NEW u \in Users, NEW to \in {Wrapper, Reward}, NEW n \in Amounts,
             LW!LsdTransfer(u, to, n), UNCHANGED <<now, LW!limitVars>>
      PROVE  LW!Next
  BY <1>6, <1>8 DEF LW!Next, LW!OutsideStep
<1> QED
  BY <1>1, <1>2, <1>3, <1>4, <1>5, <1>7, <1>8 DEF WrapperStep, LW!Next

(* What the wrapper is paid, and pays, are amounts; it pays for tokens.    *)
LEMMA PaymentsNat ==
  ASSUME Typed, NEW n \in Nat, W!WrapperRate > 0
  PROVE  /\ W!DepositFor(n, W!WrapperRate) \in Nat
         /\ W!PayoutFor(n, W!WrapperRate) \in Nat
         /\ W!PayoutFor(n, W!WrapperRate) > 0 => n > 0
<1>1. W!WrapperRate = LW!WrapperRate
  BY DEF W!WrapperRate, LW!WrapperRate, W!FromRatio, LW!FromRatio
<1>2. LW!WrapperRate \in Nat
  BY AccountTypes, WrapperAssumptions, LW!WrapperRateNat DEF LW!IInv
<1>3. PICK x \in Nat \ {0} : x = W!WrapperRate
  BY <1>1, <1>2
<1>4. /\ LW!DepositFor(n, x) \in Nat
      /\ LW!PayoutFor(n, x) \in Nat /\ LW!PayoutFor(n, x) * x <= n * ONE
  BY <1>3, WrapperAssumptions, LW!DepositCovers, LW!PayoutCovered
<1>5. /\ W!DepositFor(n, x) = LW!DepositFor(n, x)
      /\ W!PayoutFor(n, x) = LW!PayoutFor(n, x)
  BY DEF W!DepositFor, LW!DepositFor, W!PayoutFor, LW!PayoutFor, W!Trunc,
         LW!Trunc, W!Quo, LW!Quo, W!FromInt, LW!FromInt
<1>6. LW!PayoutFor(n, x) > 0 => n > 0
  <2>1. PICK p \in Nat : p = LW!PayoutFor(n, x) /\ p * x <= n * ONE
    BY <1>4
  <2>2. SUFFICES ASSUME p > 0, n = 0 PROVE FALSE
    BY <2>1
  <2>3. p * x > 0 /\ n * ONE = 0
    BY <2>2, LimitedAmountAssumption, SMT
  <2> QED
    BY <2>1, <2>3
<1> QED
  BY <1>3, <1>4, <1>5, <1>6

(* LSD that a user sends the vault, or takes from it for burnt tokens; and  *)
(* LSD that one sends the reward contract.                                 *)
Traded ==
  /\ lsd'[Reward] = lsd[Reward]
  /\ lsd'[Wrapper] < lsd[Wrapper] => supply' < supply
Donated ==
  /\ lsd'[Wrapper] = lsd[Wrapper] /\ supply' = supply
  /\ lsd'[Reward] >= lsd[Reward]

(* They keep the limit; none of the LSD is lost or goes to the market.     *)
LEMMA WrapperStepFacts ==
  ASSUME Typed, Idle, WrapperStep
  PROVE  /\ Inv' /\ Idle' /\ UNCHANGED <<held, totalLp>>
         /\ lsd' \in [Accounts -> Nat] /\ supply' \in Nat
         /\ Shares' = Shares /\ lsd'[Market] = lsd[Market]
         /\ Traded \/ Donated
<1>1. /\ LW!IInv /\ lsd \in [Accounts -> Nat] /\ supply \in Nat
      /\ {Wrapper, Reward, Market} \cup Users \subseteq Accounts
  BY AccountTypes, Parties
<1>2. LW!IInv'
  BY <1>1, WrapperStepIsNext, WrapperAssumptions, LW!NextOK
<1>3. UNCHANGED <<totalLp, hubConfig, lastIndexModification, rewardConfig,
                  swapConfig, held, stack, saved, unsold>>
  BY DEF WrapperStep, configVars, hubVars, rewardConfigs, txVars
<1>4. Inv' /\ Idle'
  <2>1. HubTypeOK' /\ RewardTypeOK' /\ Distinct'
    BY <1>3 DEF Typed, TypeOK, HubTypeOK, RewardTypeOK, Distinct
  <2> QED
    BY <1>2, <1>3, <2>1, IdleInv DEF Typed, TypeOK
<1>5. lsd' \in [Accounts -> Nat] /\ supply' \in Nat
  BY <1>2, FiniteAccounts DEF LW!IInv, LW!TypeOK, LW!TokenTypeOK
<1> DEFINE Goal == /\ Shares' = Shares /\ lsd'[Market] = lsd[Market]
                   /\ Traded \/ Donated
<1>6. ASSUME NEW u \in Users
      PROVE  /\ u \in Accounts /\ u \notin {Wrapper, Reward, Market}
             /\ Wrapper # Reward /\ Wrapper # Market /\ Reward # Market
  BY Parties, LimitedUpdateAssumption
<1>7. ASSUME NEW u \in Users, NEW d \in Nat, W!PullLsd(u, d)
      PROVE  Goal
  <2>1. lsd' = [[lsd EXCEPT ![u] = @ - d] EXCEPT ![Wrapper] = @ + d] /\ d <= lsd[u]
    BY <1>7 DEF W!PullLsd, W!Move
  <2>2. /\ Shares' = Shares /\ lsd'[Wrapper] = lsd[Wrapper] + d
        /\ lsd'[Market] = lsd[Market] /\ lsd'[Reward] = lsd[Reward]
    BY <1>1, <1>3, <1>6, <2>1, MoveKeepsRate
  <2> QED
    BY <1>1, <2>2 DEF Traded
<1>8. ASSUME NEW u \in Users, NEW n \in Amounts, W!Mint(u, u, n) \/ W!MintWith(u, u, n)
      PROVE  Goal
  <2>1. n \in Nat
    BY LimitedAmountAssumption
  <2>2. PICK d \in Nat : W!PullLsd(u, d)
    BY <1>8, <2>1, PaymentsNat DEF W!Mint, W!MintAt, W!MintWith, W!MintWithAt
  <2> QED
    BY <1>7, <2>2
<1>9. ASSUME NEW u \in Users, NEW n \in Amounts, W!Burn(u, n)
      PROVE  Goal
  <2>1. n \in Nat
    BY LimitedAmountAssumption
  <2>2. PICK d \in Nat : W!PushLsd(u, d) /\ supply' = supply - n /\ (d > 0 => n > 0)
    BY <1>9, <2>1, PaymentsNat DEF W!Burn, W!BurnAt, W!Destroy
  <2>3. lsd' = [[lsd EXCEPT ![Wrapper] = @ - d] EXCEPT ![u] = @ + d]
        /\ d <= lsd[Wrapper]
    BY <2>2 DEF W!PushLsd, W!Move
  <2>4. /\ Shares' = Shares /\ lsd'[Wrapper] = lsd[Wrapper] - d
        /\ lsd'[Market] = lsd[Market] /\ lsd'[Reward] = lsd[Reward]
    BY <1>1, <1>3, <1>6, <2>3, MoveKeepsRate
  <2> QED
    BY <1>1, <2>1, <2>2, <2>4 DEF Traded
<1>10. ASSUME NEW u \in Users, NEW to \in {Wrapper, Reward}, NEW n \in Amounts,
              W!LsdTransfer(u, to, n)
       PROVE  Goal
  <2>1. /\ n \in Nat /\ n <= lsd[u] /\ supply' = supply
        /\ lsd' = [[lsd EXCEPT ![u] = @ - n] EXCEPT ![to] = @ + n]
    BY <1>10, LimitedAmountAssumption DEF W!LsdTransfer, W!Move
  <2>2. /\ Shares' = Shares /\ lsd'[to] = lsd[to] + n
        /\ lsd'[Market] = lsd[Market]
        /\ \A x \in {Wrapper, Reward} \ {to} : lsd'[x] = lsd[x]
    <3>1. /\ u \in Accounts /\ to \in Accounts /\ u # to /\ totalLp' = totalLp
          /\ {Market, Wrapper, Reward} \subseteq Accounts \ {u} /\ Market # to
      BY <1>1, <1>3, <1>6
    <3>2. /\ Shares' = Shares /\ lsd'[to] = lsd[to] + n
          /\ \A x \in Accounts \ {u, to} : lsd'[x] = lsd[x]
      BY <2>1, <3>1, MoveKeepsRate
    <3> QED
      BY <3>1, <3>2
  <2>3. CASE to = Wrapper
    <3>1. lsd'[Reward] = lsd[Reward] /\ lsd'[Wrapper] = lsd[Wrapper] + n
      BY <1>6, <2>2, <2>3
    <3> QED
      BY <1>1, <2>1, <2>2, <3>1 DEF Traded
  <2>4. CASE to = Reward
    <3>1. lsd'[Wrapper] = lsd[Wrapper] /\ lsd'[Reward] = lsd[Reward] + n
      BY <1>6, <2>2, <2>4
    <3> QED
      BY <1>1, <2>1, <2>2, <3>1 DEF Donated
  <2> QED
    BY <2>3, <2>4
<1>11. W!Tick => Goal
  <2> SUFFICES ASSUME W!Tick PROVE Goal
    OBVIOUS
  <2>1. lsd' = lsd /\ ~(lsd[Wrapper] < lsd[Wrapper])
    BY <1>1 DEF W!Tick, W!tokenVars
  <2> QED
    BY <2>1 DEF Traded, Shares
<1> QED
  BY <1>3, <1>4, <1>5, <1>8, <1>9, <1>10, <1>11 DEF WrapperStep

(* The staking protocol leaves the contracts their LSD; users take theirs  *)
(* apart for what it is worth.                                             *)
LEMMA ProtocolFacts ==
  ASSUME Typed, Idle, ProtocolStep
  PROVE  /\ Inv' /\ Idle' /\ UNCHANGED <<held, supply>>
         /\ lsd'[Wrapper] = lsd[Wrapper] /\ lsd'[Reward] = lsd[Reward]
         /\ lsd'[Market] = lsd[Market] /\ totalLp' \in Nat
         /\ \/ lsd' = lsd
            \/ Shares' <= Shares /\ totalLp' = totalLp - LpFor(Shares - Shares')
<1>1. UNCHANGED <<bal, supply, allowance, limitVars, now, held, hubConfig,
                  rewardConfig, swapConfig, lastIndexModification,
                  stack, saved, unsold>>
  BY DEF ProtocolStep, tokenVars, configVars, rewardConfigs, txVars
<1>2. lsd \in [Accounts -> Nat] /\ totalLp \in Nat /\ LW!IInv /\ Shares \in Nat
  BY AccountTypes
<1> DEFINE Unmoved == /\ lsd'[Wrapper] = lsd[Wrapper] /\ lsd'[Reward] = lsd[Reward]
                      /\ lsd'[Market] = lsd[Market]
           Left == Shares' <= Shares /\ totalLp' = totalLp - LpFor(Shares - Shares')
<1>3. ASSUME NEW u \in Users, NEW n \in Amounts, UnbondOwn(u, n)
      PROVE  lsd' \in [Accounts -> Nat] /\ totalLp' \in Nat /\ Unmoved /\ Left
  <2>1. /\ n \in Nat /\ n <= lsd[u] /\ u \in Accounts /\ lsd[u] \in Nat
        /\ {Wrapper, Reward, Market} \subseteq Accounts
        /\ u # Wrapper /\ u # Reward /\ u # Market
    BY <1>2, <1>3, Parties, LimitedUpdateAssumption, LimitedAmountAssumption
    DEF UnbondOwn
  <2>2. lsd[u] <= Shares
    BY <1>2, <2>1, SharesBound DEF Shares
  <2>3. LpFor(n) \in Nat /\ LpFor(n) <= totalLp
    BY <1>2, <2>1, <2>2, RetrievalBounds
  <2>4. totalLp' \in Nat
    BY <1>2, <1>3, <2>3 DEF UnbondOwn
  <2>5. lsd' \in [Accounts -> Nat] /\ Unmoved /\ lsd'[u] = lsd[u] - n
        /\ \A x \in Accounts : x # u => lsd'[x] = lsd[x]
    BY <1>2, <1>3, <2>1 DEF UnbondOwn
  <2>6. Shares' = Shares + (lsd'[u] - lsd[u])
    <3>1. PICK f \in [Accounts -> Nat], h \in [Accounts -> Nat] : f = lsd /\ h = lsd'
      BY <1>2, <2>5
    <3>2. SumFunction(h) = SumFunction(f) + (h[u] - f[u])
      BY <2>1, <2>5, <3>1, SharesChange
    <3> QED
      BY <3>1, <3>2 DEF Shares
  <2>7. Shares' = Shares - n /\ Shares - Shares' = n
    BY <1>2, <2>1, <2>5, <2>6
  <2>8. Left
    BY <1>2, <1>3, <2>1, <2>7 DEF UnbondOwn
  <2> QED
    BY <2>4, <2>5, <2>8
<1>4. ASSUME Earn \/ \E n \in Losses : Lose(n)
      PROVE  lsd' = lsd /\ totalLp' \in Nat
  BY <1>2, <1>4, LimitedAmountAssumption DEF Earn, Lose
<1>5. /\ lsd' \in [Accounts -> Nat] /\ totalLp' \in Nat /\ Unmoved
      /\ lsd' = lsd \/ Left
  <2>1. CASE \E u \in Users, n \in Amounts : UnbondOwn(u, n)
    BY <1>3, <2>1
  <2>2. CASE Earn \/ \E n \in Losses : Lose(n)
    BY <1>2, <1>4, <2>2
  <2> QED
    BY <2>1, <2>2 DEF ProtocolStep
<1>6. LW!IInv'
  BY <1>1, <1>2, <1>5, KeepLimit
<1>7. HubTypeOK' /\ RewardTypeOK' /\ Distinct' /\ hubConfig'.reward \in {Reward, None}
  BY <1>1 DEF Typed, TypeOK, HubTypeOK, RewardTypeOK, Distinct
<1>8. Inv' /\ Idle'
  BY <1>1, <1>5, <1>6, <1>7, IdleInv
<1> QED
  BY <1>1, <1>5, <1>8

LEMMA ConfigFacts ==
  ASSUME Typed, Idle, ConfigStep
  PROVE  Inv' /\ Idle' /\ UNCHANGED <<lsd, held, totalLp, supply>>
<1>1. PICK u \in Admins \cup Users, owner \in Admins \cup {None},
           reward \in {Reward, None}, token \in {Wrapper, None} :
        HubUpdateConfig(u, owner, reward, token)
  BY DEF ConfigStep
<1>2. /\ Given(owner, hubConfig.creator) \in Admins
      /\ Given(reward, hubConfig.reward) \in {Reward, None}
      /\ Given(token, hubConfig.token) \in Targets \cup {None}
  BY AccountTypes, SmallFacts, LimitedUpdateAssumption DEF HubTypeOK, Given
<1>3. HubTypeOK' /\ hubConfig'.reward \in {Reward, None}
  <2>1. hubConfig' = [creator |-> Given(owner, hubConfig.creator),
                      reward |-> Given(reward, hubConfig.reward),
                      token |-> Given(token, hubConfig.token)]
    BY <1>1 DEF HubUpdateConfig
  <2>2. lastIndexModification' = lastIndexModification
    BY <1>1 DEF HubUpdateConfig
  <2> QED
    BY <1>2, <2>1, <2>2, AccountTypes, LimitedUpdateAssumption DEF HubTypeOK
<1>4. UNCHANGED <<bal, supply, allowance, limitVars, now, lsd, totalLp, held,
                  unsold, rewardConfigs, stack, saved>>
  BY <1>1 DEF ConfigStep, HubUpdateConfig, tokenVars
<1>5. LW!IInv' /\ totalLp' \in Nat /\ RewardTypeOK' /\ Distinct'
  BY <1>4, AccountTypes, KeepLimit DEF RewardTypeOK, Distinct, rewardConfigs
<1> QED
  BY <1>3, <1>4, <1>5, IdleInv

(* The reward contract's own messages: they leave the pot alone, or take   *)
(* it as a whole, or add to what is there.                                 *)
LEMMA RewardStepFacts ==
  ASSUME Typed, Idle, RewardStep
  PROVE  /\ Inv' /\ Idle' /\ UNCHANGED <<lsd, totalLp, supply>>
         /\ held' \in [Assets -> Nat]
         /\ \/ held' = held
            \/ \A x \in Assets : held'[x] >= held[x]
            \/ /\ held'[Stable] = 0
               /\ \A x \in Assets \ {Stable} : held'[x] = held[x]
<1>0. /\ Typed /\ RewardTypeOK /\ Distinct /\ held \in [Assets -> Nat]
      /\ lsd \in [Accounts -> Nat] /\ totalLp \in Nat /\ LW!IInv
      /\ HubTypeOK /\ hubConfig.reward \in {Reward, None}
  BY AccountTypes, SmallFacts
<1>1. UNCHANGED <<bal, supply, allowance, limitVars, now, lsd, totalLp,
                  hubConfig, lastIndexModification, stack, saved>>
  <2>1. ASSUME NEW u, NEW owner, NEW custody, NEW known, NEW exchanges,
               RewardUpdateConfig(u, owner, custody, known, exchanges)
        PROVE  UNCHANGED <<lsd, stack, saved>>
    BY <2>1 DEF RewardUpdateConfig
  <2>2. ASSUME NEW u, NEW recipient, ClaimRewards(u, recipient)
        PROVE  UNCHANGED <<lsd, stack, saved>>
    BY <2>2 DEF ClaimRewards
  <2>3. ASSUME NEW x \in Assets, Donate(x, MaxHeld)
        PROVE  UNCHANGED <<lsd, stack, saved>>
    BY <2>3 DEF Donate
  <2>4. UNCHANGED <<bal, supply, allowance, limitVars, now, totalLp,
                    hubConfig, lastIndexModification>>
    BY DEF RewardStep, tokenVars, hubVars
  <2>5. UNCHANGED <<lsd, stack, saved>>
    BY <2>1, <2>2, <2>3 DEF RewardStep
  <2> QED
    BY <2>4, <2>5
<1>2. ASSUME RewardTypeOK', Distinct'
      PROVE  Inv' /\ Idle' /\ held' \in [Assets -> Nat]
  <2>1. LW!IInv' /\ HubTypeOK'
    BY <1>0, <1>1, KeepLimit DEF HubTypeOK
  <2> QED
    BY <1>0, <1>1, <1>2, <2>1, IdleInv DEF RewardTypeOK
<1>3. ASSUME NEW u, NEW owner \in Admins \cup {None},
             NEW custody \in Custodies \cup {None},
             NEW known \in KnownLists \cup {None},
             NEW exchanges \in ExchangeUpdates,
             RewardUpdateConfig(u, owner, custody, known, exchanges)
      PROVE  RewardTypeOK' /\ Distinct' /\ held' = held
  <2>1. exchanges \in [1 .. DexCount -> DexAddresses \cup {None}]
    BY LimitedUpdateAssumption
  <2>2. RewardTypeOK' /\ Distinct'
    BY <1>0, <1>3, <2>1, UpdateConfigFacts
  <2> QED
    BY <1>3, <2>2 DEF RewardUpdateConfig
<1>4. ASSUME NEW u, NEW recipient, ClaimRewards(u, recipient)
      PROVE  /\ RewardTypeOK' /\ Distinct'
             /\ \/ held' = held
                \/ /\ held'[Stable] = 0
                   /\ \A x \in Assets \ {Stable} : held'[x] = held[x]
  <2>1. /\ RewardTypeOK' /\ Distinct'
        /\ \A x \in Assets \ {Stable} : held'[x] = held[x]
        /\ held'[Stable] \in {0, held[Stable]}
    BY <1>0, <1>4, ClaimFacts
  <2>2. held' \in [Assets -> Nat]
    BY <2>1 DEF RewardTypeOK
  <2>3. held'[Stable] = held[Stable] => held' = held
    BY <1>0, <2>1, <2>2
  <2> QED
    BY <2>1, <2>3
<1>5. ASSUME NEW x \in Assets, Donate(x, MaxHeld)
      PROVE  /\ RewardTypeOK' /\ Distinct'
             /\ \A y \in Assets : held'[y] >= held[y]
  BY <1>0, <1>5, DonateFacts
<1> QED
  BY <1>1, <1>2, <1>3, <1>4, <1>5 DEF RewardStep

-----------------------------------------------------------------------------
(* The invariant holds, and what the steps look like from outside.         *)

LEMMA InitInv == Init => Inv
<1> SUFFICES ASSUME Init PROVE Inv
  OBVIOUS
<1>1. LW!Init
  BY FiniteAccounts
  DEF Init, W!Init, W!TokenInit, LW!Init, LW!TokenInit, W!NoAllowance,
      LW!NoAllowance, W!Accounts, LW!Accounts
<1>2. LW!IInv
  BY <1>1, WrapperAssumptions, LW!InitOK
<1>3. W!TypeOK
  BY <1>2, TypesAgree DEF LW!IInv
<1>4. HubTypeOK /\ hubConfig.reward \in {Reward, None}
  <2>1. startTime \in Nat
    BY <1>2 DEF LW!IInv, LW!TypeOK
  <2>2. W!Seconds(startTime) \in Nat
    BY <2>1, SecondsMonotonic
  <2> QED
    BY <2>2 DEF Init, HubInit, HubTypeOK
<1>5. RewardTypeOK /\ Distinct
  BY RewardInitFacts DEF Init
<1>6. totalLp \in Nat
  BY LimitedAmountAssumption DEF Init
<1> QED
  BY <1>2, <1>3, <1>4, <1>5, <1>6 DEF Init, Inv, Typed, TypeOK, Idle

LEMMA StutterInv ==
  ASSUME Inv, UNCHANGED vars
  PROVE  Inv'
<1>1. UNCHANGED <<bal, supply, allowance, now, limitVars, lsd, totalLp, hubConfig,
                  lastIndexModification, rewardConfig, swapConfig, held,
                  stack, saved, unsold>>
  BY DEF vars, tokenVars, configVars, rewardConfigs, txVars
<1>2. CASE Idle
  <2>1. Typed /\ LW!IInv /\ lsd \in [Accounts -> Nat] /\ totalLp \in Nat
    BY AccountTypes DEF Inv
  <2>2. LW!IInv'
    BY <1>1, <2>1, KeepLimit
  <2>3. HubTypeOK' /\ RewardTypeOK' /\ Distinct'
        /\ hubConfig'.reward \in {Reward, None} /\ totalLp' \in Nat
    BY <1>1, <2>1 DEF Typed, TypeOK, HubTypeOK, RewardTypeOK, Distinct
  <2> QED
    BY <1>1, <1>2, <2>1, <2>2, <2>3, IdleInv
<1>3. CASE ~Idle
  <2>0. Typed /\ LW!IInv /\ lsd \in [Accounts -> Nat] /\ totalLp \in Nat
        /\ held \in [Assets -> Nat] /\ unsold \subseteq Goods
        /\ lastIndexModification \in Nat
    BY AccountTypes, SmallFacts DEF Inv
  <2>1. Typed'
    <3>1. LW!IInv'
      BY <1>1, <2>0, KeepLimit
    <3>2. GoesOnOrEnds
      BY <1>1, <1>3 DEF GoesOnOrEnds, Idle
    <3> QED
      BY <1>1, <1>3, <2>0, <3>1, <3>2, TxTypes DEF rewardConfigs
  <2>2. Rate' = Rate /\ LpFor(lsd[Reward])' = LpFor(lsd[Reward])
        /\ SharesFor(LpFor(lsd[Reward]))' = SharesFor(LpFor(lsd[Reward]))
    BY <1>1 DEF Rate, LpFor, SharesFor, Shares
  <2>3. Arrived(saved) => Arrived(saved)'
    BY <1>1, <2>2 DEF Arrived, VaultHarvested, StillCovered, Harvested, Shares
  <2>4. Retrieved(saved) => Retrieved(saved)'
    BY <1>1, <2>2 DEF Retrieved, VaultHarvested, StillCovered, TakenApart, OnlyDust,
                      WorthAt, Harvested, Freed, Spent, Shares
  <2>5. ASSUME NEW w, Ready(saved, w)
        PROVE  Ready(saved, w)'
    BY <1>1, <2>5 DEF Ready, Withdrawable, PotBefore, Before, Held, Harvested, Freed,
                      Spent, Shares
  <2>6. ASSUME NEW w, SoldOrKept(saved, w), FirstSaleFirst(saved, w)
        PROVE  (SoldOrKept(saved, w) /\ FirstSaleFirst(saved, w))'
    BY <1>1, <2>6 DEF SoldOrKept, FirstSaleFirst, Withdrawable, PotBefore, Before,
                      Held, Harvested, Freed, Spent, Shares
  <2>7. AtUpdate => AtUpdate'
    BY <1>1 DEF AtUpdate, UpdateMessages, Untouched
  <2>8. AtTransfer => AtTransfer'
    BY <1>1, <2>2 DEF AtTransfer, StillCovered, Untouched
  <2>9. AtSwap => AtSwap'
    BY <1>1, <2>3 DEF AtSwap
  <2>10. AtUnbond => AtUnbond'
    BY <1>1, <2>2, <2>3 DEF AtUnbond
  <2>11. AtWithdraw => AtWithdraw'
    BY <1>1, <2>4 DEF AtWithdraw, Withdrawable, Harvested, Freed, Spent, Shares
  <2>12. AtReply => AtReply'
    BY <1>1, <2>4, <2>5 DEF AtReply
  <2>13. AtSales => AtSales'
    <3>1. Sales(stack) => Sales(stack)'
      BY <1>1 DEF Sales, Held
    <3>2. AllOnSale(stack) => AllOnSale(stack)'
      BY <1>1 DEF AllOnSale, Held, Listed
    <3>3. Selling(saved) => Selling(saved)'
      BY <2>6 DEF Selling
    <3> QED
      BY <2>4, <3>1, <3>2, <3>3 DEF AtSales
  <2> QED
    BY <1>3, <2>1, <2>7, <2>8, <2>9, <2>10, <2>11, <2>12, <2>13 DEF Inv, Stage
<1> QED
  BY <1>2, <1>3

(* A step changes nothing of what is seen of the contracts and the staking *)
(* protocol; or it is one of the wrapper's users, of the protocol or of    *)
(* the reward contract's own messages; or the end of a transaction.        *)
Quiet == UNCHANGED <<CommittedLsd, CommittedHeld, CommittedTotalLp, supply>>

Commit == ~Idle /\ Idle' /\ supply' = supply

LEMMA NextFacts ==
  ASSUME Inv, [Next]_vars, NEW CONSTANT s, s = saved
  PROVE  /\ Inv'
         /\ \/ Quiet
            \/ Idle /\ Idle' /\ WrapperStep
            \/ Idle /\ Idle' /\ ProtocolStep
            \/ Idle /\ Idle' /\ RewardStep
            \/ Commit /\ Done(s)'
<1> USE DEF CommittedLsd, CommittedHeld, CommittedTotalLp
<1>0. Typed
  BY DEF Inv
<1>1. CASE UNCHANGED vars
  <2>1. Inv' /\ UNCHANGED <<lsd, held, totalLp, supply, stack, saved>>
    BY <1>1, StutterInv DEF vars, txVars, tokenVars
  <2> QED
    BY <2>1 DEF Quiet, Idle
<1>2. CASE Idle /\ BeginUpdate
  <2>1. /\ Inv' /\ ~Idle' /\ supply' = supply
        /\ saved'.lsd = lsd /\ saved'.held = held /\ saved'.totalLp = totalLp
    BY <1>0, <1>2, BeginFacts
  <2> QED
    BY <1>2, <2>1 DEF Quiet
<1>3. CASE Idle /\ WrapperStep
  BY <1>0, <1>3, WrapperStepFacts
<1>4. CASE Idle /\ ProtocolStep
  BY <1>0, <1>4, ProtocolFacts
<1>5. CASE Idle /\ ConfigStep
  <2>1. Inv' /\ Idle' /\ UNCHANGED <<lsd, held, totalLp, supply>>
    BY <1>0, <1>5, ConfigFacts
  <2> QED
    BY <1>5, <2>1 DEF Quiet
<1>6. CASE Idle /\ RewardStep
  BY <1>0, <1>6, RewardStepFacts
<1>7. CASE TxStep
  <2>1. /\ Inv' /\ GoesOnOrEnds /\ ~Idle /\ supply' = supply
        /\ Idle' => Undone(s)' \/ Done(s)'
    BY <1>7, TxStepFacts DEF TxStep, tokenVars
  <2>2. CASE ~Idle'
    BY <2>1, <2>2 DEF GoesOnOrEnds, Quiet, Idle
  <2>3. CASE Idle' /\ Undone(s)'
    BY <2>1, <2>3 DEF Quiet, Undone
  <2>4. CASE Idle' /\ Done(s)'
    BY <2>1, <2>4 DEF Commit
  <2> QED
    BY <2>1, <2>2, <2>3, <2>4
<1> QED
  BY <1>1, <1>2, <1>3, <1>4, <1>5, <1>6, <1>7 DEF Next

-----------------------------------------------------------------------------
(* The theorems.                                                           *)

(* In every state the transaction under way is in one of its seven stages: *)
(* what is queued, and how far the state has moved from the one it would   *)
(* be undone to, are known.                                                *)
THEOREM StagesKnown == Spec => []Inv
<1>1. Inv /\ [Next]_vars => Inv'
  BY NextFacts
<1> QED
  BY <1>1, InitInv, PTL DEF Spec

(* No handler takes an account, the staking protocol or the limit below    *)
(* zero or writes a setting of the wrong kind, at any point of a           *)
(* transaction.                                                            *)
THEOREM TypesKept == Spec => []TypeOK
<1>1. Inv => TypeOK
  BY DEF Inv, Typed
<1> QED
  BY <1>1, StagesKnown, PTL

(* What is seen from outside is of the right types.                        *)
LEMMA CommittedTypes ==
  Inv => /\ CommittedLsd \in [Accounts -> Nat]
         /\ CommittedHeld \in [Assets -> Nat]
         /\ CommittedTotalLp \in Nat /\ supply \in Nat
BY AccountTypes, SavedTypes
DEF Inv, CommittedLsd, CommittedHeld, CommittedTotalLp

(* The goods as StakedDistribution sees them.                              *)
SeenGoods ==
  [x \in (Assets \ {Stable}) \cup {Lsd} |->
     IF x = Lsd THEN CommittedLsd[Reward] ELSE CommittedHeld[x]]

(* What a transaction has done when it ends is the abstract update.        *)
LEMMA UpdateStep ==
  ASSUME Inv, Inv', Commit, NEW CONSTANT s, s = saved, Done(s)'
  PROVE  Distribution!StakedUpdate
<1>1. /\ CommittedLsd = s.lsd /\ CommittedHeld = s.held
      /\ CommittedTotalLp = s.totalLp /\ CommittedLsd' = lsd'
      /\ CommittedHeld' = held' /\ CommittedTotalLp' = totalLp'
  BY DEF Commit, CommittedLsd, CommittedHeld, CommittedTotalLp
<1>2. /\ s.lsd \in [Accounts -> Nat] /\ s.held \in [Assets -> Nat]
      /\ lsd' \in [Accounts -> Nat] /\ held' \in [Assets -> Nat]
      /\ s.totalLp \in Nat /\ totalLp' \in Nat
      /\ {Wrapper, Reward, Market} \subseteq Accounts
  <2>1. (/\ CommittedLsd \in [Accounts -> Nat]
         /\ CommittedHeld \in [Assets -> Nat] /\ CommittedTotalLp \in Nat)'
    BY CommittedTypes, PTL
  <2> QED
    BY <1>1, <2>1, CommittedTypes, Parties
<1>3. PICK w \in Nat : SoldOrKept(s, w)'
  BY DEF Done, Selling
<1>4. /\ w \in Withdrawable(s)' /\ held'[Stable] >= PotBefore(s, w)'
      /\ \A x \in Goods \ {Stable} : Held(x)' \in {0, Before(s, x, w)'}
      /\ lsd'[Market] = s.lsd[Market] + (Before(s, Lsd, w)' - lsd'[Reward])
      /\ held'[Stable] > PotBefore(s, w)'
           <=> \E x \in Goods \ {Stable} : Held(x)' < Before(s, x, w)'
  BY <1>3 DEF SoldOrKept
<1>5. /\ VaultHarvested(s)' /\ TakenApart(s)'
  BY DEF Done, Retrieved
<1>6. lsd'[Wrapper] <= s.lsd[Wrapper]
  BY <1>2, <1>5 DEF VaultHarvested
<1>7. /\ Goods \ {Stable} = (Assets \ {Stable}) \cup {Lsd}
      /\ Lsd \in Goods \ {Stable} /\ Lsd \notin Assets /\ Lp \in Assets \ {Stable}
      /\ PairAssets \subseteq Assets \ {Lp} /\ Stable \in Assets
  BY AssetKinds
<1>8. /\ SeenGoods[Lsd] = s.lsd[Reward] /\ SeenGoods[Lp] = s.held[Lp]
      /\ \A x \in Assets \ {Stable} : SeenGoods[x] = s.held[x]
      /\ \A x \in Goods \ {Stable} : SeenGoods'[x] = Held(x)'
      /\ DOMAIN SeenGoods = Goods \ {Stable} /\ DOMAIN SeenGoods' = Goods \ {Stable}
  BY <1>1, <1>7 DEF SeenGoods, Held
<1>9. /\ Distribution!Unbonded = Freed(s)' /\ Distribution!Burnt = Spent(s)'
      /\ Distribution!Available(Lsd) = Harvested(s)'
  <2>1. Distribution!Available(Lsd) = s.lsd[Reward] + (s.lsd[Wrapper] - lsd'[Wrapper])
    BY <1>1, <1>8 DEF Distribution!Available, SeenGoods
  <2> QED
    BY <1>1, <2>1 DEF Distribution!Unbonded, Distribution!Burnt, Freed, Spent, Shares,
                      Harvested
<1>10. Distribution!Worth(Harvested(s)') = WorthAt(s, Harvested(s))'
  BY <1>1 DEF Distribution!Worth, WorthAt
<1> HIDE DEF Freed, Spent, Harvested
<1>11. Distribution!Unbonding
  BY <1>1, <1>5, <1>9, <1>10 DEF TakenApart, Distribution!Unbonding, Shares
<1>12. \A x \in Goods \ {Stable} : Distribution!Stock(x, w) = Before(s, x, w)'
  <2> SUFFICES ASSUME NEW x \in Goods \ {Stable}
               PROVE  Distribution!Stock(x, w) = Before(s, x, w)'
    OBVIOUS
  <2>1. CASE x = Lsd
    <3>1. Lsd # Lp /\ Lsd \notin PairAssets
      BY <1>7
    <3> QED
      BY <1>9, <2>1, <3>1 DEF Distribution!Stock, Before
  <2>2. CASE x = Lp
    <3>1. Lp # Lsd
      BY <1>7
    <3> QED
      BY <1>8, <1>9, <2>2, <3>1 DEF Distribution!Stock, Before, SeenGoods
  <2>3. CASE x \in PairAssets /\ x # Stable
    <3>1. x # Lsd /\ x # Lp /\ SeenGoods[x] = s.held[x]
      BY <1>7, <1>8, <2>3
    <3> QED
      BY <2>3, <3>1 DEF Distribution!Stock, Before, SeenGoods
  <2>4. CASE x \notin PairAssets \cup {Lsd, Lp}
    <3>1. SeenGoods[x] = s.held[x]
      BY <1>7, <1>8, <2>4
    <3> QED
      BY <2>4, <3>1 DEF Distribution!Stock, Before, SeenGoods
  <2> QED
    BY <2>1, <2>2, <2>3, <2>4
<1>13. /\ \A x \in Goods \ {Stable} :
            SeenGoods'[x] \in {0, Distribution!Stock(x, w)}
       /\ held'[Stable] > PotBefore(s, w)'
            <=> \E x \in Goods \ {Stable} : SeenGoods'[x] < Distribution!Stock(x, w)
  BY <1>4, <1>8, <1>12
<1> DEFINE paid == IF Stable \in PairAssets THEN w ELSE 0
           earned == held'[Stable] - s.held[Stable] - paid
<1>14. /\ earned >= 0
       /\ earned > 0 <=> held'[Stable] > PotBefore(s, w)'
  <2>1. s.held[Stable] \in Nat /\ held'[Stable] \in Nat /\ paid \in Nat
    BY <1>2, <1>7
  <2>2. PotBefore(s, w)' = s.held[Stable] + paid
    BY DEF PotBefore
  <2> HIDE DEF paid
  <2> QED
    BY <1>4, <2>1, <2>2
<1>15. w \in {Distribution!Unbonded, Distribution!Unbonded + SeenGoods[Lp]}
  BY <1>4, <1>8, <1>9 DEF Withdrawable
<1>16. lsd'[Market] = s.lsd[Market]
                        + (Distribution!Available(Lsd) - Distribution!Burnt)
                        - SeenGoods'[Lsd]
  <2>1. /\ s.lsd[Market] \in Nat /\ lsd'[Reward] \in Nat
        /\ s.lsd[Reward] \in Nat /\ s.lsd[Wrapper] \in Nat /\ lsd'[Wrapper] \in Nat
    BY <1>2
  <2>2. Harvested(s)' \in Int /\ Spent(s)' \in Int
    BY <1>5, <2>1 DEF TakenApart, Harvested
  <2>3. SeenGoods'[Lsd] = lsd'[Reward] /\ Before(s, Lsd, w)' = Harvested(s)' - Spent(s)'
    BY <1>7, <1>8 DEF Held, Before
  <2> QED
    BY <1>4, <1>9, <2>1, <2>2, <2>3
<1>17. supply' = supply
  BY DEF Commit
<1> QED
  <2>1. \E n \in {Distribution!Unbonded, Distribution!Unbonded + SeenGoods[Lp]} :
          LET income == held'[Stable] - s.held[Stable]
                          - (IF Stable \in PairAssets THEN n ELSE 0)
          IN  /\ \A x \in Goods \ {Stable} :
                   SeenGoods'[x] \in {0, Distribution!Stock(x, n)}
              /\ income >= 0
              /\ income > 0 <=> \E x \in Goods \ {Stable} :
                                  SeenGoods'[x] < Distribution!Stock(x, n)
    BY <1>13, <1>14, <1>15
  <2> QED
    BY <1>1, <1>6, <1>8, <1>11, <1>16, <1>17, <2>1
    DEF Distribution!StakedUpdate, SeenGoods

(* Seen from outside, the distribution happens at once or not at all: what *)
(* there is to unbond is, for what it is worth, and of each asset all is   *)
(* sold or nothing, what it is taken apart into included.                  *)
LEMMA DistributionStep ==
  ASSUME Inv, Inv', [Next]_vars
  PROVE  [Distribution!SNext]_(Distribution!svars)
<1>1. PICK s : s = saved
  OBVIOUS
<1>2. \/ Quiet
      \/ Idle /\ Idle' /\ WrapperStep
      \/ Idle /\ Idle' /\ ProtocolStep
      \/ Idle /\ Idle' /\ RewardStep
      \/ Commit /\ Done(s)'
  BY <1>1, NextFacts
<1>3. /\ CommittedLsd \in [Accounts -> Nat] /\ CommittedLsd' \in [Accounts -> Nat]
      /\ CommittedHeld \in [Assets -> Nat] /\ CommittedHeld' \in [Assets -> Nat]
      /\ CommittedTotalLp \in Nat /\ CommittedTotalLp' \in Nat
      /\ {Wrapper, Reward, Market} \subseteq Accounts
      /\ Stable \in Assets /\ Lsd \notin Assets
      /\ supply \in Nat /\ supply' \in Nat
  <2>1. (/\ CommittedLsd \in [Accounts -> Nat] /\ CommittedHeld \in [Assets -> Nat]
         /\ CommittedTotalLp \in Nat /\ supply \in Nat)'
    BY CommittedTypes, PTL
  <2> QED
    BY <2>1, CommittedTypes, AssetKinds, Parties
<1>4. CASE Quiet
  BY <1>4 DEF Quiet, Distribution!svars, Distribution!dvars
<1>5. CASE Idle /\ Idle' /\ WrapperStep
  <2>1. /\ SumFunction(lsd') = SumFunction(lsd) /\ lsd'[Market] = lsd[Market]
        /\ UNCHANGED <<held, totalLp>>
        /\ Traded \/ Donated
    BY <1>5, WrapperStepFacts DEF Inv, Shares
  <2>2. /\ CommittedLsd = lsd /\ CommittedLsd' = lsd'
        /\ CommittedHeld' = CommittedHeld /\ CommittedTotalLp' = CommittedTotalLp
    BY <1>5, <2>1 DEF CommittedLsd, CommittedHeld, CommittedTotalLp
  <2>3. CASE Traded
    <3>1. SeenGoods' = SeenGoods
      BY <2>2, <2>3 DEF SeenGoods, Traded
    <3>2. lsd'[Wrapper] \in Nat
      BY <1>3, <2>2
    <3> QED
      BY <1>3, <2>1, <2>2, <2>3, <3>1, <3>2
      DEF SeenGoods, Traded, Distribution!SNext, Distribution!Trade
  <2>4. CASE Donated
    <3>1. \A x \in Assets : CommittedHeld[x] >= CommittedHeld[x]
      BY <1>3
    <3> QED
      BY <1>3, <2>1, <2>2, <2>4, <3>1
      DEF Donated, Distribution!SNext, Distribution!Gift
  <2> QED
    BY <2>1, <2>3, <2>4
<1>6. CASE Idle /\ Idle' /\ ProtocolStep
  <2>1. /\ UNCHANGED <<held, supply>> /\ lsd'[Wrapper] = lsd[Wrapper]
        /\ lsd'[Reward] = lsd[Reward] /\ lsd'[Market] = lsd[Market]
        /\ totalLp' \in Nat
        /\ \/ lsd' = lsd
           \/ Shares' <= Shares /\ totalLp' = totalLp - LpFor(Shares - Shares')
    BY <1>6, ProtocolFacts DEF Inv
  <2>2. /\ CommittedLsd = lsd /\ CommittedLsd' = lsd'
        /\ CommittedHeld' = CommittedHeld
        /\ CommittedTotalLp = totalLp /\ CommittedTotalLp' = totalLp'
    BY <1>6, <2>1 DEF CommittedLsd, CommittedHeld, CommittedTotalLp
  <2>3. SeenGoods' = SeenGoods
    BY <2>1, <2>2 DEF SeenGoods
  <2>4. CASE lsd' = lsd
    BY <2>1, <2>2, <2>3, <2>4
    DEF SeenGoods, Distribution!SNext, Distribution!Yield, Distribution!dvars
  <2>5. CASE Shares' <= Shares /\ totalLp' = totalLp - LpFor(Shares - Shares')
    BY <2>1, <2>2, <2>3, <2>5
    DEF SeenGoods, Distribution!SNext, Distribution!Leave, Distribution!Worth,
        LpFor, Shares
  <2> QED
    BY <2>1, <2>4, <2>5
<1>7. CASE Idle /\ Idle' /\ RewardStep
  <2>1. /\ UNCHANGED <<lsd, totalLp, supply>>
        /\ \/ held' = held
           \/ \A x \in Assets : held'[x] >= held[x]
           \/ /\ held'[Stable] = 0
              /\ \A x \in Assets \ {Stable} : held'[x] = held[x]
    BY <1>7, RewardStepFacts DEF Inv
  <2>2. /\ CommittedLsd' = CommittedLsd /\ CommittedTotalLp' = CommittedTotalLp
        /\ CommittedHeld = held /\ CommittedHeld' = held'
    BY <1>7, <2>1 DEF CommittedLsd, CommittedHeld, CommittedTotalLp
  <2>3. CASE held' = held
    BY <2>1, <2>2, <2>3 DEF Distribution!svars, Distribution!dvars
  <2>4. CASE \A x \in Assets : held'[x] >= held[x]
    BY <1>3, <2>1, <2>2, <2>4 DEF Distribution!SNext, Distribution!Gift
  <2>5. CASE /\ held'[Stable] = 0
             /\ \A x \in Assets \ {Stable} : held'[x] = held[x]
    <3>1. SeenGoods' = SeenGoods
      BY <2>2, <2>5 DEF SeenGoods
    <3> QED
      BY <2>1, <2>2, <2>5, <3>1
      DEF SeenGoods, Distribution!SNext, Distribution!Claim
  <2> QED
    BY <2>1, <2>3, <2>4, <2>5
<1>8. CASE Commit /\ Done(s)'
  BY <1>1, <1>8, UpdateStep DEF Distribution!SNext
<1> QED
  BY <1>2, <1>4, <1>5, <1>6, <1>7, <1>8

(* The three contracts, the limit and the protocols under the LSD          *)
(* implement StakedDistribution, whichever message of an update fails: LSD *)
(* that leaves the vault other than for burnt tokens is unbonded for what  *)
(* it is worth, sold, or still held.                                       *)
THEOREM DistributionIsAtomic == Spec => AtomicDistribution
<1>1. Init => Distribution!SInit
  <2> SUFFICES ASSUME Init PROVE Distribution!SInit
    OBVIOUS
  <2>1. CommittedLsd = LsdEndowment /\ CommittedHeld = [x \in Assets |-> 0]
    BY DEF Init, W!Init, W!TokenInit, RewardInit, CommittedLsd, CommittedHeld, Idle
  <2>2. /\ LsdEndowment[Wrapper] \in Nat /\ LsdEndowment[Market] \in Nat
        /\ LsdEndowment[Reward] = 0
    BY LimitedAmountAssumption, Parties
  <2>3. SumFunction(LsdEndowment) \in Nat
    BY LimitedAmountAssumption, SharesBound
  <2>4. CommittedTotalLp \in Nat /\ supply \in Nat /\ Stable \in Assets
    BY InitInv, CommittedTypes, AssetKinds
  <2> QED
    BY <2>1, <2>2, <2>3, <2>4 DEF Distribution!SInit, Distribution!DInit
<1>2. Inv /\ Inv' /\ [Next]_vars => [Distribution!SNext]_(Distribution!svars)
  BY DistributionStep
<1> QED
  BY <1>1, <1>2, StagesKnown, PTL
  DEF Spec, AtomicDistribution, Distribution!SSpec

(* What is left when an update commits.                                    *)
LEMMA CommitFacts ==
  ASSUME Inv, [Next]_vars, Committing
  PROVE  TxStep /\ \E s : s = saved /\ Done(s)'
<1>1. TxStep
  BY DEF Committing, Next, vars, txVars, Idle, BeginUpdate, UpdateGlobalIndex
<1>2. PICK s : s = saved
  OBVIOUS
<1>3. Done(s)'
  BY <1>1, <1>2, TxStepFacts DEF Committing
<1> QED
  BY <1>1, <1>2, <1>3

(* An update that is not rejected has taken apart all the LSD that is      *)
(* worth a liquidity token, withdrawn them, and sold everything the reward *)
(* contract held or received on the way that some exchange would pay for.  *)
THEOREM EverythingIsSold == Spec => NothingLeftBehind
<1> DEFINE Sold ==
      /\ \A x \in (Range(Natives) \cup Range(rewardConfig.known))
                     \ (unsold' \cup Mute \cup {Stable}) :
            (IF x = Lsd THEN lsd'[Reward] ELSE held'[x]) = 0
      /\ LpFor(lsd[Reward])' = 0
<1>1. ASSUME Inv, [Next]_vars, Committing
      PROVE  Sold
  <2>1. PICK s : s = saved /\ TxStep /\ Done(s)'
    BY <1>1, CommitFacts
  <2>2. AllOnSale(stack)' /\ stack' = << >> /\ LpFor(lsd[Reward])' = 0
    BY <1>1, <2>1 DEF Committing, Done, Retrieved, OnlyDust, Idle
  <2>3. rewardConfig' = rewardConfig
    BY <2>1 DEF TxStep, configVars, rewardConfigs
  <2>4. Range(Listed) = Range(Natives) \cup Range(rewardConfig.known)
    BY <1>1, ListedFacts DEF Inv, Typed, TypeOK
  <2>5. Listed' = Listed
    BY <2>3 DEF Listed
  <2>6. \A x \in Range(Listed) \ (unsold' \cup Mute \cup {Stable}) : Held(x)' = 0
    BY <2>2, <2>5 DEF AllOnSale
  <2> QED
    BY <2>2, <2>4, <2>6 DEF Held
<1>2. Inv /\ [Next]_vars =>
        [Committing /\ hubConfig.reward = Reward => Sold]_vars
  BY <1>1
<1> QED
  BY <1>2, StagesKnown, PTL DEF Spec, NothingLeftBehind

(* An update that took something from the vault leaves one Luna behind     *)
(* each token at the rate that its own unbonding has left, and only what   *)
(* the unbonding burns changes that rate.                                  *)
THEOREM UpdateCovers == Spec => UpdateKeepsCover
<1> DEFINE Cover == lsd'[Wrapper] < saved.lsd[Wrapper] =>
                      lsd'[Wrapper] * Rate' >= supply * ONE
<1>1. ASSUME Inv, [Next]_vars, Committing
      PROVE  Cover
  <2>1. PICK s : s = saved /\ TxStep /\ Done(s)'
    BY <1>1, CommitFacts
  <2>2. supply' = supply
    BY <2>1 DEF TxStep, tokenVars
  <2>3. \/ lsd'[Wrapper] = s.lsd[Wrapper]
        \/ lsd'[Wrapper] * Rate' >= supply' * ONE
    BY <2>1 DEF Done, Retrieved, VaultHarvested, StillCovered
  <2>4. saved.lsd[Wrapper] \in Nat
    BY <1>1, SavedTypes DEF Inv, Committing
  <2> QED
    BY <2>1, <2>2, <2>3, <2>4
<1>2. Inv /\ [Next]_vars =>
        [Committing /\ lsd'[Wrapper] < saved.lsd[Wrapper] =>
           lsd'[Wrapper] * Rate' >= supply * ONE]_vars
  BY <1>1
<1> QED
  BY <1>2, StagesKnown, PTL DEF Spec, UpdateKeepsCover

(* What a handler asks of the message, or finds of its own account, before *)
(* it does anything: the guards of Run, but for a Decompound.              *)
Acceptable(m) ==
  \/ m.op = "TransferLsd" /\ m.amount <= lsd[Wrapper]
  \/ SwapAcceptable(m)
  \/ m.op = "Unbond" /\ 0 < m.shares /\ m.shares <= lsd[Reward]
  \/ m.op = "WithdrawLiquidity" /\ 0 < m.amount /\ m.amount <= held[Lp]
  \/ m.op = "Reply" /\ [Range(Offers) -> Answers] # {}
  \/ SaleAcceptable(m)

(* What is worth a liquidity token does not cost more than there is.       *)
LEMMA UnbondingAffordable ==
  ASSUME Typed, NEW b \in Nat \ {0}, b = LpFor(lsd[Reward])
  PROVE  0 < SharesFor(b) /\ SharesFor(b) <= lsd[Reward]
<1>1. PICK L, S, T \in Nat : L = lsd[Reward] /\ S = Shares /\ T = totalLp /\ L <= S
  BY AccountTypes
<1>2. /\ b <= T /\ b * S <= L * T
      /\ SharesFor(b) \in Nat /\ (T > 0 => b * S <= SharesFor(b) * T)
  <2> HIDE DEF LpFor, SharesFor, Shares
  <2>1. /\ LpFor(L) <= totalLp /\ LpFor(L) * Shares <= L * totalLp
        /\ SharesFor(b) \in Nat
        /\ totalLp > 0 => b * Shares <= SharesFor(b) * totalLp
    BY <1>1, RetrievalBounds
  <2> QED
    BY <1>1, <2>1
<1>3. T > 0 /\ S > 0
  <2>1. Shares # 0
    BY DEF LpFor
  <2> QED
    BY <1>1, <1>2, <2>1
<1>4. b * S \in Nat /\ L * T \in Nat /\ b * S > 0
  BY <1>3, SMT
<1>5. SharesFor(b) > 0
  <2>1. PICK c \in Nat : c = SharesFor(b)
    BY <1>2
  <2>2. c # 0
    <3>1. b * S <= c * T
      BY <1>2, <1>3, <2>1
    <3>2. 0 * T = 0
      BY SMT
    <3> QED
      BY <1>4, <3>1, <3>2
  <2> QED
    BY <2>1, <2>2
<1>6. SharesFor(b) <= L
  <2>1. PICK a \in Nat : a = b * S + T - 1
    BY <1>3, <1>4
  <2>2. PICK c \in Nat : c = a \div T /\ c * T <= a
    BY <1>3, <2>1, Arithmetic!DivBounds, ArithmeticFacts
  <2>3. SharesFor(b) = c
    BY <1>1, <1>3, <2>1, <2>2 DEF SharesFor
  <2>4. c * T <= L * T + T - 1 /\ c * T \in Nat
    BY <1>2, <1>3, <1>4, <2>1, <2>2, SMT
  <2>5. c >= L + 1 => c * T >= L * T + T
    <3>1. ASSUME c >= L + 1 PROVE (L + 1) * T <= c * T
      BY <1>3, <3>1, Arithmetic!MulMono, ArithmeticFacts
    <3>2. (L + 1) * T = L * T + T
      BY SMT
    <3> QED
      BY <1>4, <2>4, <3>1, <3>2
  <2> QED
    BY <1>3, <1>4, <2>3, <2>4, <2>5
<1> QED
  BY <1>1, <1>5, <1>6

(* Once the reward contract obeys the hub, what was computed when a        *)
(* message was queued still holds when it runs: its handler's guards are   *)
(* met, but for a Decompound, and for an unbonding on Spectrum of LSD that *)
(* is worth no liquidity token, which the farm refuses.                    *)
THEOREM QueuedMessagesAcceptable ==
  Spec => [](~Idle /\ rewardConfig.hub = Hub
              => \/ Acceptable(Head(stack))
                 \/ Head(stack).op = "Decompound"
                 \/ /\ Retrieval = "spectrum"
                    /\ Head(stack).op = "Unbond" /\ Head(stack).amount = 0)
<1> DEFINE Good ==
      ~Idle /\ rewardConfig.hub = Hub
        => \/ Acceptable(Head(stack))
           \/ Head(stack).op = "Decompound"
           \/ /\ Retrieval = "spectrum"
              /\ Head(stack).op = "Unbond" /\ Head(stack).amount = 0
<1>1. Inv => Good
  <2> SUFFICES ASSUME Inv, ~Idle, rewardConfig.hub = Hub
               PROVE  \/ Acceptable(Head(stack))
                      \/ Head(stack).op = "Decompound"
                      \/ /\ Retrieval = "spectrum"
                         /\ Head(stack).op = "Unbond" /\ Head(stack).amount = 0
    OBVIOUS
  <2>0. Typed
    BY DEF Inv
  <2>1. CASE AtUpdate
    BY <2>1 DEF AtUpdate, UpdateMessages, Decompound
  <2>2. CASE AtTransfer
    <3>1. PICK n \in 0 .. lsd[Wrapper] : Head(stack) = TransferLsd(Reward, n)
      BY <2>2 DEF AtTransfer
    <3> QED
      BY <3>1 DEF TransferLsd, Acceptable
  <2>3. CASE AtSwap
    BY <2>3, SomeAnswers DEF AtSwap, SwapToRewardDenom, Acceptable, SwapAcceptable
  <2>4. CASE AtUnbond
    <3>1. PICK m \in Nat, b \in Nat :
            /\ b = LpFor(lsd[Reward]) /\ Head(stack) = Unbond(m, b)
            /\ IF Retrieval = "amp_lp" THEN m = lsd[Reward] ELSE m = SharesFor(b)
            /\ lsd[Reward] > 0 /\ lsd[Reward] \in Nat
      <4>1. LpFor(lsd[Reward]) \in Nat /\ lsd[Reward] \in Nat
        BY <2>0, AccountTypes, RetrievalBounds
      <4> HIDE DEF LpFor
      <4>2. PICK m, w \in Nat :
              /\ stack = <<Unbond(m, LpFor(lsd[Reward])), WithdrawLiquidity(w), Reply>>
              /\ IF Retrieval = "amp_lp"
                 THEN m = lsd[Reward] ELSE m = SharesFor(LpFor(lsd[Reward]))
              /\ lsd[Reward] > 0
        BY <2>4 DEF AtUnbond
      <4> QED
        BY <4>1, <4>2
    <3>2. /\ Head(stack).op = "Unbond" /\ Head(stack).shares = m
          /\ Head(stack).amount = b
      BY <3>1 DEF Unbond
    <3>3. CASE Retrieval = "amp_lp"
      BY <3>1, <3>2, <3>3 DEF Acceptable
    <3>4. CASE Retrieval # "amp_lp"
      <4>1. Retrieval = "spectrum"
        BY <3>4, CustomRewardAssumption
      <4>2. b # 0 => 0 < m /\ m <= lsd[Reward]
        BY <2>0, <3>1, <3>4, UnbondingAffordable
      <4> QED
        BY <3>2, <4>1, <4>2 DEF Acceptable
    <3> QED
      BY <3>3, <3>4
  <2>5. CASE AtWithdraw
    <3>1. PICK w \in Nat \ {0} :
            /\ Head(stack) = WithdrawLiquidity(w) /\ w \in Withdrawable(saved)
            /\ held[Lp] = saved.held[Lp] + Freed(saved)
      BY <2>5 DEF AtWithdraw
    <3>2. saved.held[Lp] \in Nat /\ Freed(saved) \in Int
      <4>1. saved.held \in [Assets -> Nat] /\ saved.totalLp \in Nat
        BY <2>0, SavedTypes
      <4> QED
        BY <2>0, <4>1, AccountTypes, AssetKinds DEF Freed
    <3>3. w <= held[Lp]
      BY <3>1, <3>2 DEF Withdrawable
    <3> QED
      BY <3>1, <3>3 DEF WithdrawLiquidity, Acceptable
  <2>6. CASE AtReply
    BY <2>6, SomeAnswers DEF AtReply, Reply, Acceptable
  <2>7. CASE AtSales
    BY <2>7, NextSaleAcceptable DEF AtSales, Acceptable
  <2> QED
    BY <2>1, <2>2, <2>3, <2>4, <2>5, <2>6, <2>7 DEF Inv, Stage
<1> QED
  BY <1>1, StagesKnown, PTL
-----------------------------------------------------------------------------
(* What an update takes from the vault, and what it records of it.  The    *)
(* wrapper records what it is to send before the message that sends it     *)
(* runs, and by the time the transaction commits its own unbonding has     *)
(* changed the rate.                                                       *)

(* The rate in the state saved.                                            *)
RateAt(s) ==
  IF SumFunction(s.lsd) = 0 THEN ONE
  ELSE (s.totalLp * ONE) \div SumFunction(s.lsd)

(* The LSD that have left the vault, or are queued to.                     *)
Queued == IF ~Idle /\ Head(stack).op = "TransferLsd" THEN Head(stack).amount ELSE 0
Taken(s) == (s.lsd[Wrapper] - lsd[Wrapper]) + Queued

(* They are worth no more than the part of the vault that was recorded, up *)
(* to one Luna and one atomic of ratio and rate.                           *)
WithinRecord(n, s) ==
  n * RateAt(s) * ONE
    < (ratioSum - s.limit[2] + 1) * s.lsd[Wrapper] * RateAt(s)
        + ONE * ONE + RateAt(s)

Fresh(s) == lsd = s.lsd /\ totalLp = s.totalLp /\ limitVars = s.limit

RecordInv ==
  ~Idle => /\ Head(stack).op = "Decompound" => Fresh(saved)
           /\ WithinRecord(Taken(saved), saved)

(* A step between transactions, or of one.                                 *)
LEMMA StepKinds ==
  ASSUME Inv, [Next]_vars
  PROVE  \/ UNCHANGED vars
         \/ Idle /\ BeginUpdate
         \/ /\ Idle /\ Idle'
            /\ WrapperStep \/ ProtocolStep \/ ConfigStep \/ RewardStep
         \/ TxStep
BY WrapperStepFacts, ProtocolFacts, ConfigFacts, RewardStepFacts DEF Next, Inv

(* A reply and the outside protocols leave the vault and the limit alone.  *)
LEMMA RewardLeavesVault ==
  ASSUME Typed, RunReward(Head(stack))
  PROVE  lsd'[Wrapper] = lsd[Wrapper] /\ UNCHANGED limitVars
<1>1. /\ lsd \in [Accounts -> Nat] /\ Wrapper \in Accounts
      /\ Wrapper # Reward /\ Wrapper # Market
  BY AccountTypes, Parties
<1>2. SellOffers => lsd' = lsd
  BY DEF SellOffers
<1>3. CASE RunRetrieve(Head(stack)) \/ RunReply(Head(stack))
  BY <1>2, <1>3 DEF RunRetrieve, RunReply, RunReward
<1>4. CASE RunUnbond(Head(stack))
  BY <1>1, <1>4 DEF RunUnbond, RunReward
<1>5. CASE RunWithdrawLiquidity(Head(stack))
  BY <1>5 DEF RunWithdrawLiquidity, RunReward
<1>6. CASE RunSell(Head(stack))
  BY <1>1, <1>6 DEF RunSell, Exchange, RunReward
<1> QED
  BY <1>3, <1>4, <1>5, <1>6 DEF RunReward

(* The third stage and those after it wait for neither of the wrapper's.   *)
LEMMA HarvestIsOver ==
  ~Idle /\ (AtSwap \/ AtUnbond \/ AtWithdraw \/ AtReply \/ AtSales)
    => Head(stack).op \notin {"Decompound", "TransferLsd"}
BY HeadOfStage

(* The rate saved is a natural number, and nothing taken is within any     *)
(* record.                                                                 *)
LEMMA RateAtNat ==
  ASSUME NEW s, s.lsd \in [Accounts -> Nat], s.totalLp \in Nat
  PROVE  RateAt(s) \in Nat
<1>1. SumFunction(s.lsd) \in Nat
  BY SharesBound
<1>2. s.totalLp * ONE \in Nat /\ ONE \in Nat
  BY LimitedAmountAssumption, SMT
<1>3. CASE SumFunction(s.lsd) # 0
  <2>1. (s.totalLp * ONE) \div SumFunction(s.lsd) \in Nat
    BY <1>1, <1>2, <1>3, ArithmeticFacts, Arithmetic!DivBounds
  <2> QED
    BY <1>1, <1>3, <2>1 DEF RateAt
<1> QED
  BY <1>1, <1>2, <1>3 DEF RateAt

LEMMA NothingWithin ==
  ASSUME NEW b \in Nat, NEW r \in Nat, NEW k \in Nat
  PROVE  0 * r * ONE < (k + 1) * b * r + ONE * ONE + r
<1>1. ONE \in Nat \ {0}
  BY LimitedAmountAssumption
<1>2. (k + 1) * b * r \in Nat /\ ONE * ONE \in Nat \ {0} /\ 0 * r * ONE = 0
  BY <1>1, SMT
<1> QED
  BY <1>2

(* The wrapper's handler queues no more than it records.                   *)
LEMMA DecompoundRecords ==
  ASSUME Typed, AtUpdate, RunDecompound(Head(stack)),
         NEW CONSTANT s, s = saved, Fresh(s), s.limit[2] \in Nat
  PROVE  /\ WithinRecord(Taken(s), s)'
         /\ ~Idle' /\ Head(stack)'.op # "Decompound"
<1> DEFINE n == W!LsdRewards(lsd[Wrapper], supply, Rate)
           sale == SwapToRewardDenom(Hub, Reward)
<1>1. /\ stack = <<Decompound(hubConfig.token, Reward), sale>>
      /\ lsd = s.lsd /\ totalLp = s.totalLp
      /\ ratioSum = s.limit[2] /\ RateAt(s) = Rate
  BY DEF AtUpdate, UpdateMessages, Fresh, limitVars, RateAt, Rate, Shares
<1>2. /\ Head(stack) = Decompound(hubConfig.token, Reward) /\ ~Idle
      /\ Head(stack).recipient = Reward
      /\ Continue(<< >>) => stack' = <<sale>>
      /\ Continue(<<TransferLsd(Reward, n)>>) =>
           stack' = <<TransferLsd(Reward, n), sale>>
  <2> HIDE DEF n
  <2>1. /\ Head(stack) = Decompound(hubConfig.token, Reward) /\ ~Idle
        /\ Continue(<< >>) => stack' = <<sale>>
        /\ Continue(<<TransferLsd(Reward, n)>>) =>
             stack' = <<TransferLsd(Reward, n), sale>>
    <3> HIDE DEF sale
    <3> QED
      BY <1>1, ContinuePair
  <2> QED
    BY <2>1 DEF Decompound
<1>3. /\ lsd' = lsd
      /\ \/ W!Slashed /\ Continue(<< >>) /\ UNCHANGED limitVars
         \/ /\ W!RecordHarvest
            /\ Continue(IF n > 0 THEN <<TransferLsd(Reward, n)>> ELSE << >>)
  BY <1>2 DEF RunDecompound
<1>4. /\ LW!IInv /\ lsd[Wrapper] \in Nat /\ Rate \in Nat /\ ratioSum \in Nat
  BY AccountTypes DEF LW!IInv, LW!TypeOK
<1>5. PICK r \in Nat, b \in Nat, k \in Nat :
        /\ r = RateAt(s) /\ b = s.lsd[Wrapper] /\ k = s.limit[2]
  BY <1>1, <1>4
<1>6. lsd'[Wrapper] = b /\ Rate = r /\ ratioSum = k /\ lsd[Wrapper] = b
  BY <1>1, <1>3, <1>5
<1>7. ASSUME Continue(<< >>), ratioSum' \in Nat, k <= ratioSum'
      PROVE  /\ WithinRecord(Taken(s), s)'
             /\ ~Idle' /\ Head(stack)'.op # "Decompound"
  <2>1. stack' = <<sale>>
    BY <1>2, <1>7
  <2>2. ~Idle' /\ Head(stack)'.op = "SwapToRewardDenom"
    BY <2>1 DEF Idle, SwapToRewardDenom
  <2>3. Taken(s)' = 0
    BY <1>5, <1>6, <2>2 DEF Taken, Queued
  <2>4. ratioSum' - k \in Nat
    <3>1. \A x \in Nat : k <= x => x - k \in Nat
      OBVIOUS
    <3> QED
      BY <1>7, <3>1
  <2>5. 0 * r * ONE < ((ratioSum' - k) + 1) * b * r + ONE * ONE + r
    BY <2>4, NothingWithin
  <2> QED
    BY <1>5, <2>2, <2>3, <2>5 DEF WithinRecord, RateAt
<1>8. CASE W!Slashed /\ Continue(<< >>) /\ UNCHANGED limitVars
  BY <1>4, <1>6, <1>7, <1>8 DEF limitVars
<1>9. CASE W!RecordHarvest /\ Continue(IF n > 0 THEN <<TransferLsd(Reward, n)>>
                                                ELSE << >>)
  <2>1. LW!RecordHarvest /\ n = LW!LsdRewards(lsd[Wrapper], supply, Rate)
    BY <1>9, RewardsAgree
  <2>2. /\ n \in Nat /\ ratioSum' \in Nat /\ ratioSum <= ratioSum'
        /\ n * Rate * ONE
             < (ratioSum' - ratioSum + 1) * lsd[Wrapper] * Rate + ONE * ONE + Rate
    <3> HIDE DEF n
    <3> QED
      BY <1>4, <2>1, WrapperAssumptions, LW!HarvestRecorded
  <2>3. CASE n = 0
    BY <1>6, <1>7, <1>9, <2>2, <2>3
  <2>4. CASE n # 0
    <3>1. stack' = <<TransferLsd(Reward, n), sale>>
      BY <1>2, <1>9, <2>2, <2>4
    <3> HIDE DEF n
    <3>2. /\ ~Idle' /\ Head(stack)'.op = "TransferLsd"
          /\ Head(stack)'.amount = n
      BY <3>1 DEF Idle, TransferLsd
    <3>3. Taken(s)' = n
      BY <1>5, <1>6, <2>2, <3>2 DEF Taken, Queued
    <3>4. n * r * ONE < (ratioSum' - k + 1) * b * r + ONE * ONE + r
      BY <1>6, <2>2
    <3> QED
      BY <1>5, <3>2, <3>3, <3>4 DEF WithinRecord, RateAt
  <2> QED
    BY <2>3, <2>4
<1> QED
  BY <1>3, <1>8, <1>9

(* Every message of a transaction that commits keeps what it takes within  *)
(* its record.                                                             *)
LEMMA RecordKept ==
  ASSUME Inv, RecordInv, TxStep, ~Abort, NEW CONSTANT s, s = saved
  PROVE  /\ WithinRecord(Taken(s), s)'
         /\ ~Idle' => Head(stack)'.op # "Decompound"
<1>1. /\ Typed /\ Stage /\ ~Idle /\ Inv'
      /\ UNCHANGED <<tokenVars, now, hubConfig, rewardConfigs>>
      /\ Run(Head(stack)) /\ UNCHANGED lastIndexModification
  BY TxStepFacts DEF TxStep, configVars, Inv
<1>2. /\ WithinRecord(Taken(s), s)
      /\ Head(stack).op = "Decompound" => Fresh(s)
      /\ s.limit[2] \in Nat
  BY <1>1, SavedTypes DEF RecordInv
<1>3. (~Idle /\ (AtSwap \/ AtUnbond \/ AtWithdraw \/ AtReply \/ AtSales)
         => Head(stack).op \notin {"Decompound", "TransferLsd"})'
  BY HarvestIsOver, PTL
<1>4. ASSUME Taken(s)' = Taken(s), UNCHANGED limitVars
      PROVE  WithinRecord(Taken(s), s)'
  BY <1>2, <1>4 DEF WithinRecord, RateAt, limitVars
<1>5. CASE RunDecompound(Head(stack))
  <2>1. AtUpdate /\ Fresh(s)
    BY <1>1, <1>2, <1>5, HeadOfStage DEF Stage, RunDecompound
  <2> QED
    BY <1>1, <1>2, <1>5, <2>1, DecompoundRecords
<1>6. CASE RunTransferLsd(Head(stack))
  <2>1. Head(stack).op = "TransferLsd" /\ UNCHANGED limitVars
    BY <1>6 DEF RunTransferLsd
  <2>2. AtTransfer
    BY <1>1, <2>1, HeadOfStage DEF Stage
  <2>3. PICK n \in 0 .. lsd[Wrapper] : Head(stack) = TransferLsd(Reward, n)
    BY <2>2 DEF AtTransfer
  <2>4. /\ lsd \in [Accounts -> Nat] /\ lsd[Wrapper] \in Nat
        /\ s.lsd[Wrapper] \in Nat
        /\ {Wrapper, Reward} \subseteq Accounts /\ Wrapper # Reward
    BY <1>1, AccountTypes, SavedTypes, Parties
  <2>5. lsd'[Wrapper] = lsd[Wrapper] - n
    BY <1>6, <2>3, <2>4 DEF RunTransferLsd, TransferLsd, W!PushLsd, W!Move
  <2>6. ~Idle' /\ AtSwap'
    BY <1>1, <1>6, <2>2, TransferFacts
  <2>7. Queued' = 0
    BY <1>3, <2>6 DEF Queued
  <2>8. Queued = n
    BY <1>1, <2>3 DEF Queued, TransferLsd
  <2>9. Taken(s)' = Taken(s)
    BY <2>4, <2>5, <2>7, <2>8 DEF Taken
  <2> QED
    BY <1>3, <1>4, <2>1, <2>6, <2>9
<1>7. CASE RunReward(Head(stack))
  <2>1. Head(stack).op # "TransferLsd"
    BY <1>7 DEF RunReward, RunRetrieve, RunReply, RunUnbond,
                RunWithdrawLiquidity, RunSell
  <2>2. (Idle \/ AtUnbond \/ AtWithdraw \/ AtReply \/ AtSales)'
    BY <1>1, <1>7, RewardFacts
  <2>3. ~Idle' => /\ Head(stack)'.op # "TransferLsd"
                  /\ Head(stack)'.op # "Decompound"
    BY <1>3, <2>2
  <2>4. Taken(s)' = Taken(s) /\ UNCHANGED limitVars
    BY <1>1, <1>7, <2>1, <2>3, RewardLeavesVault DEF Taken, Queued
  <2> QED
    BY <1>4, <2>3, <2>4
<1> QED
  BY <1>1, <1>5, <1>6, <1>7 DEF Run

(* An update begins with nothing taken, at the rate and the limit of the   *)
(* state it would be undone to.                                            *)
LEMMA RecordBegins ==
  ASSUME Inv, BeginUpdate
  PROVE  RecordInv'
<1>1. /\ Typed /\ saved' = Snapshot /\ stack' = UpdateMessages
      /\ UNCHANGED <<lsd, totalLp, limitVars>>
  BY DEF BeginUpdate, UpdateGlobalIndex, Begin, Inv
<1>2. ~Idle' /\ Head(stack)'.op = "Decompound"
  BY <1>1 DEF UpdateMessages, Decompound, Idle
<1>3. /\ saved'.lsd = lsd /\ saved'.totalLp = totalLp
      /\ saved'.limit = limitVars /\ saved'.limit[2] = ratioSum
  BY <1>1 DEF Snapshot, limitVars
<1>4. /\ lsd \in [Accounts -> Nat] /\ totalLp \in Nat /\ lsd[Wrapper] \in Nat
      /\ ratioSum \in Nat
  BY <1>1, AccountTypes DEF LW!IInv, LW!TypeOK
<1>5. Fresh(saved)'
  BY <1>1, <1>3 DEF Fresh
<1>6. PICK s : s = saved'
  OBVIOUS
<1>7. /\ RateAt(s) \in Nat /\ s.lsd[Wrapper] \in Nat
      /\ ratioSum' - s.limit[2] = 0
  BY <1>1, <1>3, <1>4, <1>6, RateAtNat DEF limitVars
<1>8. Taken(saved)' = 0
  BY <1>1, <1>2, <1>3, <1>4 DEF Taken, Queued
<1>9. WithinRecord(Taken(saved), saved)'
  <2>1. 0 * RateAt(s) * ONE
          < (0 + 1) * s.lsd[Wrapper] * RateAt(s) + ONE * ONE + RateAt(s)
    BY <1>7, NothingWithin
  <2> QED
    BY <1>6, <1>7, <1>8, <2>1 DEF WithinRecord, RateAt
<1> QED
  BY <1>5, <1>9 DEF RecordInv

LEMMA RecordStep ==
  ASSUME Inv, RecordInv, [Next]_vars
  PROVE  RecordInv'
<1>1. CASE UNCHANGED vars
  BY <1>1 DEF vars, txVars, limitVars, RecordInv, Fresh, Taken, Queued, Idle,
              WithinRecord, RateAt
<1>2. CASE Idle'
  BY <1>2 DEF RecordInv
<1>3. CASE TxStep /\ ~Idle'
  <2>1. PICK s : s = saved
    OBVIOUS
  <2>2. ~Abort /\ saved' = s
    BY <1>3, <2>1, TxStepFacts DEF Abort, Undo, Idle, GoesOnOrEnds
  <2>3. WithinRecord(Taken(s), s)' /\ Head(stack)'.op # "Decompound"
    BY <1>3, <2>1, <2>2, RecordKept
  <2>4. WithinRecord(Taken(saved), saved)'
    BY <2>2, <2>3 DEF WithinRecord, Taken, RateAt
  <2> QED
    BY <2>3, <2>4 DEF RecordInv
<1> QED
  BY <1>1, <1>2, <1>3, StepKinds, RecordBegins

(* At every point of an update, what it has taken from the vault or queued *)
(* to be taken is within what the limit has recorded.                      *)
THEOREM RecordCoversTaking == Spec => []RecordInv
<1>1. Init => RecordInv
  BY DEF Init, RecordInv, Idle
<1>2. Inv /\ RecordInv /\ [Next]_vars => RecordInv'
  BY RecordStep
<1> QED
  BY <1>1, <1>2, StagesKnown, PTL DEF Spec

(* The vault holds a natural number of LSD.                                *)
LEMMA VaultNat == Inv => lsd[Wrapper] \in Nat
BY AccountTypes DEF Inv

(* An update that commits has taken what it has recorded.                  *)
LEMMA ExtractedWithinRecord ==
  ASSUME Inv, Inv', RecordInv, [Next]_vars, Committing
  PROVE  (saved.lsd[Wrapper] - lsd'[Wrapper]) * RateAt(saved) * ONE
           < (ratioSum' - saved.limit[2] + 1) * saved.lsd[Wrapper] * RateAt(saved)
               + ONE * ONE + RateAt(saved)
<1>1. PICK s : s = saved
  OBVIOUS
<1>2. TxStep /\ ~Abort /\ ~Idle /\ Idle'
  BY CommitFacts DEF Committing
<1>3. WithinRecord(Taken(s), s)'
  BY <1>1, <1>2, RecordKept
<1>4. s.lsd[Wrapper] \in Nat /\ lsd'[Wrapper] \in Nat
  <2>1. (Inv => lsd[Wrapper] \in Nat)'
    BY VaultNat, PTL
  <2> QED
    BY <1>1, <1>2, <2>1, SavedTypes DEF Inv
<1>5. Taken(s)' = s.lsd[Wrapper] - lsd'[Wrapper]
  BY <1>2, <1>4 DEF Taken, Queued
<1> QED
  BY <1>1, <1>3, <1>5 DEF WithinRecord, RateAt

(* Seen from outside, the value that a committed update took out of the    *)
(* vault, at the rate it began at, is the part of the vault that the limit *)
(* has recorded, up to one Luna and one atomic of ratio and rate: recorded *)
(* by one message and sent by another, neither without the other.          *)
THEOREM CommittedExtractionRecorded ==
  Spec => [][Committing =>
               (saved.lsd[Wrapper] - lsd'[Wrapper]) * RateAt(saved) * ONE
                 < (ratioSum' - saved.limit[2] + 1)
                       * saved.lsd[Wrapper] * RateAt(saved)
                     + ONE * ONE + RateAt(saved)]_vars
<1> DEFINE Extracted ==
      (saved.lsd[Wrapper] - lsd'[Wrapper]) * RateAt(saved) * ONE
        < (ratioSum' - saved.limit[2] + 1) * saved.lsd[Wrapper] * RateAt(saved)
            + ONE * ONE + RateAt(saved)
<1>1. Inv /\ Inv' /\ RecordInv /\ [Next]_vars => [Committing => Extracted]_vars
  BY ExtractedWithinRecord
<1> QED
  BY <1>1, StagesKnown, RecordCoversTaking, PTL DEF Spec

(* What a state of the limit has recorded is what it allows for the time   *)
(* from instantiate to the last decompound it knows of.                    *)
WithinCap(limit) ==
  limit[1] # NoLimit =>
    limit[2] <= W!CapAfter(limit[1], W!Seconds(limit[4]) - W!Seconds(limit[5]))

(* The ratios recorded stay within max_decompound_ratio per year at every  *)
(* point of an update, and as the rest of the chain sees them, whichever   *)
(* message of the update fails.                                            *)
THEOREM CapRespectedThroughout ==
  Spec => [](WithinCap(limitVars) /\ (~Idle => WithinCap(saved.limit)))
<1>1. ASSUME Inv PROVE WithinCap(limitVars)
  <2>1. /\ limitVars[1] = maxRatio /\ limitVars[2] = ratioSum
        /\ limitVars[4] = lastDecompound /\ limitVars[5] = startTime
    BY DEF limitVars
  <2>2. LW!IInv
    BY <1>1 DEF Inv, Typed
  <2> QED
    BY <2>1, <2>2, LimitTypes DEF WithinCap
<1>2. ASSUME Inv, ~Idle PROVE WithinCap(saved.limit)
  BY <1>2 DEF Inv, Typed, SavedLimit, WithinCap
<1>3. Inv => WithinCap(limitVars) /\ (~Idle => WithinCap(saved.limit))
  BY <1>1, <1>2
<1> QED
  BY <1>3, StagesKnown, PTL

(* What the limit allows grows with the time that has passed.              *)
LEMMA CapGrows ==
  ASSUME LW!IInv, maxRatio # NoLimit
  PROVE  /\ ratioSum \in Nat
         /\ W!CapAfter(maxRatio, W!Seconds(now) - W!Seconds(startTime)) \in Nat
         /\ ratioSum
              <= W!CapAfter(maxRatio, W!Seconds(now) - W!Seconds(startTime))
<1>1. /\ maxRatio \in Nat /\ ratioSum \in Nat
      /\ startTime \in Nat /\ lastDecompound \in Nat /\ now \in Nat
      /\ startTime <= lastDecompound /\ lastDecompound <= now
  BY LimitedAmountAssumption DEF LW!IInv, LW!TypeOK
<1>2. PICK a \in Nat, b \in Nat, c \in Nat :
        /\ a = W!Seconds(startTime) /\ b = W!Seconds(lastDecompound)
        /\ c = W!Seconds(now) /\ a <= b /\ b <= c
  BY <1>1, SecondsMonotonic
<1>3. b - a \in Nat /\ c - a \in Nat /\ b - a <= c - a
  BY <1>2
<1>4. \A r, t : W!CapAfter(r, t) = LW!CapAfter(r, t)
  BY DEF W!CapAfter, LW!CapAfter, W!Prod, LW!Prod, W!FromRatio, LW!FromRatio
<1>5. /\ W!CapAfter(maxRatio, b - a) \in Nat /\ W!CapAfter(maxRatio, c - a) \in Nat
      /\ W!CapAfter(maxRatio, b - a) <= W!CapAfter(maxRatio, c - a)
  BY <1>1, <1>3, <1>4, WrapperAssumptions, LW!CapMono
<1>6. ratioSum <= W!CapAfter(maxRatio, b - a)
  BY <1>2, LimitTypes
<1> QED
  BY <1>1, <1>2, <1>5, <1>6

(* The same of every state of the system.                                  *)
LEMMA CapGrowsThroughout ==
  Inv /\ maxRatio # NoLimit =>
    /\ ratioSum \in Nat
    /\ W!CapAfter(maxRatio, W!Seconds(now) - W!Seconds(startTime)) \in Nat
    /\ ratioSum <= W!CapAfter(maxRatio, W!Seconds(now) - W!Seconds(startTime))
BY CapGrows DEF Inv, Typed

(* What is within a record is within a larger one.                         *)
LEMMA RecordMono ==
  ASSUME NEW x \in Nat, NEW y \in Nat, x <= y, NEW k \in Nat,
         NEW v \in Nat, NEW r \in Nat, NEW n \in Int,
         n * r * ONE < (x - k + 1) * v * r + ONE * ONE + r
  PROVE  n * r * ONE < (y - k + 1) * v * r + ONE * ONE + r
<1>1. v * r \in Nat /\ ONE \in Nat
  BY LimitedAmountAssumption, SMT
<1>2. /\ (x - k + 1) * v * r = x * (v * r) + (1 - k) * (v * r)
      /\ (y - k + 1) * v * r = y * (v * r) + (1 - k) * (v * r)
  BY SMT
<1>3. x * (v * r) <= y * (v * r)
  BY <1>1, Arithmetic!MulMono, ArithmeticFacts
<1>4. /\ x * (v * r) \in Nat /\ y * (v * r) \in Nat /\ (1 - k) * (v * r) \in Int
      /\ n * r * ONE \in Int /\ ONE * ONE \in Nat
  BY <1>1, SMT
<1> QED
  BY <1>2, <1>3, <1>4

(* Seen from outside, a committed update took out of the vault no more     *)
(* than what max_decompound_ratio allows for the time since instantiate,   *)
(* less what all updates before it have recorded: a part of the vault's    *)
(* value, up to one Luna and one atomic of ratio and rate.                 *)
THEOREM UpdateWithinLimit ==
  Spec => [][Committing /\ maxRatio # NoLimit =>
               (saved.lsd[Wrapper] - lsd'[Wrapper]) * RateAt(saved) * ONE
                 < (W!CapAfter(maxRatio, W!Seconds(now) - W!Seconds(startTime))
                      - saved.limit[2] + 1) * saved.lsd[Wrapper] * RateAt(saved)
                     + ONE * ONE + RateAt(saved)]_vars
<1> DEFINE Cap == W!CapAfter(maxRatio, W!Seconds(now) - W!Seconds(startTime))
           Limited ==
             (saved.lsd[Wrapper] - lsd'[Wrapper]) * RateAt(saved) * ONE
               < (Cap - saved.limit[2] + 1) * saved.lsd[Wrapper] * RateAt(saved)
                   + ONE * ONE + RateAt(saved)
<1>1. ASSUME Inv, Inv', RecordInv, [Next]_vars, Committing, maxRatio # NoLimit
      PROVE  Limited
  <2>1. PICK s : s = saved
    OBVIOUS
  <2>2. TxStep /\ ~Abort /\ ~Idle /\ Idle'
    BY <1>1, CommitFacts DEF Committing
  <2>3. (saved.lsd[Wrapper] - lsd'[Wrapper]) * RateAt(saved) * ONE
          < (ratioSum' - saved.limit[2] + 1) * saved.lsd[Wrapper] * RateAt(saved)
              + ONE * ONE + RateAt(saved)
    BY <1>1, ExtractedWithinRecord
  <2>4. Cap' = Cap /\ maxRatio' = maxRatio
    <3>1. UNCHANGED <<now, maxRatio, startTime>>
      <4>1. CASE RunDecompound(Head(stack))
        BY <2>2, <4>1 DEF RunDecompound, W!RecordHarvest, limitVars, TxStep
      <4>2. CASE RunTransferLsd(Head(stack)) \/ RunReward(Head(stack))
        BY <2>2, <4>2 DEF RunTransferLsd, RunReward, limitVars, TxStep
      <4> QED
        BY <2>2, <4>1, <4>2 DEF TxStep, Run
    <3> QED
      BY <3>1 DEF W!CapAfter, W!Prod, W!FromRatio, W!Seconds
  <2>5. ratioSum' \in Nat /\ Cap \in Nat /\ ratioSum' <= Cap
    <3>1. (Inv /\ maxRatio # NoLimit => ratioSum \in Nat /\ Cap \in Nat /\ ratioSum <= Cap)'
      BY CapGrowsThroughout, PTL
    <3> QED
      BY <1>1, <2>4, <3>1
  <2>6. PICK r \in Nat, v \in Nat, k \in Nat, n \in Int :
          /\ r = RateAt(saved) /\ v = saved.lsd[Wrapper] /\ k = saved.limit[2]
          /\ n = saved.lsd[Wrapper] - lsd'[Wrapper]
    <3>1. (Inv => lsd[Wrapper] \in Nat)'
      BY VaultNat, PTL
    <3>2. /\ saved.lsd \in [Accounts -> Nat] /\ saved.totalLp \in Nat
          /\ saved.lsd[Wrapper] \in Nat
          /\ saved.limit \in Limits \X Nat \X Nat \X Nat \X Nat
      BY <1>1, <2>2, SavedTypes DEF Inv
    <3>3. RateAt(saved) \in Nat /\ saved.limit[2] \in Nat
      BY <3>2, RateAtNat
    <3> QED
      BY <1>1, <3>1, <3>2, <3>3
  <2> HIDE DEF Cap
  <2>7. n * r * ONE < (ratioSum' - k + 1) * v * r + ONE * ONE + r
    BY <2>3, <2>6
  <2>8. n * r * ONE < (Cap - k + 1) * v * r + ONE * ONE + r
    BY <2>5, <2>7, RecordMono
  <2> QED
    BY <2>6, <2>8
<1>2. Inv /\ Inv' /\ RecordInv /\ [Next]_vars
        => [Committing /\ maxRatio # NoLimit => Limited]_vars
  BY <1>1
<1> QED
  BY <1>2, StagesKnown, RecordCoversTaking, PTL DEF Spec

-----------------------------------------------------------------------------
(* That a transaction is finite, which needs no fairness: it executes at   *)
(* most one message for each token there is to sell and six besides.       *)
StepsBounded == StepsLeft \in 0 .. Len(Listed) + 6

(* Whatever the stage, what is left of it is a natural number.             *)
LEMMA StepsLeftNat == Inv => StepsLeft \in Nat
BY StepsLeftAt DEF StepsKnown, Inv, Stage, AtSales

LEMMA StepsWithin ==
  ASSUME Inv, [Next]_vars, StepsBounded
  PROVE  /\ StepsBounded'
         /\ [~Idle => StepsLeft' < StepsLeft]_vars
<1> USE DEF StepsBounded
<1>0. Inv' /\ Typed
  BY NextFacts DEF Inv
<1>1. /\ Len(Listed) \in Nat /\ Len(Listed') \in Nat
      /\ Idle' => StepsLeft' = 0
      /\ ~Idle' /\ AtUpdate' => StepsLeft' = Len(Listed') + 6
  BY <1>0, StepsLeftAt, StepsLeftThen DEF Inv, StepsKnown
<1>2. CASE UNCHANGED vars
  <2>1. StepsLeft' = StepsLeft /\ Listed' = Listed
    BY <1>2 DEF vars, txVars, configVars, rewardConfigs, StepsLeft, Listed, Idle
  <2> QED
    BY <1>2, <2>1
<1>3. CASE Idle /\ BeginUpdate
  <2>1. ~Idle' /\ AtUpdate'
    BY <1>0, <1>3, BeginFacts
  <2> QED
    BY <1>1, <1>3, <2>1
<1>4. CASE Idle /\ Idle'
  BY <1>1, <1>4
<1>5. CASE TxStep
  <2>1. StepsLeft' < StepsLeft /\ Listed' = Listed
    BY <1>5, TxStepFacts
  <2>2. (Inv => StepsLeft \in Nat)'
    BY StepsLeftNat, PTL
  <2> QED
    BY <1>0, <1>1, <1>5, <2>1, <2>2
<1> QED
  BY <1>2, <1>3, <1>4, <1>5, StepKinds

(* Every step of a transaction leaves it fewer messages to execute, and at *)
(* most as many as the tokens there are to sell and six: no handler, reply *)
(* or rejection puts off its end.                                          *)
THEOREM TransactionsAreFinite ==
  Spec => /\ []StepsBounded
          /\ [][~Idle => StepsLeft' < StepsLeft]_vars
<1>1. Init => StepsBounded
  <2> SUFFICES ASSUME Init PROVE StepsBounded
    OBVIOUS
  <2>1. Idle /\ Typed
    BY InitInv DEF Init, Idle, Inv
  <2> QED
    BY <2>1, StepsLeftAt DEF StepsKnown, StepsBounded
<1>2. Inv /\ [Next]_vars /\ StepsBounded =>
        /\ StepsBounded'
        /\ [~Idle => StepsLeft' < StepsLeft]_vars
  BY StepsWithin
<1> QED
  BY <1>1, <1>2, StagesKnown, PTL DEF Spec
-----------------------------------------------------------------------------
(* The rate.  Who takes LSD apart is paid rounded down, or pays rounded up,*)
(* so that what is left is worth no less; and transfers, sales, mints and  *)
(* burns of the wrapper only move LSD.                                     *)
KeepsRate == Shares' > 0 => Shares > 0 /\ Rate <= Rate'

LEMMA TakingApartKeepsRate ==
  ASSUME Typed, NEW a \in Accounts, NEW m \in Nat, NEW u \in Nat,
         m <= lsd[a], u <= totalLp, u * Shares <= m * totalLp,
         lsd' = [lsd EXCEPT ![a] = @ - m], totalLp' = totalLp - u
  PROVE  KeepsRate
<1>1. PICK S, T \in Nat : S = Shares /\ T = totalLp
  BY AccountTypes
<1>2. Shares' = S - m /\ m <= S
  <2>1. PICK f \in [Accounts -> Nat] : f = lsd
    BY AccountTypes
  <2>2. /\ lsd' \in [Accounts -> Nat] /\ lsd'[a] = f[a] - m
        /\ \A x \in Accounts : x # a => lsd'[x] = f[x]
    BY <2>1
  <2>3. PICK h \in [Accounts -> Nat] : h = lsd'
    BY <2>2
  <2>4. SumFunction(h) = SumFunction(f) + (h[a] - f[a])
    BY <2>2, <2>3, SharesChange
  <2>5. f[a] <= SumFunction(f) /\ f[a] \in Nat /\ SumFunction(f) \in Nat
    BY SharesBound
  <2> QED
    BY <1>1, <2>1, <2>2, <2>3, <2>4, <2>5 DEF Shares
<1> HIDE DEF Shares
<1>3. SUFFICES ASSUME m < S
               PROVE  Rate <= Rate'
  BY <1>1, <1>2 DEF KeepsRate
<1>4. /\ Rate = (T * ONE) \div S
      /\ Rate' = ((T - u) * ONE) \div (S - m)
  BY <1>1, <1>2, <1>3 DEF Rate
<1>5. CASE m > 0
  BY <1>1, <1>2, <1>3, <1>4, <1>5, UnbondingKeepsRate
<1>6. CASE m = 0
  <2>1. u * S <= 0
    BY <1>1, <1>6
  <2>2. u > 0 => u * S > 0
    BY <1>3, SMT
  <2>3. u = 0
    BY <2>1, <2>2, SMT
  <2>4. T - u = T /\ S - m = S
    BY <1>6, <2>3
  <2>5. Rate' = Rate /\ Rate \in Nat
    BY <1>4, <2>4, AccountTypes
  <2> QED
    BY <2>5
<1> QED
  BY <1>2, <1>5, <1>6

(* LSD that only changes hands.                                            *)
LEMMA MovingKeepsRate ==
  ASSUME Typed, NEW a \in Accounts, NEW b \in Accounts, a # b,
         NEW n \in Nat, n <= lsd[a],
         lsd' = [[lsd EXCEPT ![a] = @ - n] EXCEPT ![b] = @ + n],
         totalLp' = totalLp
  PROVE  KeepsRate
<1>1. Shares' = Shares /\ Rate' = Rate
  BY MoveKeepsRate
<1>2. Rate \in Nat /\ Shares \in Nat
  BY AccountTypes
<1> QED
  BY <1>1, <1>2 DEF KeepsRate

(* No LSD at all.                                                          *)
LEMMA RestingKeepsRate ==
  ASSUME Typed, UNCHANGED <<lsd, totalLp>>
  PROVE  KeepsRate
<1>1. Shares' = Shares /\ Rate' = Rate
  BY DEF Shares, Rate
<1>2. Rate \in Nat /\ Shares \in Nat
  BY AccountTypes
<1> QED
  BY <1>1, <1>2 DEF KeepsRate

(* What the wrapper's users do moves LSD between them and two contracts.   *)
LEMMA WrapperKeepsRate ==
  ASSUME Typed, WrapperStep
  PROVE  KeepsRate
<1>0. /\ totalLp' = totalLp /\ {Wrapper, Reward} \cup Users \subseteq Accounts
      /\ Wrapper \notin Users /\ Reward \notin Users
  BY Parties DEF WrapperStep
<1>1. ASSUME NEW u \in Users, NEW n \in Amounts, W!Mint(u, u, n)
      PROVE  KeepsRate
  <2>1. PICK k \in Nat : W!PullLsd(u, k)
    BY <1>1, LimitedAmountAssumption, PaymentsNat DEF W!Mint, W!MintAt
  <2> QED
    BY <1>0, <2>1, MovingKeepsRate DEF W!PullLsd, W!Move
<1>2. ASSUME NEW u \in Users, NEW n \in Amounts, W!MintWith(u, u, n)
      PROVE  KeepsRate
  <2>1. n \in Nat /\ W!PullLsd(u, n)
    BY <1>2, LimitedAmountAssumption DEF W!MintWith, W!MintWithAt
  <2> QED
    BY <1>0, <2>1, MovingKeepsRate DEF W!PullLsd, W!Move
<1>3. ASSUME NEW u \in Users, NEW n \in Amounts, W!Burn(u, n)
      PROVE  KeepsRate
  <2>1. PICK k \in Nat : W!PushLsd(u, k)
    BY <1>3, LimitedAmountAssumption, PaymentsNat DEF W!Burn, W!BurnAt
  <2> QED
    BY <1>0, <2>1, MovingKeepsRate DEF W!PushLsd, W!Move
<1>4. ASSUME NEW u \in Users, NEW to \in {Wrapper, Reward}, NEW n \in Amounts,
             W!LsdTransfer(u, to, n)
      PROVE  KeepsRate
  <2>1. n \in Nat
    BY LimitedAmountAssumption
  <2> QED
    BY <1>0, <1>4, <2>1, MovingKeepsRate DEF W!LsdTransfer, W!Move
<1>5. W!Tick => KeepsRate
  BY <1>0, RestingKeepsRate DEF W!Tick, W!tokenVars
<1> QED
  BY <1>1, <1>2, <1>3, <1>4, <1>5 DEF WrapperStep

(* A user who takes his own LSD apart is paid rounded down.                *)
LEMMA UnbondOwnKeepsRate ==
  ASSUME Typed, NEW u \in Users, NEW n \in Amounts, UnbondOwn(u, n)
  PROVE  KeepsRate
<1>1. /\ u \in Accounts /\ n \in Nat /\ n <= lsd[u]
      /\ lsd' = [lsd EXCEPT ![u] = @ - n] /\ totalLp' = totalLp - LpFor(n)
  BY Parties, LimitedAmountAssumption DEF UnbondOwn
<1>2. n <= Shares
  <2>1. PICK f \in [Accounts -> Nat] : f = lsd
    BY AccountTypes
  <2>2. f[u] <= SumFunction(f) /\ f[u] \in Nat /\ SumFunction(f) \in Nat
    BY <1>1, <2>1, SharesBound
  <2> QED
    BY <1>1, <2>1, <2>2 DEF Shares
<1> HIDE DEF LpFor, Shares
<1>3. /\ LpFor(n) \in Nat /\ LpFor(n) <= totalLp
      /\ LpFor(n) * Shares <= n * totalLp
  BY <1>1, <1>2, RetrievalBounds
<1> QED
  BY <1>1, <1>3, TakingApartKeepsRate

(* What is bonded earns.                                                   *)
LEMMA EarningKeepsRate ==
  ASSUME Typed, Earn
  PROVE  KeepsRate
<1>1. PICK S, T \in Nat : S = Shares /\ T = totalLp /\ Shares' = S /\ totalLp' = T + 1
  BY AccountTypes DEF Earn, Shares
<1> HIDE DEF Shares
<1>2. SUFFICES ASSUME S > 0
               PROVE  Rate <= Rate'
  BY <1>1 DEF KeepsRate
<1>3. Rate = (T * ONE) \div S /\ Rate' = ((T + 1) * ONE) \div S
  BY <1>1, <1>2 DEF Rate
<1>4. T * ONE \in Nat /\ (T + 1) * ONE \in Nat /\ T * ONE <= (T + 1) * ONE
  BY LimitedAmountAssumption, SMT
<1>5. PICK a, b \in Nat : a = T * ONE /\ b = (T + 1) * ONE /\ a <= b
  BY <1>4
<1>6. a \div S <= b \div S
  <2>1. PICK p, q \in Nat : /\ p = a \div S /\ q = b \div S
                            /\ p * S <= a /\ b < q * S + S
    BY <1>2, <1>5, Arithmetic!DivBounds, ArithmeticFacts
  <2>2. p * S < (q + 1) * S
    <3>1. (q + 1) * S = q * S + S /\ p * S \in Nat /\ q * S \in Nat
      BY SMT
    <3> QED
      BY <1>5, <2>1, <3>1
  <2>3. p < q + 1
    BY <1>2, <2>2, Arithmetic!MulCancel, ArithmeticFacts
  <2> QED
    BY <2>1, <2>3
<1> QED
  BY <1>3, <1>5, <1>6

(* No handler of a transaction makes an LSD worth less.                    *)
LEMMA RunKeepsRate ==
  ASSUME Inv, ~Idle, Run(Head(stack))
  PROVE  KeepsRate
<1>0. Typed /\ Stage
  BY DEF Inv
<1>1. CASE RunDecompound(Head(stack))
  BY <1>0, <1>1, RestingKeepsRate DEF RunDecompound
<1>2. CASE RunTransferLsd(Head(stack))
  <2>1. AtTransfer
    BY <1>0, <1>2, HeadOfStage DEF Stage, RunTransferLsd
  <2>2. PICK n \in 0 .. lsd[Wrapper] : Head(stack) = TransferLsd(Reward, n)
    BY <2>1 DEF AtTransfer
  <2>3. n \in Nat /\ W!PushLsd(Reward, n) /\ totalLp' = totalLp
    BY <1>2, <2>2 DEF RunTransferLsd, TransferLsd
  <2> QED
    BY <1>0, <2>3, Parties, MovingKeepsRate DEF W!PushLsd, W!Move
<1>3. CASE RunRetrieve(Head(stack)) \/ RunReply(Head(stack))
  <2>1. UNCHANGED <<lsd, totalLp>>
    BY <1>3 DEF RunRetrieve, RunReply, SellOffers
  <2> QED
    BY <1>0, <2>1, RestingKeepsRate
<1>4. CASE RunUnbond(Head(stack))
  <2>1. AtUnbond
    BY <1>0, <1>4, HeadOfStage DEF Stage, RunUnbond
  <2>2. PICK m, w, b \in Nat :
          /\ b = LpFor(lsd[Reward]) /\ m <= lsd[Reward]
          /\ b * Shares <= m * totalLp
          /\ lsd' = [lsd EXCEPT ![Reward] = @ - m]
          /\ totalLp' = totalLp - b
    BY <1>0, <1>4, <2>1, UnbondNumbers
  <2>3. LpFor(lsd[Reward]) <= totalLp
    BY <1>0, RetrievalBounds, AccountTypes
  <2> QED
    BY <1>0, <2>2, <2>3, Parties, TakingApartKeepsRate
<1>5. CASE RunWithdrawLiquidity(Head(stack))
  BY <1>0, <1>5, RestingKeepsRate DEF RunWithdrawLiquidity
<1>6. CASE RunSell(Head(stack)) /\ UNCHANGED totalLp
  <2>1. AtSales
    BY <1>0, <1>6, HeadOfStage DEF Stage, RunSell
  <2>2. Head(stack) \in SaleMessages /\ Head(stack).amount = Held(Head(stack).asset)
    <3>1. stack \in Seq(SaleMessages) /\ Len(stack) > 0
      BY <2>1 DEF AtSales, Sales, Idle
    <3> QED
      BY <2>1, <3>1 DEF AtSales, Sales
  <2>3. PICK x, n : x = Head(stack).asset /\ n = Head(stack).amount /\ n = Held(x)
    BY <2>2
  <2>4. PICK paid \in Quotes : Exchange(x, n, paid)
    BY <1>6, <2>3 DEF RunSell
  <2>5. CASE x # Lsd
    BY <1>0, <1>6, <2>4, <2>5, RestingKeepsRate DEF Exchange
  <2>6. CASE x = Lsd
    <3>1. n = lsd[Reward] /\ n \in Nat /\ n <= lsd[Reward] /\ Reward # Market
          /\ Reward \in Accounts /\ Market \in Accounts /\ lsd \in [Accounts -> Nat]
      BY <1>0, <2>3, <2>6, AccountTypes, Parties DEF Held
    <3>2. lsd' = [[lsd EXCEPT ![Reward] = @ - n] EXCEPT ![Market] = @ + n]
      <4>1. lsd' = [lsd EXCEPT ![Reward] = @ - n, ![Market] = @ + n]
        BY <2>4, <2>6 DEF Exchange
      <4> QED
        BY <3>1, <4>1
    <3> QED
      BY <1>0, <1>6, <3>1, <3>2, MovingKeepsRate
  <2> QED
    BY <2>5, <2>6
<1> QED
  BY <1>1, <1>2, <1>3, <1>4, <1>5, <1>6 DEF Run, RunReward

(* The rate and the shares as the rest of the chain sees them, and the     *)
(* loss of what is bonded.                                                 *)
SeenShares == IF Idle THEN Shares ELSE SumFunction(saved.lsd)
SeenRate == IF Idle THEN Rate ELSE RateAt(saved)
Losing == Idle /\ ProtocolStep /\ \E n \in Losses : Lose(n)

(* While there are shares in a transaction there were at its beginning, at *)
(* no better rate.                                                         *)
RateInv ==
  ~Idle /\ Shares > 0 =>
    SumFunction(saved.lsd) > 0 /\ RateAt(saved) <= Rate

(* Nor does anything between transactions but a loss.                      *)
LEMMA IdleKeepsRate ==
  ASSUME Typed, ~Losing, Idle,
         WrapperStep \/ ProtocolStep \/ ConfigStep \/ RewardStep
  PROVE  KeepsRate
<1>1. CASE WrapperStep
  BY <1>1, WrapperKeepsRate
<1>2. CASE ProtocolStep
  <2>1. ASSUME NEW u \in Users, NEW n \in Amounts, UnbondOwn(u, n)
        PROVE  KeepsRate
    BY <2>1, UnbondOwnKeepsRate
  <2>2. ~\E n \in Losses : Lose(n)
    BY <1>2 DEF Losing
  <2> QED
    BY <1>2, <2>1, <2>2, EarningKeepsRate DEF ProtocolStep
<1>3. CASE ConfigStep
  BY <1>3, RestingKeepsRate DEF ConfigStep
<1>4. CASE RewardStep
  <2>1. lsd' = lsd
    BY <1>4, RewardStepFacts
  <2>2. totalLp' = totalLp
    BY <1>4 DEF RewardStep
  <2> QED
    BY <2>1, <2>2, RestingKeepsRate
<1> QED
  BY <1>1, <1>2, <1>3, <1>4

(* These are natural numbers.                                              *)
LEMMA SeenTypes ==
  Inv => Rate \in Nat /\ Shares \in Nat /\ SeenRate \in Nat /\ SeenShares \in Nat
<1> SUFFICES ASSUME Inv
             PROVE  Rate \in Nat /\ Shares \in Nat
                    /\ SeenRate \in Nat /\ SeenShares \in Nat
  OBVIOUS
<1>1. Rate \in Nat /\ Shares \in Nat
  BY AccountTypes DEF Inv
<1>2. ASSUME ~Idle
      PROVE  RateAt(saved) \in Nat /\ SumFunction(saved.lsd) \in Nat
  <2>1. saved.lsd \in [Accounts -> Nat] /\ saved.totalLp \in Nat
    BY <1>2, SavedTypes DEF Inv
  <2> QED
    BY <2>1, RateAtNat, SharesBound
<1> QED
  BY <1>1, <1>2 DEF SeenRate, SeenShares

(* Every step keeps the relation and, seen from outside, the rate.         *)
LEMMA RateStep ==
  ASSUME Inv, RateInv, [Next]_vars
  PROVE  /\ RateInv'
         /\ SeenShares' > 0 /\ ~Losing => SeenShares > 0 /\ SeenRate <= SeenRate'
<1>0. /\ Typed /\ Rate \in Nat /\ Shares \in Nat
      /\ SeenRate \in Nat /\ SeenShares \in Nat
  BY SeenTypes DEF Inv
<1>1. /\ Rate' \in Nat /\ Shares' \in Nat
      /\ SeenRate' \in Nat /\ SeenShares' \in Nat
  <2>1. (Inv => Rate \in Nat /\ Shares \in Nat
                /\ SeenRate \in Nat /\ SeenShares \in Nat)'
    BY SeenTypes, PTL
  <2> QED
    BY <2>1, NextFacts
<1>2. CASE UNCHANGED vars
  <2>1. SeenRate' = SeenRate /\ SeenShares' = SeenShares /\ (RateInv <=> RateInv')
    BY <1>2 DEF vars, txVars, SeenRate, SeenShares, Rate, RateAt, Shares, Idle, RateInv
  <2> QED
    BY <1>0, <2>1
<1>3. CASE Idle /\ BeginUpdate
  <2>1. /\ ~Idle' /\ saved'.lsd = lsd /\ saved'.totalLp = totalLp
        /\ UNCHANGED <<lsd, totalLp>>
    BY <1>0, <1>3, BeginFacts
    DEF BeginUpdate, UpdateGlobalIndex, Begin, Snapshot
  <2>2. /\ RateAt(saved)' = Rate /\ Rate' = Rate
        /\ SumFunction(saved'.lsd) = Shares /\ Shares' = Shares
    BY <2>1 DEF RateAt, Rate, Shares
  <2> QED
    BY <1>0, <1>3, <2>1, <2>2 DEF RateInv, SeenRate, SeenShares
<1>4. CASE /\ Idle /\ Idle'
           /\ WrapperStep \/ ProtocolStep \/ ConfigStep \/ RewardStep
  <2>1. ~Losing => KeepsRate
    BY <1>0, <1>4, IdleKeepsRate
  <2> QED
    BY <1>4, <2>1 DEF RateInv, SeenRate, SeenShares, KeepsRate
<1>5. CASE TxStep /\ Abort
  <2>1. /\ ~Idle /\ Idle' /\ lsd' = saved.lsd /\ totalLp' = saved.totalLp
    BY <1>5 DEF TxStep, Abort, Undo, Idle
  <2>2. SeenRate' = SeenRate /\ SeenShares' = SeenShares
    BY <2>1 DEF SeenRate, SeenShares, Rate, RateAt, Shares
  <2> QED
    BY <1>0, <2>1, <2>2 DEF RateInv
<1>6. CASE TxStep /\ ~Abort
  <2>1. /\ ~Idle /\ Run(Head(stack)) /\ GoesOnOrEnds
    BY <1>6, TxStepFacts DEF TxStep
  <2>2. KeepsRate
    BY <2>1, RunKeepsRate
  <2>3. /\ SeenRate = RateAt(saved) /\ SeenShares = SumFunction(saved.lsd)
    BY <2>1 DEF SeenRate, SeenShares
  <2>4. Shares' > 0 => /\ SeenShares > 0 /\ SeenRate <= Rate'
    BY <1>0, <1>1, <2>1, <2>2, <2>3 DEF RateInv, KeepsRate
  <2>5. CASE ~Idle'
    <3>1. saved' = saved
      BY <2>1, <2>5 DEF GoesOnOrEnds, Idle
    <3>2. SeenRate' = SeenRate /\ SeenShares' = SeenShares
      BY <2>1, <2>5, <3>1 DEF SeenRate, SeenShares, RateAt
    <3> QED
      BY <1>0, <2>3, <2>4, <3>1, <3>2 DEF RateInv, RateAt
  <2>6. CASE Idle'
    BY <2>4, <2>6 DEF RateInv, SeenRate, SeenShares
  <2> QED
    BY <2>5, <2>6
<1> QED
  BY <1>2, <1>3, <1>4, <1>5, <1>6, StepKinds

(* What an LSD is worth, as the rest of the chain sees it, falls only when *)
(* the staking protocol loses what it has bonded: neither the wrapper's    *)
(* users nor any update, committed or undone, nor who takes his LSD apart, *)
(* lowers it for those who stay.                                           *)
THEOREM RateFallsOnlyByLoss ==
  Spec => [][SeenShares' > 0 /\ ~Losing => SeenRate <= SeenRate']_vars
<1>1. Init => RateInv
  BY DEF Init, RateInv, Idle
<1>2. Inv /\ RateInv /\ [Next]_vars =>
        /\ RateInv'
        /\ [SeenShares' > 0 /\ ~Losing => SeenRate <= SeenRate']_vars
  BY RateStep
<1> QED
  BY <1>1, <1>2, StagesKnown, PTL DEF Spec

(* The vault is part of the shares.                                        *)
LEMMA VaultBound == Inv => lsd[Wrapper] \in Nat /\ lsd[Wrapper] <= Shares
<1> SUFFICES ASSUME Inv PROVE lsd[Wrapper] \in Nat /\ lsd[Wrapper] <= Shares
  OBVIOUS
<1>1. PICK f \in [Accounts -> Nat] : f = lsd
  BY AccountTypes DEF Inv
<1> QED
  BY <1>1, Parties, SharesBound DEF Shares

(* A transaction that finds the wrapper solvent leaves it solvent, however *)
(* it ends: what it takes from the vault it takes from the excess, and     *)
(* what it does to the staking protocol does not cost the vault anything.  *)
LEMMA TransactionKeepsCover ==
  ASSUME Inv, RateInv, [Next]_vars, ~Idle, Idle',
         saved.lsd[Wrapper] * RateAt(saved) >= supply * ONE
  PROVE  lsd'[Wrapper] * Rate' >= supply' * ONE
<1>0. TxStep
  BY StepKinds DEF vars, txVars, Idle
<1>1. PICK s : s = saved
  OBVIOUS
<1>2. Typed /\ supply' = supply
  BY <1>0 DEF Inv, TxStep, tokenVars
<1>3. CASE Abort
  <2>1. lsd' = saved.lsd /\ totalLp' = saved.totalLp
    BY <1>3 DEF Abort
  <2>2. Rate' = RateAt(saved)
    BY <2>1 DEF Rate, RateAt, Shares
  <2> QED
    BY <1>2, <2>1, <2>2
<1>4. CASE ~Abort
  <2>1. \/ lsd'[Wrapper] = s.lsd[Wrapper]
        \/ lsd'[Wrapper] * Rate' >= supply' * ONE
    BY <1>0, <1>1, <1>4, TxStepFacts
    DEF Done, Retrieved, VaultHarvested, StillCovered
  <2>2. ASSUME lsd'[Wrapper] = s.lsd[Wrapper]
        PROVE  lsd'[Wrapper] * Rate' >= supply' * ONE
    <3>1. /\ Rate' \in Nat /\ Shares' \in Nat
          /\ lsd'[Wrapper] \in Nat /\ lsd'[Wrapper] <= Shares'
      <4>1. (Inv => Rate \in Nat /\ Shares \in Nat
                    /\ SeenRate \in Nat /\ SeenShares \in Nat)'
        BY SeenTypes, PTL
      <4>2. (Inv => lsd[Wrapper] \in Nat /\ lsd[Wrapper] <= Shares)'
        BY VaultBound, PTL
      <4> QED
        BY <4>1, <4>2, NextFacts
    <3>2. PICK v, p, q, u \in Nat :
            /\ v = lsd'[Wrapper] /\ p = RateAt(saved) /\ q = Rate'
            /\ u = supply * ONE
      <4>1. supply * ONE \in Nat
        BY <1>2, AccountTypes, LimitedAmountAssumption, SMT
      <4>2. RateAt(saved) \in Nat
        BY <1>2, SavedTypes, RateAtNat
      <4> QED
        BY <3>1, <4>1, <4>2
    <3>3. v * p >= u
      BY <1>1, <2>2, <3>2
    <3>4. v > 0 => p <= q
      <4>1. v > 0 => SeenShares' > 0
        BY <3>1, <3>2 DEF SeenShares
      <4>2. v > 0 => SeenRate <= SeenRate'
        BY <4>1, RateStep DEF Losing
      <4> QED
        BY <3>2, <4>2 DEF SeenRate
    <3>5. v * q >= u
      <4>1. CASE v = 0
        <5>1. v * p = 0 /\ v * q = 0
          BY <4>1, SMT
        <5> QED
          BY <3>3, <5>1
      <4>2. CASE v > 0
        <5>1. p * v <= q * v
          BY <3>4, <4>2, Arithmetic!MulMono, ArithmeticFacts
        <5>2. p * v = v * p /\ q * v = v * q /\ v * p \in Nat /\ v * q \in Nat
          BY SMT
        <5> QED
          BY <3>3, <5>1, <5>2
      <4> QED
        BY <4>1, <4>2
    <3> QED
      BY <1>2, <3>2, <3>5
  <2> QED
    BY <1>1, <2>1, <2>2
<1> QED
  BY <1>3, <1>4

(* The same as a theorem: no update, committed or undone, puts a wrapper   *)
(* that was worth one Luna per token under water.                          *)
THEOREM UpdateNeverUncovers ==
  Spec => [][/\ ~Idle /\ Idle'
             /\ saved.lsd[Wrapper] * RateAt(saved) >= supply * ONE
             => lsd'[Wrapper] * Rate' >= supply' * ONE]_vars
<1>1. Init => RateInv
  BY DEF Init, RateInv, Idle
<1>2. Inv /\ RateInv /\ [Next]_vars => RateInv'
  BY RateStep
<1>3. Inv /\ RateInv /\ [Next]_vars =>
        [/\ ~Idle /\ Idle'
         /\ saved.lsd[Wrapper] * RateAt(saved) >= supply * ONE
         => lsd'[Wrapper] * Rate' >= supply' * ONE]_vars
  BY TransactionKeepsCover
<1> QED
  BY <1>1, <1>2, <1>3, StagesKnown, PTL DEF Spec
=============================================================================
