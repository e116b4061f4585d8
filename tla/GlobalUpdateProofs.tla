------------------------- MODULE GlobalUpdateProofs -------------------------
(***************************************************************************)
(* Theorems about GlobalUpdate, for every value of its constants: that the *)
(* message tree of an update, executed handler by handler and undone when  *)
(* one fails, looks from outside like a harvest of the vault and a         *)
(* distribution of rewards that happen at once or not at all.              *)
(***************************************************************************)
EXTENDS GlobalUpdate, RewardContractProofs, FiniteSetTheorems

(* The theorems about the wrapper token hold of it here.                   *)
WP == INSTANCE LsdWrapperProofs
        WITH Users <- Users \cup {Reward, Market, Elsewhere},
             Receivers <- {}, Spenders <- {}, InitialGrants <- {0}, Expiries <- {}

-----------------------------------------------------------------------------
(* The invariant.  A transaction passes through four stages, in which what *)
(* is queued, and how the state differs from the saved one, are known.     *)

Typed ==
  /\ TypeOK /\ Distinct
  /\ ~Idle => saved \in Snapshots

(* Untouched, or the vault still covers the supply: s is the state saved.  *)
Untouched(s) == lsd = s.lsd /\ held = s.held
StillCovered(v) == v * rate >= supply * ONE
VaultHarvested(s) ==
  \/ lsd[Wrapper] = s.lsd[Wrapper]
  \/ lsd[Wrapper] <= s.lsd[Wrapper] /\ StillCovered(lsd[Wrapper])

(* What there was to sell of x, once the harvest had arrived.              *)
Before(s, x) ==
  IF x = Lsd THEN s.lsd[Reward] + (s.lsd[Wrapper] - lsd[Wrapper]) ELSE s.held[x]

(* The harvest has arrived, and no LSD has gone anywhere else.             *)
Arrived(s) ==
  /\ lsd[Reward] = Before(s, Lsd) /\ lsd[Market] = s.lsd[Market]
  /\ SumFunction(lsd) = SumFunction(s.lsd)

(* Each asset is sold or not, the LSD to the market, and something was     *)
(* earned if anything was sold.                                            *)
SoldOrKept(s) ==
  /\ held[Stable] >= s.held[Stable]
  /\ \A x \in Goods \ {Stable} : Held(x) \in {0, Before(s, x)}
  /\ lsd[Market] = s.lsd[Market] + (Before(s, Lsd) - lsd[Reward])
  /\ SumFunction(lsd) = SumFunction(s.lsd)
  /\ held[Stable] > s.held[Stable]
       <=> \E x \in Goods \ {Stable} : Held(x) < Before(s, x)

(* The first sale, the one that is paid as it was answered, comes first.   *)
FirstSaleFirst(s) ==
  stack # << >> => stack[1].first \/ held[Stable] > s.held[Stable]

(* The hub's two messages are queued; the transfer of the harvest is; only *)
(* the swap is; or the sales are.                                          *)
AtUpdate ==
  stack = UpdateMessages /\ hubConfig.reward # None /\ Untouched(saved)

AtTransfer ==
  \E n \in 0 .. lsd[Wrapper] :
    /\ stack = <<TransferLsd(hubConfig.reward, n),
                 SwapToRewardDenom(Hub, hubConfig.reward)>>
    /\ hubConfig.reward # None
    /\ StillCovered(lsd[Wrapper] - n)
    /\ Untouched(saved)

AtSwap ==
  \E from, at \in Users \cup {Hub} \cup Targets \cup {Reward} :
    /\ stack = <<SwapToRewardDenom(from, at)>>
    /\ from = Hub => at = hubConfig.reward
    /\ held = saved.held /\ VaultHarvested(saved)
    /\ at = Reward => Arrived(saved)

AtSales ==
  /\ Sales(stack) /\ AllOnSale(stack) /\ FirstSaleFirst(saved)
  /\ VaultHarvested(saved) /\ SoldOrKept(saved)

Stage == AtUpdate \/ AtTransfer \/ AtSwap \/ AtSales

Inv == Typed /\ (~Idle => Stage)

-----------------------------------------------------------------------------
(* What is known of the wrapper token in general, in the terms of          *)
(* GlobalUpdate.                                                           *)

(* The contracts are different accounts, and none of the users.            *)
LEMMA Parties ==
  /\ Wrapper \notin Users \cup {Hub, Reward, Market, Elsewhere}
  /\ Hub \notin Users \cup {Reward, Market, Elsewhere}
  /\ Reward \notin Users \cup {Market, Elsewhere} /\ Market \notin Users
  /\ IsFiniteSet(Users)
  /\ Targets \subseteq {Wrapper, Reward, Elsewhere}
<1>1. Reward # Market
  BY RewardAssumption
<1> QED
  BY <1>1, GlobalUpdateAssumption

LEMMA FiniteAccounts ==
  IsFiniteSet(Accounts) /\ IsFiniteSet(Users \cup {Reward, Market, Elsewhere})
<1>1. /\ IsFiniteSet({Reward}) /\ IsFiniteSet({Market})
      /\ IsFiniteSet({Elsewhere}) /\ IsFiniteSet({Wrapper}) /\ IsFiniteSet({Hub})
  BY FS_Singleton
<1>2. IsFiniteSet(Users \cup {Reward})
  BY <1>1, Parties, FS_Union
<1>3. IsFiniteSet((Users \cup {Reward}) \cup {Market})
  BY <1>1, <1>2, FS_Union
<1>4. IsFiniteSet(((Users \cup {Reward}) \cup {Market}) \cup {Elsewhere})
  BY <1>1, <1>3, FS_Union
<1> DEFINE outside == Users \cup {Reward, Market, Elsewhere}
<1>5. IsFiniteSet(outside)
  <2>1. ((Users \cup {Reward}) \cup {Market}) \cup {Elsewhere} = outside
    OBVIOUS
  <2> QED
    BY <1>4, <2>1
<1>6. Accounts = (outside \cup {Wrapper}) \cup {Hub}
  BY DEF Accounts
<1> HIDE DEF outside
<1>7. IsFiniteSet(outside \cup {Wrapper})
  BY <1>1, <1>5, FS_Union
<1>8. IsFiniteSet((outside \cup {Wrapper}) \cup {Hub})
  BY <1>1, <1>7, FS_Union
<1> QED
  BY <1>5, <1>6, <1>8 DEF outside

LEMMA WrapperAssumptions ==
  /\ WP!OneAssumption /\ WP!ActorAssumption
  /\ WP!ExpiryAssumption /\ WP!AmountAssumption
<1> USE Parties
<1>1. IsFiniteSet(Users \cup {Reward, Market, Elsewhere})
  BY FiniteAccounts
<1>2. WP!Accounts = Accounts
  BY DEF WP!Accounts, Accounts
<1>3. WP!OneAssumption /\ WP!ExpiryAssumption
  BY GlobalAmountAssumption DEF WP!OneAssumption, WP!ExpiryAssumption
<1>4. WP!ActorAssumption
  <2>1. /\ Wrapper \notin Users \cup {Reward, Market, Elsewhere}
        /\ Hub \notin Users \cup {Reward, Market, Elsewhere}
        /\ Wrapper # Hub
    OBVIOUS
  <2>2. {} \subseteq WP!Accounts \ {Wrapper} /\ {} \subseteq WP!Accounts
    OBVIOUS
  <2>3. WP!IsFiniteSet(Users \cup {Reward, Market, Elsewhere})
    BY <1>1 DEF WP!IsFiniteSet, IsFiniteSet
  <2> QED
    BY <2>1, <2>2, <2>3 DEF WP!ActorAssumption
<1>5. WP!AmountAssumption
  BY <1>2, GlobalAmountAssumption DEF WP!AmountAssumption
<1> QED
  BY <1>3, <1>4, <1>5

LEMMA WrapperAgrees ==
  /\ W!Accounts = Accounts /\ WP!Accounts = Accounts
  /\ W!TypeOK <=> WP!TypeOK
  /\ W!Slashed <=> WP!Slashed
  /\ \A b, s, r : W!LsdRewards(b, s, r) = WP!LsdRewards(b, s, r)
  /\ W!Init => WP!TokenInit
<1>1. W!Accounts = Accounts /\ WP!Accounts = Accounts
  BY DEF W!Accounts, WP!Accounts, Accounts
<1>2. W!TypeOK <=> WP!TypeOK
  BY <1>1 DEF W!TypeOK, WP!TypeOK, W!TokenTypeOK, WP!TokenTypeOK,
              W!Allowances, WP!Allowances
<1>3. W!Slashed <=> WP!Slashed
  BY DEF W!Slashed, WP!Slashed, W!ExchangeRate, WP!ExchangeRate,
         W!Backing, WP!Backing, W!QuoInt, WP!QuoInt, W!Prod, WP!Prod,
         W!FromInt, WP!FromInt
<1>4. \A b, s, r : W!LsdRewards(b, s, r) = WP!LsdRewards(b, s, r)
  BY DEF W!LsdRewards, WP!LsdRewards, W!ExcessLsd, WP!ExcessLsd,
         W!Trunc, WP!Trunc, W!FromInt, WP!FromInt, W!Quo, WP!Quo
<1>5. W!Init => WP!TokenInit
  BY <1>1 DEF W!Init, W!TokenInit, WP!TokenInit, W!NoAllowance, WP!NoAllowance
<1> QED
  BY <1>1, <1>2, <1>3, <1>4, <1>5

-----------------------------------------------------------------------------
(* What the wrapper's users and the LSD's market do.                       *)

(* Their steps are steps of LsdWrapper.                                    *)
LEMMA WrapperStepIsNext ==
  ASSUME WrapperStep
  PROVE  WP!Next
<1>1. ASSUME NEW u \in Users, NEW n \in Amounts, W!Mint(u, u, n)
      PROVE  WP!Mint(u, u, n)
  BY <1>1 DEF W!Mint, W!MintAt, W!PullLsd, W!DepositFor, W!Issue, W!Move,
              W!Trunc, W!Quo, W!FromInt,
              WP!Mint, WP!MintAt, WP!PullLsd, WP!DepositFor, WP!Issue, WP!Move,
              WP!Trunc, WP!Quo, WP!FromInt
<1>2. ASSUME NEW u \in Users, NEW n \in Amounts, W!MintWith(u, u, n)
      PROVE  WP!MintWith(u, u, n)
  BY <1>2 DEF W!MintWith, W!MintWithAt, W!PullLsd, W!MintFor, W!Issue, W!Move,
              W!Trunc, W!Prod, W!FromInt,
              WP!MintWith, WP!MintWithAt, WP!PullLsd, WP!MintFor, WP!Issue,
              WP!Move, WP!Trunc, WP!Prod, WP!FromInt
<1>3. ASSUME NEW u \in Users, NEW n \in Amounts, W!Burn(u, n)
      PROVE  WP!Burn(u, n)
  BY <1>3 DEF W!Burn, W!BurnAt, W!PushLsd, W!PayoutFor, W!Destroy, W!Move,
              W!Trunc, W!Quo, W!FromInt,
              WP!Burn, WP!BurnAt, WP!PushLsd, WP!PayoutFor, WP!Destroy, WP!Move,
              WP!Trunc, WP!Quo, WP!FromInt
<1>4. ASSUME NEW u \in Users, NEW to \in {Wrapper, Reward}, NEW n \in Amounts,
             W!LsdTransfer(u, to, n)
      PROVE  WP!LsdTransfer(u, to, n)
  BY <1>4 DEF W!LsdTransfer, W!Move, WP!LsdTransfer, WP!Move
<1>5. W!LsdRateChange => WP!LsdRateChange
  BY DEF W!LsdRateChange, WP!LsdRateChange
<1>6. /\ Users \subseteq Users \cup {Reward, Market, Elsewhere}
      /\ Users \subseteq WP!Accounts /\ {Wrapper, Reward} \subseteq WP!Accounts
  BY DEF WP!Accounts
<1>7. ASSUME NEW u \in Users, NEW n \in Amounts,
             WP!Mint(u, u, n) \/ WP!MintWith(u, u, n) \/ WP!Burn(u, n)
      PROVE  WP!Next
  <2>1. WP!TokenStep(u)
    BY <1>6, <1>7 DEF WP!TokenStep
  <2> QED
    BY <1>6, <2>1 DEF WP!Next
<1>8. ASSUME NEW u \in Users, NEW to \in {Wrapper, Reward}, NEW n \in Amounts,
             WP!LsdTransfer(u, to, n)
      PROVE  WP!Next
  BY <1>6, <1>8 DEF WP!Next, WP!OutsideStep
<1> QED
  BY <1>1, <1>2, <1>3, <1>4, <1>5, <1>7, <1>8
  DEF WrapperStep, WP!Next, WP!OutsideStep

(* LSD that a user sends the vault, or takes from it for burnt tokens; and  *)
(* LSD that one sends the reward contract.                                 *)
Traded ==
  /\ lsd'[Reward] = lsd[Reward]
  /\ lsd'[Wrapper] < lsd[Wrapper] => supply' < supply
Donated ==
  /\ lsd'[Wrapper] = lsd[Wrapper] /\ supply' = supply
  /\ lsd'[Reward] >= lsd[Reward]

(* They keep the types and are steps of the vault; none of the LSD is      *)
(* lost or goes to the market.                                             *)
LEMMA WrapperStepFacts ==
  ASSUME W!TypeOK, WrapperStep
  PROVE  /\ W!TypeOK' /\ [WP!Vault!VNext]_(WP!Vault!vvars)
         /\ SumFunction(lsd') = SumFunction(lsd) /\ lsd'[Market] = lsd[Market]
         /\ Traded \/ Donated
<1>1. WP!TypeOK /\ WP!Next
  BY WrapperAgrees, WrapperStepIsNext
<1>2. WP!TypeOK' /\ [WP!Vault!VNext]_(WP!Vault!vvars)
  BY <1>1, WrapperAssumptions, WP!NextOK
<1>3. W!TypeOK'
  BY <1>2, WrapperAgrees
     DEF W!TypeOK, WP!TypeOK, W!TokenTypeOK, WP!TokenTypeOK,
         W!Allowances, WP!Allowances
<1>4. lsd \in [Accounts -> Nat] /\ {Wrapper, Reward} \subseteq Accounts
  BY WrapperAgrees DEF W!TypeOK, W!TokenTypeOK, Accounts
<1>5. /\ Market \in Accounts /\ rate \in Nat /\ supply \in Nat
      /\ \A a \in Accounts : lsd[a] \in Nat
  BY <1>4, WrapperAgrees, GlobalAmountAssumption
  DEF W!TypeOK, W!TokenTypeOK, Accounts
<1> DEFINE Goal == /\ SumFunction(lsd') = SumFunction(lsd)
                   /\ lsd'[Market] = lsd[Market]
                   /\ Traded \/ Donated
<1>6. ASSUME NEW a \in Accounts, NEW b \in Accounts \ {a}, NEW n \in Nat,
             n <= lsd[a], lsd' = W!Move(lsd, a, b, n)
      PROVE  /\ SumFunction(lsd') = SumFunction(lsd)
             /\ lsd'[a] = lsd[a] - n /\ lsd'[b] = lsd[b] + n
             /\ \A x \in Accounts \ {a, b} : lsd'[x] = lsd[x]
  <2>1. PICK f \in [Accounts -> Nat], h \in {lsd'} : f = lsd /\ h = lsd'
    BY <1>4
  <2>2. n <= f[a] /\ h = Moved(f, a, b, n)
    BY <1>6, <2>1 DEF W!Move, Moved
  <2>3. /\ SumFunction(h) = SumFunction(f)
        /\ h[a] = f[a] - n /\ h[b] = f[b] + n
        /\ \A x \in Accounts \ {a, b} : h[x] = f[x]
    BY <2>2, FiniteAccounts, TransferKeepsSum
  <2> QED
    BY <2>1, <2>3
<1>7. ASSUME NEW u \in Users
      PROVE  /\ u \in Accounts /\ u \notin {Wrapper, Reward, Market}
             /\ Wrapper # Reward /\ Wrapper # Market /\ Reward # Market
  BY Parties DEF Accounts
<1>8. ASSUME NEW u \in Users, NEW n \in Amounts,
             W!Mint(u, u, n) \/ W!MintWith(u, u, n)
      PROVE  Goal
  <2>1. PICK d \in Nat : d <= lsd[u] /\ lsd' = W!Move(lsd, u, Wrapper, d)
    <3>1. n \in Nat
      BY GlobalAmountAssumption
    <3>2. CASE W!MintWith(u, u, n)
      BY <3>1, <3>2 DEF W!MintWith, W!MintWithAt, W!PullLsd
    <3>3. CASE W!Mint(u, u, n)
      <4>1. /\ rate > 0 /\ W!DepositFor(n, rate) <= lsd[u]
            /\ lsd' = W!Move(lsd, u, Wrapper, W!DepositFor(n, rate))
        BY <3>3 DEF W!Mint, W!MintAt, W!PullLsd
      <4>2. W!DepositFor(n, rate) = WP!DepositFor(n, rate)
        BY DEF W!DepositFor, WP!DepositFor, W!Trunc, WP!Trunc, W!Quo, WP!Quo,
               W!FromInt, WP!FromInt
      <4>3. WP!DepositFor(n, rate) \in Nat
        BY <1>5, <3>1, <4>1, WrapperAssumptions, WP!DepositCovers
      <4> QED
        BY <4>1, <4>2, <4>3
    <3> QED
      BY <1>8, <3>2, <3>3
  <2>2. /\ SumFunction(lsd') = SumFunction(lsd)
        /\ lsd'[Wrapper] = lsd[Wrapper] + d
        /\ lsd'[Reward] = lsd[Reward] /\ lsd'[Market] = lsd[Market]
    BY <1>4, <1>5, <1>6, <1>7, <2>1
  <2> QED
    BY <1>4, <1>5, <2>2 DEF Traded
<1>9. ASSUME NEW u \in Users, NEW n \in Amounts, W!Burn(u, n)
      PROVE  Goal
  <2> DEFINE d == W!PayoutFor(n, rate)
  <2>1. /\ rate > 0 /\ n \in Nat /\ supply' = supply - n
        /\ d <= lsd[Wrapper] /\ lsd' = W!Move(lsd, Wrapper, u, d)
    BY <1>9, GlobalAmountAssumption DEF W!Burn, W!BurnAt, W!Destroy, W!PushLsd
  <2>2. d \in Nat /\ d * rate <= n * ONE
    <3>1. d = WP!PayoutFor(n, rate)
      BY DEF W!PayoutFor, WP!PayoutFor, W!Trunc, WP!Trunc, W!Quo, WP!Quo,
             W!FromInt, WP!FromInt
    <3> HIDE DEF d
    <3> QED
      BY <1>5, <2>1, <3>1, WrapperAssumptions, WP!PayoutCovered
  <2> HIDE DEF d
  <2>3. d > 0 => n > 0
    <3> SUFFICES ASSUME d > 0, n = 0 PROVE FALSE
      BY <2>1, <2>2
    <3>1. d * rate > 0 /\ n * ONE = 0
      BY <1>5, <2>1, <2>2, GlobalAmountAssumption, SMT
    <3> QED
      BY <1>5, <2>2, <3>1
  <2>4. /\ SumFunction(lsd') = SumFunction(lsd)
        /\ lsd'[Wrapper] = lsd[Wrapper] - d
        /\ lsd'[Reward] = lsd[Reward] /\ lsd'[Market] = lsd[Market]
    BY <1>4, <1>5, <1>6, <1>7, <2>1, <2>2
  <2> QED
    BY <1>4, <1>5, <2>1, <2>2, <2>3, <2>4 DEF Traded
<1>10. ASSUME NEW u \in Users, NEW to \in {Wrapper, Reward}, NEW n \in Amounts,
              W!LsdTransfer(u, to, n)
       PROVE  Goal
  <2>1. /\ n \in Nat /\ n <= lsd[u] /\ supply' = supply
        /\ lsd' = W!Move(lsd, u, to, n)
    BY <1>10, GlobalAmountAssumption DEF W!LsdTransfer
  <2>2. /\ SumFunction(lsd') = SumFunction(lsd)
        /\ lsd'[to] = lsd[to] + n /\ lsd'[Market] = lsd[Market]
        /\ \A x \in {Wrapper, Reward} \ {to} : lsd'[x] = lsd[x]
    BY <1>4, <1>5, <1>6, <1>7, <2>1
  <2>3. CASE to = Wrapper
    <3>1. lsd'[Reward] = lsd[Reward] /\ lsd'[Wrapper] = lsd[Wrapper] + n
      BY <1>7, <2>2, <2>3
    <3> QED
      BY <1>4, <2>1, <2>2, <3>1 DEF Traded
  <2>4. CASE to = Reward
    <3>1. lsd'[Wrapper] = lsd[Wrapper] /\ lsd'[Reward] = lsd[Reward] + n
      BY <1>7, <2>2, <2>4
    <3> QED
      BY <1>4, <2>1, <2>2, <3>1 DEF Donated
  <2> QED
    BY <2>3, <2>4
<1>11. W!LsdRateChange => Goal
  <2> SUFFICES ASSUME W!LsdRateChange PROVE Goal
    OBVIOUS
  <2>1. lsd' = lsd
    BY DEF W!LsdRateChange
  <2>2. ~(lsd[Wrapper] < lsd[Wrapper])
    BY <1>4
  <2> QED
    BY <2>1, <2>2 DEF Traded
<1> QED
  BY <1>2, <1>3, <1>8, <1>9, <1>10, <1>11 DEF WrapperStep

-----------------------------------------------------------------------------
(* The steps of a transaction.                                             *)

(* Their effect on the types: a transaction goes on, or it has ended.      *)
GoesOnOrEnds ==
  \/ stack' # << >> /\ saved' = saved
  \/ stack' = << >> /\ saved' = None

LEMMA AccountTypes ==
  ASSUME Typed
  PROVE  /\ lsd \in [Accounts -> Nat] /\ {Wrapper, Reward, Market} \subseteq Accounts
         /\ Targets \subseteq Accounts
         /\ lsd[Wrapper] \in Nat /\ lsd[Reward] \in Nat
         /\ rate \in Nat /\ supply \in Nat
         /\ RewardTypeOK /\ HubTypeOK /\ Distinct
         /\ ~Idle => /\ saved.lsd \in [Accounts -> Nat]
                    /\ saved.held \in [Assets -> Nat] /\ saved.index \in Nat
                    /\ saved # None
<1>1. W!TypeOK /\ HubTypeOK /\ RewardTypeOK /\ Distinct
  BY DEF Typed, TypeOK
<1>2. /\ lsd \in [Accounts -> Nat] /\ rate \in Rates /\ supply \in Nat
  BY <1>1, WrapperAgrees DEF W!TypeOK, W!TokenTypeOK
<1>3. {Wrapper, Reward, Market} \subseteq Accounts /\ Targets \subseteq Accounts
  BY Parties DEF Accounts
<1>4. rate \in Nat
  BY <1>2, GlobalAmountAssumption
<1>5. ~Idle => /\ saved.lsd \in [Accounts -> Nat]
               /\ saved.held \in [Assets -> Nat] /\ saved.index \in Nat
  BY DEF Typed, Snapshots
<1>6. ~Idle => saved # None
  BY DEF Typed, TypeOK
<1>7. lsd[Wrapper] \in Nat /\ lsd[Reward] \in Nat
  BY <1>2, <1>3
<1> QED
  BY <1>1, <1>2, <1>3, <1>4, <1>5, <1>6, <1>7

LEMMA TxTypes ==
  ASSUME Typed, ~Idle, UNCHANGED <<tokenVars, hubConfig, rewardConfigs>>,
         lsd' \in [Accounts -> Nat], held' \in [Assets -> Nat],
         lastIndexModification' \in Nat, unsold' \subseteq Goods, GoesOnOrEnds
  PROVE  Typed'
<1>1. W!TypeOK'
  <2>1. W!TypeOK /\ UNCHANGED <<bal, supply, allowance, rate>>
    BY DEF Typed, TypeOK, tokenVars
  <2>2. lsd' \in [W!Accounts -> Nat]
    BY WrapperAgrees
  <2> QED
    BY <2>1, <2>2 DEF W!TypeOK, W!TokenTypeOK
<1>2. HubTypeOK' /\ RewardTypeOK' /\ Distinct'
  BY DEF Typed, TypeOK, HubTypeOK, RewardTypeOK, Distinct, rewardConfigs, Goods
<1>3. (saved = None <=> Idle)'
  BY DEF Typed, TypeOK, GoesOnOrEnds, Idle
<1>4. (~Idle)' => saved' \in Snapshots
  BY DEF Typed, GoesOnOrEnds, Idle
<1> QED
  BY <1>1, <1>2, <1>3, <1>4 DEF Typed, TypeOK

(* The wrapper's handler queues the transfer of its rewards, which leave   *)
(* the supply covered; or nothing, when it is slashed or there are none.   *)
LEMMA DecompoundFacts ==
  ASSUME Typed, AtUpdate, RunDecompound(Head(stack)),
         UNCHANGED <<tokenVars, configVars>>
  PROVE  Typed' /\ ~Idle' /\ (AtTransfer \/ AtSwap)'
<1> DEFINE n == W!LsdRewards(lsd[Wrapper], supply, rate)
           sale == SwapToRewardDenom(Hub, hubConfig.reward)
<1>1. /\ stack = <<Decompound(hubConfig.token, hubConfig.reward), sale>>
      /\ hubConfig.reward # None /\ lsd = saved.lsd /\ held = saved.held
  BY DEF AtUpdate, UpdateMessages, Untouched
<1>2. /\ Head(stack) = Decompound(hubConfig.token, hubConfig.reward) /\ ~Idle
      /\ Continue(<< >>) => stack' = <<sale>> /\ saved' = saved
      /\ Continue(<<TransferLsd(hubConfig.reward, n)>>) =>
           /\ stack' = <<TransferLsd(hubConfig.reward, n), sale>>
           /\ saved' = saved
  <2> HIDE DEF n, sale
  <2> QED
    BY <1>1, ContinuePair
<1>3. Head(stack).recipient = hubConfig.reward
  BY <1>2 DEF Decompound
<1>4. hubConfig.reward \in Targets /\ hubConfig' = hubConfig
  BY <1>1, AccountTypes DEF HubTypeOK, configVars, hubVars
<1>5. UNCHANGED <<lsd, held, unsold, supply, rate>>
  BY DEF RunDecompound, tokenVars
<1>6. ASSUME GoesOnOrEnds PROVE Typed'
  BY <1>2, <1>5, <1>6, TxTypes, AccountTypes
  DEF configVars, hubVars, HubTypeOK, RewardTypeOK, Goods
<1>7. CASE Continue(<< >>)
  <2>1. stack' = <<sale>> /\ saved' = saved /\ stack' # << >>
    BY <1>2, <1>7
  <2>2. AtSwap'
    <3>1. /\ stack' = <<SwapToRewardDenom(Hub, hubConfig.reward)>>
          /\ held' = saved'.held /\ lsd' = saved'.lsd
      BY <1>1, <1>5, <2>1
    <3>2. lsd'[Reward] = lsd'[Reward] + (lsd'[Wrapper] - lsd'[Wrapper])
      BY <1>5, AccountTypes
    <3>3. VaultHarvested(saved)'
      BY <3>1 DEF VaultHarvested
    <3>4. Arrived(saved)'
      BY <3>1, <3>2 DEF Arrived, Before
    <3> QED
      BY <1>4, <3>1, <3>3, <3>4 DEF AtSwap
  <2> QED
    BY <1>6, <2>1, <2>2 DEF GoesOnOrEnds, Idle
<1>8. CASE /\ n > 0 /\ ~W!Slashed /\ rate > 0
           /\ Continue(<<TransferLsd(hubConfig.reward, n)>>)
  <2>1. /\ stack' = <<TransferLsd(hubConfig.reward, n), sale>>
        /\ saved' = saved /\ stack' # << >>
    BY <1>2, <1>8
  <2>2. /\ n \in Nat /\ n <= lsd[Wrapper]
        /\ (lsd[Wrapper] - n) * rate >= supply * ONE
    <3>1. n = WP!LsdRewards(lsd[Wrapper], supply, rate)
      BY WrapperAgrees
    <3>2. WP!TypeOK /\ ~WP!Slashed
      BY <1>8, WrapperAgrees DEF Typed, TypeOK
    <3> QED
      BY <1>8, <3>1, <3>2, WrapperAssumptions, WP!DecompoundRewards
  <2> HIDE DEF n
  <2>3. AtTransfer'
    <3>1. PICK k \in 0 .. lsd[Wrapper] :
            /\ stack' = <<TransferLsd(hubConfig.reward, k), sale>>
            /\ (lsd[Wrapper] - k) * rate >= supply * ONE
      BY <2>1, <2>2, AccountTypes
    <3>2. k \in 0 .. lsd'[Wrapper]
      BY <1>5
    <3>3. StillCovered(lsd[Wrapper] - k)'
      BY <1>5, <3>1 DEF StillCovered
    <3>4. Untouched(saved)'
      BY <1>1, <1>5, <2>1 DEF Untouched
    <3> QED
      BY <1>1, <1>4, <3>1, <3>2, <3>3, <3>4 DEF AtTransfer
  <2> QED
    BY <1>6, <2>1, <2>3 DEF GoesOnOrEnds, Idle
<1> QED
  BY <1>3, <1>7, <1>8 DEF RunDecompound

(* The transfer takes the rewards out of the vault, to whatever is         *)
(* registered as the reward contract.                                      *)
LEMMA TransferFacts ==
  ASSUME Typed, AtTransfer, RunTransferLsd(Head(stack)),
         UNCHANGED <<tokenVars, configVars>>
  PROVE  Typed' /\ ~Idle' /\ AtSwap'
<1>1. PICK n \in 0 .. lsd[Wrapper] :
        /\ stack = <<TransferLsd(hubConfig.reward, n),
                     SwapToRewardDenom(Hub, hubConfig.reward)>>
        /\ hubConfig.reward # None
        /\ StillCovered(lsd[Wrapper] - n)
        /\ lsd = saved.lsd /\ held = saved.held
  BY DEF AtTransfer, Untouched
<1> DEFINE r == hubConfig.reward
<1>2. /\ Head(stack) = TransferLsd(r, n) /\ ~Idle
      /\ Continue(<< >>) => /\ stack' = <<SwapToRewardDenom(Hub, r)>>
                            /\ saved' = saved
  BY <1>1, ContinuePair
<1>3. W!PushLsd(r, n) /\ Continue(<< >>) /\ UNCHANGED <<held, unsold>>
  BY <1>2 DEF RunTransferLsd, TransferLsd
<1>4. r \in Targets /\ r \in Accounts /\ hubConfig' = hubConfig
  BY <1>1, AccountTypes DEF HubTypeOK, configVars, hubVars
<1>5. /\ n \in Nat /\ n <= lsd[Wrapper] /\ lsd[Wrapper] \in Nat
  BY AccountTypes
<1> HIDE DEF r
<1>6. /\ lsd' \in [Accounts -> Nat] /\ SumFunction(lsd') = SumFunction(lsd)
      /\ r = Wrapper => lsd' = lsd
      /\ r # Wrapper => /\ lsd'[Wrapper] = lsd[Wrapper] - n
                        /\ lsd'[r] = lsd[r] + n
      /\ \A x \in Accounts \ {Wrapper, r} : lsd'[x] = lsd[x]
  <2>1. lsd' = [[lsd EXCEPT ![Wrapper] = @ - n] EXCEPT ![r] = @ + n]
    BY <1>3 DEF W!PushLsd, W!Move
  <2>2. PICK f \in [Accounts -> Nat], h \in {lsd'} : f = lsd /\ h = lsd'
    BY AccountTypes
  <2>3. /\ Wrapper \in Accounts /\ r \in Accounts /\ n <= f[Wrapper]
        /\ h = Moved(f, Wrapper, r, n)
    BY <1>4, <1>5, <2>1, <2>2, AccountTypes DEF Moved
  <2>4. /\ h \in [Accounts -> Nat] /\ SumFunction(h) = SumFunction(f)
        /\ r = Wrapper => h = f
        /\ r # Wrapper => h[Wrapper] = f[Wrapper] - n /\ h[r] = f[r] + n
        /\ \A x \in Accounts \ {Wrapper, r} : h[x] = f[x]
    BY <1>5, <2>3, FiniteAccounts, TransferKeepsSum
  <2> QED
    BY <2>2, <2>4
<1>7. /\ stack' = <<SwapToRewardDenom(Hub, r)>> /\ saved' = saved
      /\ stack' # << >>
  BY <1>2, <1>3
<1>8. Typed'
  <2>1. GoesOnOrEnds
    BY <1>7 DEF GoesOnOrEnds
  <2> QED
    BY <1>2, <1>3, <1>6, <2>1, TxTypes, AccountTypes
    DEF configVars, hubVars, HubTypeOK, RewardTypeOK, Goods
<1>9. AtSwap'
  <2>1. VaultHarvested(saved)'
    <3>1. CASE r = Wrapper
      BY <1>1, <1>6, <1>7, <3>1 DEF VaultHarvested
    <3>2. CASE r # Wrapper
      <4>1. lsd'[Wrapper] <= lsd[Wrapper] /\ StillCovered(lsd[Wrapper])'
        BY <1>1, <1>5, <1>6, <3>2 DEF StillCovered, tokenVars
      <4> QED
        BY <1>1, <1>7, <4>1 DEF VaultHarvested
    <3> QED
      BY <3>1, <3>2
  <2>2. r = Reward => Arrived(saved)'
    <3> SUFFICES ASSUME r = Reward PROVE Arrived(saved)'
      OBVIOUS
    <3>1. /\ lsd'[Wrapper] = lsd[Wrapper] - n /\ lsd'[Reward] = lsd[Reward] + n
          /\ lsd[Reward] \in Nat /\ saved'.lsd = lsd
          /\ lsd'[Market] = lsd[Market]
      BY <1>1, <1>6, <1>7, Parties, AccountTypes
    <3>2. lsd[Reward] + n = lsd[Reward] + (lsd[Wrapper] - (lsd[Wrapper] - n))
      BY <1>5, <3>1
    <3> QED
      BY <1>6, <3>1, <3>2 DEF Arrived, Before
  <2>3. held' = saved'.held
    BY <1>1, <1>3, <1>7
  <2> QED
    BY <1>4, <1>7, <2>1, <2>2, <2>3 DEF AtSwap, r
<1> QED
  BY <1>7, <1>8, <1>9 DEF Idle

(* The reward contract puts everything it can on sale: nothing is sold     *)
(* yet, or there is nothing to sell and the transaction has ended.         *)
LEMMA SwapFacts ==
  ASSUME Typed, AtSwap, RunSwapToRewardDenom(Head(stack)),
         UNCHANGED <<tokenVars, configVars>>, NEW CONSTANT s, s = saved
  PROVE  /\ Typed' /\ GoesOnOrEnds
         /\ Sales(stack)' /\ AllOnSale(stack)' /\ Len(stack') <= Len(Listed)
         /\ FirstSaleFirst(s)' /\ VaultHarvested(s)' /\ SoldOrKept(s)'
<1>1. PICK from, at \in Users \cup {Hub} \cup Targets \cup {Reward} :
        /\ stack = <<SwapToRewardDenom(from, at)>>
        /\ held = s.held /\ VaultHarvested(s)
        /\ at = Reward => Arrived(s)
  BY DEF AtSwap, VaultHarvested, Arrived, Before
<1>2. /\ Head(stack) = SwapToRewardDenom(from, at) /\ ~Idle
      /\ Tail(stack) = << >>
  BY <1>1 DEF Idle
<1>3. Arrived(s)
  BY <1>1, <1>2 DEF RunSwapToRewardDenom, SwapToRewardDenom
<1>4. /\ Sales(stack)' /\ AllOnSale(stack)' /\ unsold' \subseteq Goods
      /\ saved' = IF stack' = << >> THEN None ELSE saved
      /\ Len(stack') <= Len(Listed)
      /\ stack' # << >> => stack'[1].first
      /\ UNCHANGED <<lsd, held>>
  <2>1. SellOffers /\ UNCHANGED rewardConfigs
    BY DEF RunSwapToRewardDenom, configVars
  <2>2. RewardTypeOK /\ Distinct /\ Reward \in Accounts
        /\ lsd \in [Accounts -> Nat]
    BY AccountTypes
  <2> QED
    BY <1>2, <2>1, <2>2, SellOffersFacts
<1>5. GoesOnOrEnds
  BY <1>4 DEF GoesOnOrEnds
<1>6. Typed'
  BY <1>2, <1>4, <1>5, TxTypes, AccountTypes
  DEF configVars, hubVars, HubTypeOK, RewardTypeOK
<1>7. VaultHarvested(s)'
  BY <1>1, <1>4 DEF VaultHarvested, StillCovered, tokenVars
<1>8. SoldOrKept(s)'
  <2>1. Stable \in Assets /\ held[Stable] \in Nat
    BY AccountTypes, RewardAssumption DEF Assets, RewardTypeOK
  <2>2. \A x \in Goods \ {Stable} : Held(x)' = Before(s, x)'
    BY <1>1, <1>3, <1>4 DEF Arrived, Held, Before, Goods
  <2>3. held'[Stable] = s.held[Stable] /\ s.held[Stable] \in Nat
    BY <1>1, <1>4, <2>1
  <2>4. \A x \in Goods \ {Stable} : Held(x) \in Nat
    BY AccountTypes, HeldNat
  <2>5. \A x \in Goods \ {Stable} : ~(Held(x)' < Before(s, x)')
    <3>1. \A x : Held(x)' = Held(x)
      BY <1>4 DEF Held
    <3> QED
      BY <2>2, <2>4, <3>1
  <2>6. /\ lsd'[Market] = s.lsd[Market] + (Before(s, Lsd)' - lsd'[Reward])
        /\ SumFunction(lsd') = SumFunction(s.lsd)
    <3>1. /\ lsd'[Market] = s.lsd[Market] /\ lsd'[Reward] = Before(s, Lsd)'
          /\ SumFunction(lsd') = SumFunction(s.lsd)
      BY <1>3, <1>4 DEF Arrived, Before
    <3>2. lsd'[Reward] \in Nat /\ lsd'[Market] \in Nat
      BY <1>4, AccountTypes
    <3> QED
      BY <3>1, <3>2
  <2> QED
    BY <2>2, <2>3, <2>5, <2>6 DEF SoldOrKept
<1>9. FirstSaleFirst(s)'
  BY <1>4 DEF FirstSaleFirst
<1> QED
  BY <1>4, <1>5, <1>6, <1>7, <1>8, <1>9

(* A sale empties what it sells, and leaves the vault and the others.      *)
LEMMA SaleFacts ==
  ASSUME Typed, ~Idle, AtSales, RunSell(Head(stack)),
         UNCHANGED <<tokenVars, configVars>>, NEW CONSTANT s, s = saved
  PROVE  /\ Typed' /\ GoesOnOrEnds /\ unsold' = unsold
         /\ Sales(stack)' /\ AllOnSale(stack)' /\ Len(stack') < Len(stack)
         /\ FirstSaleFirst(s)' /\ VaultHarvested(s)' /\ SoldOrKept(s)'
<1>1. /\ Sales(stack) /\ AllOnSale(stack) /\ FirstSaleFirst(s)
      /\ VaultHarvested(s) /\ SoldOrKept(s)
  BY DEF AtSales
<1>2. /\ Sales(stack)' /\ AllOnSale(stack)'
      /\ saved' = IF stack' = << >> THEN None ELSE saved
      /\ unsold' = unsold /\ Len(stack') < Len(stack)
      /\ held' \in [Assets -> Nat] /\ lsd' \in [Accounts -> Nat]
      /\ \A a \in Accounts \ {Reward, Market} : lsd'[a] = lsd[a]
      /\ SumFunction(lsd') = SumFunction(lsd)
      /\ lsd'[Market] = lsd[Market] + (lsd[Reward] - lsd'[Reward])
      /\ held'[Stable] >= held[Stable]
      /\ Head(stack).first => held'[Stable] > held[Stable]
      /\ \E x \in Goods \ {Stable} :
           /\ Held(x) > 0
           /\ \A y \in Goods \ {Stable} :
                Held(y)' = IF y = x THEN 0 ELSE Held(y)
  <2>1. UNCHANGED rewardConfigs /\ stack # << >>
    BY DEF configVars, Idle
  <2>2. RewardTypeOK /\ Distinct /\ {Reward, Market} \subseteq Accounts
        /\ lsd \in [Accounts -> Nat]
    BY AccountTypes
  <2> QED
    BY <1>1, <2>1, <2>2, FiniteAccounts, RunSellFacts
<1>3. GoesOnOrEnds
  BY <1>2 DEF GoesOnOrEnds
<1>4. Typed'
  BY <1>2, <1>3, TxTypes, AccountTypes
  DEF configVars, hubVars, HubTypeOK, RewardTypeOK, Goods
<1>5. lsd'[Wrapper] = lsd[Wrapper]
  BY <1>2, Parties DEF Accounts
<1>6. VaultHarvested(s)'
  BY <1>1, <1>5 DEF VaultHarvested, StillCovered, tokenVars
<1>8. held'[Stable] > s.held[Stable]
  <2>1. /\ held[Stable] \in Nat /\ held'[Stable] \in Nat /\ s.held[Stable] \in Nat
    BY <1>2, AccountTypes, RewardAssumption DEF Assets, RewardTypeOK
  <2>2. Head(stack) = stack[1] /\ stack # << >>
    BY DEF Idle
  <2>3. held[Stable] >= s.held[Stable]
    BY <1>1 DEF SoldOrKept
  <2> QED
    BY <1>1, <1>2, <2>1, <2>2, <2>3 DEF FirstSaleFirst
<1>7. SoldOrKept(s)'
  <2>2. \A y \in Goods : Before(s, y)' = Before(s, y)
    BY <1>5 DEF Before
  <2>3. \A y \in Goods : Held(y) \in Nat
    BY AccountTypes, HeldNat
  <2>4. PICK x \in Goods \ {Stable} :
          /\ Held(x) > 0
          /\ \A y \in Goods \ {Stable} :
               Held(y)' = IF y = x THEN 0 ELSE Held(y)
    BY <1>2
  <2>1. held'[Stable] \in Nat /\ s.held[Stable] \in Nat
    BY <1>2, AccountTypes, RewardAssumption DEF Assets
  <2>5. /\ lsd'[Market] = s.lsd[Market] + (Before(s, Lsd)' - lsd'[Reward])
        /\ SumFunction(lsd') = SumFunction(s.lsd)
    <3>1. /\ lsd[Market] = s.lsd[Market] + (Before(s, Lsd) - lsd[Reward])
          /\ SumFunction(lsd) = SumFunction(s.lsd)
      BY <1>1 DEF SoldOrKept
    <3>2. /\ lsd[Market] \in Nat /\ lsd[Reward] \in Nat /\ s.lsd[Market] \in Nat
          /\ lsd'[Reward] \in Nat /\ lsd[Wrapper] \in Nat
          /\ s.lsd[Reward] \in Nat /\ s.lsd[Wrapper] \in Nat
      BY <1>2, AccountTypes
    <3>3. Before(s, Lsd)' = Before(s, Lsd) /\ Before(s, Lsd) \in Int
      BY <1>5, <3>2 DEF Before
    <3>4. /\ lsd'[Market] = lsd[Market] + (lsd[Reward] - lsd'[Reward])
          /\ SumFunction(lsd') = SumFunction(lsd)
      BY <1>2
    <3>5. lsd'[Market] = s.lsd[Market] + (Before(s, Lsd)' - lsd'[Reward])
      <4> DEFINE b == Before(s, Lsd)
                 c == Before(s, Lsd)'
      <4>1. c = b /\ b \in Int /\ lsd[Market] = s.lsd[Market] + (b - lsd[Reward])
        BY <3>1, <3>3
      <4> HIDE DEF b, c
      <4>2. lsd'[Market] = s.lsd[Market] + (c - lsd'[Reward])
        BY <3>2, <3>4, <4>1
      <4> QED
        BY <4>2 DEF c
    <3> QED
      BY <3>1, <3>4, <3>5
  <2>6. \A y \in Goods \ {Stable} : Held(y)' \in {0, Before(s, y)'}
    BY <1>1, <2>2, <2>4 DEF SoldOrKept
  <2>7. Held(x)' < Before(s, x)'
    BY <1>1, <2>2, <2>3, <2>4 DEF SoldOrKept
  <2> QED
    BY <1>8, <2>1, <2>5, <2>6, <2>7 DEF SoldOrKept
<1>9. FirstSaleFirst(s)'
  BY <1>8 DEF FirstSaleFirst
<1> QED
  BY <1>2, <1>3, <1>4, <1>6, <1>7, <1>9

(* A rejection undoes everything.                                          *)
LEMMA AbortFacts ==
  ASSUME Typed, ~Idle, Abort, UNCHANGED <<tokenVars, hubConfig, rewardConfigs>>
  PROVE  Typed' /\ Idle' /\ lsd' = saved.lsd /\ held' = saved.held
<1>1. /\ stack' = << >> /\ saved' = None /\ unsold' = unsold
      /\ lsd' = saved.lsd /\ held' = saved.held
      /\ lastIndexModification' = saved.index
  BY DEF Abort, Undo
<1>2. unsold' \subseteq Goods
  BY <1>1, AccountTypes DEF RewardTypeOK, Goods
<1>3. GoesOnOrEnds
  BY <1>1 DEF GoesOnOrEnds
<1> QED
  BY <1>1, <1>2, <1>3, TxTypes, AccountTypes DEF Idle

(* Each stage waits for a message of its own.                              *)
LEMMA HeadOfStage ==
  ASSUME ~Idle
  PROVE  /\ AtUpdate => Head(stack).op = "Decompound"
         /\ AtTransfer => Head(stack).op = "TransferLsd"
         /\ AtSwap => Head(stack).op = "SwapToRewardDenom"
         /\ AtSales => Head(stack).op = "Sell"
<1>1. AtUpdate => Head(stack).op = "Decompound"
  BY DEF AtUpdate, UpdateMessages, Decompound
<1>2. AtTransfer => Head(stack).op = "TransferLsd"
  BY DEF AtTransfer, TransferLsd
<1>3. AtSwap => Head(stack).op = "SwapToRewardDenom"
  BY DEF AtSwap, SwapToRewardDenom
<1>4. AtSales => Head(stack).op = "Sell"
  <2> SUFFICES ASSUME AtSales PROVE Head(stack).op = "Sell"
    OBVIOUS
  <2>1. stack \in Seq(SaleMessages) /\ stack # << >>
    BY DEF AtSales, Sales, Idle
  <2>2. Head(stack) \in SaleMessages
    BY <2>1
  <2> QED
    BY <2>2 DEF SaleMessages
<1> QED
  BY <1>1, <1>2, <1>3, <1>4

(* How many messages a transaction may still execute: the sales that are   *)
(* queued, or the stages to come and then as many sales as there are       *)
(* tokens to sell.                                                         *)
StagesLeft(op) ==
  CASE op = "Decompound" -> 3
    [] op = "TransferLsd" -> 2
    [] OTHER -> 1

StepsLeft ==
  IF Idle THEN 0
  ELSE IF Head(stack).op = "Sell" THEN Len(stack)
  ELSE Len(Listed) + StagesLeft(Head(stack).op)

StepsKnown ==
  /\ Len(Listed) \in Nat
  /\ Idle => StepsLeft = 0
  /\ Sales(stack) => StepsLeft = Len(stack) /\ Len(stack) \in Nat
  /\ ~Idle => /\ AtUpdate => StepsLeft = Len(Listed) + 3
              /\ AtTransfer => StepsLeft = Len(Listed) + 2
              /\ AtSwap => StepsLeft = Len(Listed) + 1
              /\ AtSales => StepsLeft > 0

LEMMA StepsLeftAt == Typed => StepsKnown
<1> SUFFICES ASSUME Typed PROVE StepsKnown
  OBVIOUS
<1>1. Len(Listed) \in Nat
  <2>1. Listed \in Seq(Goods)
    BY AccountTypes, ListedFacts
  <2> QED
    BY <2>1
<1>2. Idle => StepsLeft = 0
  BY DEF StepsLeft
<1>3. ASSUME Sales(stack)
      PROVE  /\ StepsLeft = Len(stack) /\ Len(stack) \in Nat
             /\ ~Idle => StepsLeft > 0
  <2>1. stack \in Seq(SaleMessages)
    BY <1>3 DEF Sales
  <2>2. CASE Idle
    BY <1>2, <2>2 DEF Idle
  <2>3. CASE ~Idle
    <3>1. Head(stack) \in SaleMessages /\ Len(stack) \in Nat /\ Len(stack) > 0
      BY <2>1, <2>3 DEF Idle
    <3>2. Head(stack).op = "Sell"
      BY <3>1 DEF SaleMessages
    <3> QED
      BY <2>3, <3>1, <3>2 DEF StepsLeft
  <2> QED
    BY <2>2, <2>3
<1>4. ASSUME ~Idle, Head(stack).op # "Sell"
      PROVE  StepsLeft = Len(Listed) + StagesLeft(Head(stack).op)
  BY <1>4 DEF StepsLeft
<1>5. CASE ~Idle
  <2>1. /\ AtUpdate => StepsLeft = Len(Listed) + StagesLeft("Decompound")
        /\ AtTransfer => StepsLeft = Len(Listed) + StagesLeft("TransferLsd")
        /\ AtSwap => StepsLeft = Len(Listed) + StagesLeft("SwapToRewardDenom")
    BY <1>4, <1>5, HeadOfStage
  <2>2. /\ StagesLeft("Decompound") = 3 /\ StagesLeft("TransferLsd") = 2
        /\ StagesLeft("SwapToRewardDenom") = 1
    BY DEF StagesLeft
  <2>3. AtSales => StepsLeft > 0
    BY <1>3, <1>5 DEF AtSales
  <2> QED
    BY <1>1, <1>2, <1>3, <2>1, <2>2, <2>3 DEF StepsKnown
<1> QED
  BY <1>1, <1>2, <1>3, <1>5 DEF StepsKnown

LEMMA StepsLeftThen == (Typed => StepsKnown)'
BY StepsLeftAt, PTL

(* What a transaction has done when it ends, seen from where it began: it  *)
(* was undone, or the vault has been harvested, all that could be sold has *)
(* been, and nothing was lost.                                             *)
Undone(s) == lsd = s.lsd /\ held = s.held
Done(s) ==
  /\ VaultHarvested(s) /\ SoldOrKept(s)
  /\ AllOnSale(stack)

LEMMA TxStepFacts ==
  ASSUME Inv, TxStep, NEW CONSTANT s, s = saved
  PROVE  /\ Inv' /\ GoesOnOrEnds /\ StepsLeft' < StepsLeft /\ Listed' = Listed
         /\ Idle' => Undone(s)' \/ Done(s)'
         /\ Idle' /\ ~Abort => Done(s)' /\ (AtSwap \/ AtSales)
<1> USE DEF Inv, Stage
<1>1. /\ Typed /\ Stage /\ ~Idle
      /\ UNCHANGED <<tokenVars, hubConfig, rewardConfigs>>
      /\ \/ Run(Head(stack)) /\ UNCHANGED configVars
         \/ Abort
  BY DEF TxStep, configVars, hubVars
<1>8. Listed' = Listed
  BY <1>1 DEF Listed, rewardConfigs
<1> USE StepsLeftAt, StepsLeftThen DEF StepsKnown
<1>2. CASE Abort
  <2>1. Typed' /\ Idle' /\ Undone(s)'
    BY <1>1, <1>2, AbortFacts DEF Undone
  <2>2. StepsLeft' < StepsLeft
    BY <1>1, <2>1 DEF AtSales
  <2> QED
    BY <1>2, <1>8, <2>1, <2>2 DEF Abort, Undo, GoesOnOrEnds, Idle
<1>3. CASE RunDecompound(Head(stack)) /\ UNCHANGED configVars
  <2>1. Head(stack).op = "Decompound"
    BY <1>3 DEF RunDecompound
  <2>2. AtUpdate
    BY <1>1, <2>1, HeadOfStage
  <2>3. Typed' /\ ~Idle' /\ (AtTransfer \/ AtSwap)'
    BY <1>1, <1>3, <2>2, DecompoundFacts
  <2>4. GoesOnOrEnds
    BY <2>2, <2>3, <1>3, ContinuePair
    DEF GoesOnOrEnds, Idle, AtUpdate, UpdateMessages, RunDecompound
  <2>5. StepsLeft' < StepsLeft
    BY <1>1, <1>8, <2>2, <2>3
  <2> QED
    BY <1>8, <2>3, <2>4, <2>5
<1>4. CASE RunTransferLsd(Head(stack)) /\ UNCHANGED configVars
  <2>1. Head(stack).op = "TransferLsd"
    BY <1>4 DEF RunTransferLsd
  <2>2. AtTransfer
    BY <1>1, <2>1, HeadOfStage
  <2>3. Typed' /\ ~Idle' /\ AtSwap'
    BY <1>1, <1>4, <2>2, TransferFacts
  <2>4. GoesOnOrEnds
    BY <2>2, <2>3, <1>4, ContinuePair
    DEF GoesOnOrEnds, Idle, AtTransfer, RunTransferLsd
  <2>5. StepsLeft' < StepsLeft
    BY <1>1, <1>8, <2>2, <2>3
  <2> QED
    BY <1>8, <2>3, <2>4, <2>5
<1>5. ASSUME Typed', GoesOnOrEnds, Sales(stack)', AllOnSale(stack)',
             FirstSaleFirst(s)', VaultHarvested(s)', SoldOrKept(s)'
      PROVE  Inv' /\ Done(s)'
  <2>1. ~Idle' => saved' = s
    BY <1>5 DEF GoesOnOrEnds, Idle
  <2>2. ~Idle' => AtSales'
    BY <1>5, <2>1
    DEF AtSales, FirstSaleFirst, VaultHarvested, StillCovered, SoldOrKept, Before
  <2>3. Done(s)'
    BY <1>5 DEF Done
  <2> QED
    BY <1>5, <2>2, <2>3
<1>6. CASE RunSwapToRewardDenom(Head(stack)) /\ UNCHANGED configVars
  <2>1. Head(stack).op = "SwapToRewardDenom"
    BY <1>6 DEF RunSwapToRewardDenom
  <2>2. AtSwap
    BY <1>1, <2>1, HeadOfStage
  <2>3. /\ Typed' /\ GoesOnOrEnds
        /\ Sales(stack)' /\ AllOnSale(stack)' /\ FirstSaleFirst(s)'
        /\ VaultHarvested(s)' /\ SoldOrKept(s)' /\ Len(stack') <= Len(Listed)
    BY <1>1, <1>6, <2>2, SwapFacts
  <2>4. StepsLeft' < StepsLeft
    BY <1>1, <1>8, <2>2, <2>3
  <2> QED
    BY <1>5, <1>8, <2>2, <2>3, <2>4
<1>7. CASE RunSell(Head(stack)) /\ UNCHANGED configVars
  <2>1. Head(stack).op = "Sell"
    BY <1>7 DEF RunSell
  <2>2. AtSales
    BY <1>1, <2>1, HeadOfStage
  <2>3. /\ Typed' /\ GoesOnOrEnds
        /\ Sales(stack)' /\ AllOnSale(stack)' /\ FirstSaleFirst(s)'
        /\ VaultHarvested(s)' /\ SoldOrKept(s)' /\ Len(stack') < Len(stack)
    BY <1>1, <1>7, <2>2, SaleFacts
  <2>4. StepsLeft' < StepsLeft
    BY <2>2, <2>3 DEF AtSales
  <2> QED
    BY <1>5, <1>8, <2>2, <2>3, <2>4
<1> QED
  BY <1>1, <1>2, <1>3, <1>4, <1>6, <1>7 DEF Run

-----------------------------------------------------------------------------
(* What begins a transaction, and transactions of one handler.             *)

LEMMA BeginFacts ==
  ASSUME Typed, BeginUpdate \/ \E u \in Users : BeginSwap(u)
  PROVE  /\ Inv' /\ ~Idle' /\ (AtUpdate \/ AtSwap)'
         /\ UNCHANGED <<bal, supply, allowance, rate, lsd, held>>
         /\ saved'.lsd = lsd /\ saved'.held = held
<1>1. /\ Idle /\ saved' = Snapshot /\ stack' # << >>
      /\ UNCHANGED <<bal, supply, allowance, rate, lsd, held,
                     hubConfig, rewardConfigs>>
      /\ lastIndexModification' \in {0, lastIndexModification} /\ unsold' = {}
  BY DEF BeginUpdate, BeginSwap, UpdateGlobalIndex, RecordIndex, Begin,
         UpdateMessages, tokenVars, configVars, hubVars
<1>2. Snapshot \in Snapshots /\ Snapshot.lsd = lsd /\ Snapshot.held = held
  BY AccountTypes DEF Snapshot, Snapshots, RewardTypeOK, HubTypeOK
<1>3. Snapshot # None
  BY <1>2, GlobalUpdateAssumption
<1>4. Typed'
  <2>1. W!TypeOK'
    BY <1>1 DEF Typed, TypeOK, W!TypeOK, W!TokenTypeOK
  <2>2. HubTypeOK' /\ RewardTypeOK' /\ Distinct'
    BY <1>1 DEF Typed, TypeOK, HubTypeOK, RewardTypeOK, Distinct, rewardConfigs
  <2> QED
    BY <1>1, <1>2, <1>3, <2>1, <2>2 DEF Typed, TypeOK, Idle
<1>5. CASE BeginUpdate
  <2>1. /\ stack' = UpdateMessages /\ hubConfig.reward # None
        /\ hubConfig' = hubConfig
    BY <1>5 DEF BeginUpdate, UpdateGlobalIndex, Begin
  <2>2. AtUpdate'
    BY <1>1, <1>2, <2>1 DEF AtUpdate, UpdateMessages, Untouched
  <2> QED
    BY <1>1, <1>2, <1>4, <2>2 DEF Inv, Stage, Idle
<1>6. CASE \E u \in Users : BeginSwap(u)
  <2>1. PICK u \in Users : stack' = <<SwapToRewardDenom(u, Reward)>>
    BY <1>6 DEF BeginSwap, Begin
  <2>2. VaultHarvested(saved)' /\ held' = saved'.held
    BY <1>1, <1>2 DEF VaultHarvested
  <2>3. Arrived(saved)'
    <3>1. lsd[Reward] = lsd[Reward] + (lsd[Wrapper] - lsd[Wrapper])
      BY AccountTypes
    <3> QED
      BY <1>1, <1>2, <3>1 DEF Arrived, Before
  <2>4. AtSwap'
    <3>1. u # Hub
      BY GlobalUpdateAssumption
    <3> QED
      BY <2>1, <2>2, <2>3, <3>1 DEF AtSwap
  <2> QED
    BY <1>1, <1>2, <1>4, <2>4 DEF Inv, Stage, Idle
<1> QED
  BY <1>5, <1>6

LEMMA HubConfigFacts ==
  ASSUME Typed, Idle, HubConfigStep
  PROVE  Inv' /\ Idle' /\ UNCHANGED <<bal, supply, allowance, rate, lsd, held>>
<1>1. PICK u \in Admins \cup Users, owner \in Admins \cup {None},
           reward \in Targets \cup {None}, token \in Targets \cup {None} :
        HubUpdateConfig(u, owner, reward, token)
  BY DEF HubConfigStep
<1>2. HubTypeOK'
  <2>1. /\ Given(owner, hubConfig.creator) \in Admins
        /\ Given(reward, hubConfig.reward) \in Targets \cup {None}
        /\ Given(token, hubConfig.token) \in Targets \cup {None}
    BY AccountTypes DEF HubTypeOK, Given
  <2> QED
    BY <1>1, <2>1, AccountTypes DEF HubTypeOK, HubUpdateConfig
<1>3. UNCHANGED <<bal, supply, allowance, rate, lsd, held, unsold, rewardConfigs,
                  stack, saved>>
  BY <1>1 DEF HubConfigStep, HubUpdateConfig, tokenVars
<1>4. W!TypeOK' /\ RewardTypeOK' /\ Distinct'
  BY <1>3 DEF Typed, TypeOK, W!TypeOK, W!TokenTypeOK, RewardTypeOK, Distinct,
              rewardConfigs
<1> QED
  BY <1>2, <1>3, <1>4 DEF Inv, Typed, TypeOK, Idle

(* The reward contract's own messages: they leave the pot alone, or take   *)
(* it as a whole, or add to what is there.                                 *)
LEMMA RewardStepFacts ==
  ASSUME Typed, Idle, RewardStep
  PROVE  /\ Inv' /\ Idle' /\ UNCHANGED <<bal, supply, allowance, rate, lsd>>
         /\ held' \in [Assets -> Nat]
         /\ \/ held' = held
            \/ \A x \in Assets : held'[x] >= held[x]
            \/ /\ held'[Stable] = 0
               /\ \A x \in Assets \ {Stable} : held'[x] = held[x]
<1>0. Typed /\ RewardTypeOK /\ Distinct /\ held \in [Assets -> Nat]
  BY AccountTypes DEF RewardTypeOK
<1>1. UNCHANGED <<bal, supply, allowance, rate, lsd, hubVars, stack, saved>>
  <2>1. UNCHANGED <<bal, supply, allowance, rate, hubVars>>
    BY DEF RewardStep, tokenVars
  <2>2. ASSUME NEW u, NEW owner, NEW custody, NEW known, NEW exchanges,
               RewardUpdateConfig(u, owner, custody, known, exchanges)
        PROVE  UNCHANGED <<lsd, stack, saved>>
    BY <2>2 DEF RewardUpdateConfig
  <2>3. ASSUME NEW u, NEW recipient, ClaimRewards(u, recipient)
        PROVE  UNCHANGED <<lsd, stack, saved>>
    BY <2>3 DEF ClaimRewards
  <2>4. ASSUME NEW x, Donate(x, MaxHeld)
        PROVE  UNCHANGED <<lsd, stack, saved>>
    BY <2>4 DEF Donate
  <2> QED
    BY <2>1, <2>2, <2>3, <2>4 DEF RewardStep
<1>2. ASSUME RewardTypeOK', Distinct'
      PROVE  Inv' /\ Idle' /\ held' \in [Assets -> Nat]
  <2>1. W!TypeOK' /\ HubTypeOK'
    BY <1>0, <1>1 DEF Typed, TypeOK, W!TypeOK, W!TokenTypeOK, HubTypeOK, hubVars
  <2> QED
    BY <1>0, <1>1, <1>2, <2>1 DEF Inv, Typed, TypeOK, Idle, RewardTypeOK
<1>3. ASSUME NEW u, NEW owner \in Admins \cup {None},
             NEW custody \in Custodies \cup {None},
             NEW known \in KnownLists \cup {None},
             NEW exchanges \in ExchangeUpdates,
             RewardUpdateConfig(u, owner, custody, known, exchanges)
      PROVE  RewardTypeOK' /\ Distinct' /\ held' = held
  <2>1. exchanges \in [1 .. DexCount -> DexAddresses \cup {None}]
    BY GlobalUpdateAssumption
  <2>2. RewardTypeOK' /\ Distinct'
    BY <1>0, <1>3, <2>1, UpdateConfigFacts
  <2> QED
    BY <1>3, <2>2 DEF RewardUpdateConfig
<1>4. ASSUME NEW u, NEW recipient, ClaimRewards(u, recipient)
      PROVE  /\ RewardTypeOK' /\ Distinct'
             /\ \/ held' = held
                \/ /\ held'[Stable] = 0
                   /\ \A x \in Assets \ {Stable} : held'[x] = held[x]
  <2>1. /\ RewardTypeOK' /\ Distinct'
        /\ \A x \in Assets \ {Stable} : held'[x] = held[x]
        /\ held'[Stable] \in {0, held[Stable]}
    BY <1>0, <1>4, ClaimFacts
  <2>2. held' \in [Assets -> Nat]
    BY <2>1 DEF RewardTypeOK
  <2>3. held'[Stable] = held[Stable] => held' = held
    BY <1>0, <2>1, <2>2
  <2> QED
    BY <2>1, <2>3
<1>5. ASSUME NEW x \in Assets, Donate(x, MaxHeld)
      PROVE  /\ RewardTypeOK' /\ Distinct'
             /\ \A y \in Assets : held'[y] >= held[y]
  BY <1>0, <1>5, DonateFacts
<1> QED
  BY <1>1, <1>2, <1>3, <1>4, <1>5 DEF RewardStep

-----------------------------------------------------------------------------
(* The invariant holds, and what the steps look like from outside.         *)

LEMMA InitInv == Init => Inv
<1> SUFFICES ASSUME Init PROVE Inv
  OBVIOUS
<1>1. WP!TokenInit
  BY WrapperAgrees DEF Init
<1>2. WP!TypeOK
  BY <1>1, WrapperAssumptions, WP!TokenInitType DEF WP!TypeOK
<1>3. W!TypeOK
  BY <1>2, WrapperAgrees
<1>4. HubTypeOK
  BY DEF Init, HubInit, HubTypeOK
<1>5. RewardTypeOK /\ Distinct
  BY RewardInitFacts DEF Init
<1> QED
  BY <1>3, <1>4, <1>5 DEF Init, Inv, Typed, TypeOK, Idle

LEMMA StutterInv ==
  ASSUME Inv, UNCHANGED vars
  PROVE  Inv'
<1>1. UNCHANGED <<bal, supply, allowance, rate, lsd, hubConfig,
                  lastIndexModification, rewardConfig, swapConfig, held,
                  stack, saved, unsold>>
  BY DEF vars, tokenVars, configVars, hubVars, rewardConfigs
<1>2. Typed'
  BY <1>1 DEF Inv, Typed, TypeOK, W!TypeOK, W!TokenTypeOK, HubTypeOK,
              RewardTypeOK, Distinct, Idle
<1>3. (VaultHarvested(saved) <=> VaultHarvested(saved)')
  BY <1>1 DEF VaultHarvested, StillCovered
<1>4. AtUpdate => AtUpdate'
  BY <1>1 DEF AtUpdate, UpdateMessages, Untouched
<1>5. AtTransfer => AtTransfer'
  BY <1>1 DEF AtTransfer, StillCovered, Untouched
<1>6. AtSwap => AtSwap'
  BY <1>1, <1>3 DEF AtSwap, Arrived, Before
<1>7. AtSales => AtSales'
  <2>1. Sales(stack) => Sales(stack)'
    BY <1>1 DEF Sales, Held
  <2>2. AllOnSale(stack) => AllOnSale(stack)'
    BY <1>1 DEF AllOnSale, Held, Listed
  <2>3. SoldOrKept(saved) => SoldOrKept(saved)'
    BY <1>1 DEF SoldOrKept, Held, Before
  <2>4. FirstSaleFirst(saved) => FirstSaleFirst(saved)'
    BY <1>1 DEF FirstSaleFirst
  <2> QED
    BY <1>3, <2>1, <2>2, <2>3, <2>4 DEF AtSales
<1> QED
  BY <1>1, <1>2, <1>4, <1>5, <1>6, <1>7 DEF Inv, Stage, Idle

(* A step changes nothing that is seen from outside; or it is one of the   *)
(* wrapper's users or the LSD's market; or one of the reward contract's    *)
(* messages; or the end of a transaction.                                  *)
Quiet == UNCHANGED <<CommittedLsd, CommittedHeld, supply, rate>>

Commit == ~Idle /\ Idle' /\ UNCHANGED <<supply, rate>>

LEMMA NextFacts ==
  ASSUME Inv, [Next]_vars, NEW CONSTANT s, s = saved
  PROVE  /\ Inv'
         /\ \/ Quiet
            \/ Idle /\ Idle' /\ WrapperStep
            \/ Idle /\ Idle' /\ RewardStep
            \/ Commit /\ Done(s)'
<1> USE DEF CommittedLsd, CommittedHeld
<1>0. Typed
  BY DEF Inv
<1>1. CASE UNCHANGED vars
  <2>1. Inv'
    BY <1>1, StutterInv
  <2> QED
    BY <1>1, <2>1 DEF vars, tokenVars, Quiet, Idle
<1>2. CASE Idle /\ (BeginUpdate \/ \E u \in Users : BeginSwap(u))
  <2>1. /\ Inv' /\ ~Idle' /\ UNCHANGED <<supply, rate>>
        /\ saved'.lsd = lsd /\ saved'.held = held
    BY <1>0, <1>2, BeginFacts
  <2> QED
    BY <1>2, <2>1 DEF Quiet
<1>3. CASE Idle /\ WrapperStep
  <2>1. W!TypeOK'
    BY <1>0, <1>3, WrapperStepFacts DEF Typed, TypeOK
  <2>2. /\ UNCHANGED <<hubConfig, lastIndexModification, rewardConfig, swapConfig,
                       held, stack, saved, unsold>>
    BY <1>3 DEF WrapperStep, configVars, hubVars, rewardConfigs
  <2>3. HubTypeOK' /\ RewardTypeOK' /\ Distinct' /\ Idle' /\ saved' = None
    BY <1>0, <1>3, <2>2
    DEF Typed, TypeOK, HubTypeOK, RewardTypeOK, Distinct, Idle
  <2> QED
    BY <1>3, <2>1, <2>3 DEF Inv, Typed, TypeOK
<1>4. CASE Idle /\ HubConfigStep
  <2>1. Inv' /\ Idle' /\ UNCHANGED <<supply, rate, lsd, held>>
    BY <1>0, <1>4, HubConfigFacts
  <2> QED
    BY <1>4, <2>1 DEF Quiet
<1>5. CASE Idle /\ RewardStep
  BY <1>0, <1>5, RewardStepFacts
<1>6. CASE TxStep
  <2>1. /\ Inv' /\ GoesOnOrEnds
        /\ Idle' => Undone(s)' \/ Done(s)'
    BY <1>6, TxStepFacts
  <2>2. ~Idle /\ UNCHANGED <<supply, rate>>
    BY <1>6 DEF TxStep, tokenVars
  <2>3. CASE ~Idle'
    BY <2>1, <2>2, <2>3 DEF GoesOnOrEnds, Quiet, Idle
  <2>4. CASE Idle' /\ Undone(s)'
    BY <2>1, <2>2, <2>4 DEF Quiet, Undone
  <2>5. CASE Idle' /\ Done(s)'
    BY <2>1, <2>2, <2>5 DEF Commit
  <2> QED
    BY <2>1, <2>3, <2>4, <2>5
<1> QED
  BY <1>1, <1>2, <1>3, <1>4, <1>5, <1>6 DEF Next

-----------------------------------------------------------------------------
(* The theorems.                                                           *)

(* In every state the transaction under way is in one of its four stages:  *)
(* what is queued, and how far the state has moved from the one it would   *)
(* be undone to, are known.                                                *)
THEOREM StagesKnown == Spec => []Inv
<1>1. Inv /\ [Next]_vars => Inv'
  BY NextFacts
<1> QED
  BY <1>1, InitInv, PTL DEF Spec

(* No handler takes an account below zero or writes a setting of the wrong *)
(* kind, at any point of a transaction, and what is undone is well typed.  *)
THEOREM TypesKept == Spec => []TypeOK
<1>1. Inv => TypeOK
  BY DEF Inv, Typed
<1> QED
  BY <1>1, StagesKnown, PTL

(* The sales that are queued are for different assets and for what is      *)
(* there: the amount execute_swap queried is there when the exchange is    *)
(* called.                                                                 *)
THEOREM SalesNeverCollide == Spec => []SalesDisjoint
<1>1. Inv => SalesDisjoint
  <2> SUFFICES ASSUME Inv, NEW j \in DOMAIN stack, NEW k \in DOMAIN stack,
                      stack[j].op = "Sell", stack[k].op = "Sell"
               PROVE  /\ stack[k].amount <= Held(stack[k].asset)
                      /\ stack[j].asset = stack[k].asset => j = k
    BY DEF SalesDisjoint
  <2>1. ~Idle
    BY DEF Idle
  <2>2. ~AtUpdate /\ ~AtTransfer /\ ~AtSwap
    BY DEF AtUpdate, AtTransfer, AtSwap, UpdateMessages, Decompound,
           TransferLsd, SwapToRewardDenom
  <2>3. AtSales
    BY <2>1, <2>2 DEF Inv, Stage
  <2>4. stack \in Seq(SaleMessages) /\ stack[k].amount = Held(stack[k].asset)
    BY <2>3 DEF AtSales, Sales
  <2>5. stack[k].amount \in Nat
    BY <2>4 DEF SaleMessages
  <2> QED
    BY <2>3, <2>4, <2>5 DEF AtSales, Sales
<1> QED
  BY <1>1, StagesKnown, PTL

(* Each sale that is queued goes to an exchange that no other one outbid.  *)
THEOREM BestPriceAlways == Spec => []BestPriceTaken
<1>1. Inv => BestPriceTaken
  <2> SUFFICES ASSUME Inv, NEW k \in DOMAIN stack, stack[k].op = "Sell"
               PROVE  \A i \in Answered(stack[k].quotes) :
                        stack[k].quotes[i] <= stack[k].quotes[stack[k].kind]
    BY DEF BestPriceTaken
  <2>1. ~Idle
    BY DEF Idle
  <2>2. ~AtUpdate /\ ~AtTransfer /\ ~AtSwap
    BY DEF AtUpdate, AtTransfer, AtSwap, UpdateMessages, Decompound,
           TransferLsd, SwapToRewardDenom
  <2>3. stack \in Seq(SaleMessages)
    BY <2>1, <2>2 DEF Inv, Stage, AtSales, Sales
  <2>4. stack[k] \in SaleMessages
    BY <2>3
  <2> QED
    BY <2>4 DEF SaleMessages
<1> QED
  BY <1>1, StagesKnown, PTL

(* What a handler asks of the message, or finds of its own account, before *)
(* it does anything: the guards of Run, but for a Decompound.              *)
Acceptable(m) ==
  \/ m.op = "TransferLsd" /\ m.amount <= lsd[Wrapper]
  \/ SwapAcceptable(m) \/ SaleAcceptable(m)

(* With the contracts registered with one another, what was computed when  *)
(* a message was queued still holds when it runs: its handler's guards are *)
(* met, but for a Decompound and for a stranger's attempt to sell.         *)
THEOREM QueuedMessagesAcceptable ==
  Spec => [](~Idle /\ hubConfig.reward = Reward /\ rewardConfig.hub = Hub
             => \/ Acceptable(Head(stack))
                \/ Head(stack).op = "Decompound"
                \/ Head(stack).op = "SwapToRewardDenom" /\ Head(stack).from # Hub)
<1> DEFINE Good ==
      ~Idle /\ hubConfig.reward = Reward /\ rewardConfig.hub = Hub
        => \/ Acceptable(Head(stack))
           \/ Head(stack).op = "Decompound"
           \/ Head(stack).op = "SwapToRewardDenom" /\ Head(stack).from # Hub
<1>1. Inv => Good
  <2> SUFFICES ASSUME Inv, ~Idle, hubConfig.reward = Reward, rewardConfig.hub = Hub
               PROVE  \/ Acceptable(Head(stack))
                      \/ Head(stack).op = "Decompound"
                      \/ /\ Head(stack).op = "SwapToRewardDenom"
                         /\ Head(stack).from # Hub
    OBVIOUS
  <2> DEFINE m == Head(stack)
  <2>1. CASE AtUpdate
    BY <2>1 DEF AtUpdate, UpdateMessages, Decompound
  <2>2. CASE AtTransfer
    <3>1. PICK n \in 0 .. lsd[Wrapper] : m = TransferLsd(hubConfig.reward, n)
      BY <2>2 DEF AtTransfer
    <3> HIDE DEF m
    <3>2. m.op = "TransferLsd" /\ m.amount = n /\ n <= lsd[Wrapper]
      BY <3>1 DEF TransferLsd
    <3>3. Acceptable(m)
      BY <3>2 DEF Acceptable
    <3> QED
      BY <3>3 DEF m
  <2>3. CASE AtSwap
    <3>1. PICK from, at \in Users \cup {Hub} \cup Targets \cup {Reward} :
            m = SwapToRewardDenom(from, at) /\ (from = Hub => at = hubConfig.reward)
      BY <2>3 DEF AtSwap
    <3> HIDE DEF m
    <3>2. m.op = "SwapToRewardDenom" /\ m.at = at /\ m.from = from
      BY <3>1 DEF SwapToRewardDenom
    <3>3. CASE from = Hub
      <4>1. Acceptable(m)
        BY <3>1, <3>2, <3>3, SomeAnswers DEF Acceptable, SwapAcceptable
      <4> QED
        BY <4>1 DEF m
    <3> QED
      BY <3>2, <3>3 DEF m
  <2>4. CASE AtSales
    BY <2>4, NextSaleAcceptable DEF AtSales, Acceptable
  <2> QED
    BY <2>1, <2>2, <2>3, <2>4 DEF Inv, Stage
<1> QED
  BY <1>1, StagesKnown, PTL

(* What is seen from outside is of the right types.                        *)
LEMMA CommittedTypes ==
  Inv => /\ CommittedLsd \in [Accounts -> Nat]
         /\ CommittedHeld \in [Assets -> Nat]
BY AccountTypes DEF Inv, CommittedLsd, CommittedHeld, RewardTypeOK

(* What a transaction has done, when it ends, to what is seen.             *)
LEMMA CommitFacts ==
  ASSUME Inv, Commit, NEW CONSTANT s, s = saved
  PROVE  /\ CommittedLsd = s.lsd /\ CommittedHeld = s.held
         /\ CommittedLsd' = lsd' /\ CommittedHeld' = held'
BY DEF Commit, CommittedLsd, CommittedHeld

(* Seen from outside, the wrapper's vault is the abstract one: the message *)
(* tree of an update harvests it at once or not at all, and what backs the *)
(* tokens is never taken, whatever messages are rejected on the way and    *)
(* whoever is registered as the reward contract.                           *)
LEMMA HarvestStep ==
  ASSUME Inv, Inv', [Next]_vars
  PROVE  [Vault!VNext]_(Vault!vvars)
<1>1. PICK s : s = saved
  OBVIOUS
<1>2. \/ Quiet
      \/ Idle /\ Idle' /\ WrapperStep
      \/ Idle /\ Idle' /\ RewardStep
      \/ Commit /\ Done(s)'
  BY <1>1, NextFacts
<1>3. CASE Quiet
  BY <1>3 DEF Quiet, Vault!vvars
<1>4. CASE Idle /\ Idle' /\ WrapperStep
  <2>1. [WP!Vault!VNext]_(WP!Vault!vvars)
    BY <1>4, WrapperStepFacts DEF Inv, Typed, TypeOK
  <2>2. CommittedLsd = lsd /\ CommittedLsd' = lsd'
    BY <1>4 DEF CommittedLsd
  <2> QED
    BY <2>1, <2>2
    DEF Vault!VNext, Vault!Deposit, Vault!Redeem, Vault!Harvest, Vault!Revalue,
        Vault!vvars, WP!Vault!VNext, WP!Vault!Deposit, WP!Vault!Redeem,
        WP!Vault!Harvest, WP!Vault!Revalue, WP!Vault!vvars
<1>5. CASE Idle /\ Idle' /\ RewardStep
  <2>1. UNCHANGED <<supply, rate, lsd>>
    BY <1>5, RewardStepFacts DEF Inv
  <2> QED
    BY <1>5, <2>1 DEF CommittedLsd, Vault!vvars
<1>6. CASE Commit /\ Done(s)'
  <2>1. CommittedLsd = s.lsd /\ CommittedLsd' = lsd'
    BY <1>1, <1>6, CommitFacts
  <2>2. UNCHANGED <<supply, rate>> /\ lsd'[Wrapper] \in Nat
    <3>1. lsd' \in [Accounts -> Nat]
      BY <1>6, CommittedTypes DEF Inv, Typed, TypeOK, W!TypeOK, W!TokenTypeOK,
                                  W!Accounts, Accounts
    <3> QED
      BY <1>6, <3>1 DEF Commit, Accounts
  <2>3. \/ lsd'[Wrapper] = s.lsd[Wrapper]
        \/ /\ lsd'[Wrapper] <= s.lsd[Wrapper]
           /\ lsd'[Wrapper] * rate >= supply * ONE
    BY <1>6, <2>2 DEF Done, VaultHarvested, StillCovered
  <2> QED
    BY <2>1, <2>2, <2>3 DEF Vault!VNext, Vault!Harvest, Vault!vvars
<1> QED
  BY <1>2, <1>3, <1>4, <1>5, <1>6

(* The same as a theorem: an update, seen from outside, refines a single   *)
(* harvest of CollateralVault.                                             *)
THEOREM HarvestIsAtomic == Spec => AtomicHarvest
<1>1. Init => Vault!VInit
  <2> SUFFICES ASSUME Init PROVE Vault!VInit
    OBVIOUS
  <2>1. Inv
    BY InitInv
  <2>2. CommittedLsd \in [Accounts -> Nat] /\ supply \in Nat /\ rate \in Nat
    BY <2>1, CommittedTypes, AccountTypes DEF Inv
  <2> QED
    BY <2>2 DEF Vault!VInit, Accounts
<1>2. Inv /\ Inv' /\ [Next]_vars => [Vault!VNext]_(Vault!vvars)
  BY HarvestStep
<1> QED
  BY <1>1, <1>2, StagesKnown, PTL DEF Spec, AtomicHarvest, Vault!VSpec

(* The vault as it is seen from outside holds a number of LSD.             *)
LEMMA CommittedNat ==
  Inv => CommittedLsd[Wrapper] \in Nat /\ supply \in Nat /\ rate \in Nat
BY CommittedTypes, AccountTypes DEF Inv, Accounts

(* What every step of that vault does to the cover of the claims.          *)
LEMMA CoverStep ==
  ASSUME Inv, Inv', [Next]_vars, Vault!Covered, rate' >= rate
  PROVE  Vault!Covered'
<1> DEFINE a == CommittedLsd[Wrapper]
           b == CommittedLsd'[Wrapper]
<1>1. /\ a \in Nat /\ b \in Nat /\ supply \in Nat /\ supply' \in Nat
      /\ rate \in Nat /\ rate' \in Nat
  <2>1. (Inv => CommittedLsd[Wrapper] \in Nat /\ supply \in Nat /\ rate \in Nat)'
    BY CommittedNat, PTL
  <2> QED
    BY <2>1, CommittedNat
<1>2. a * rate >= supply * ONE
  BY DEF Vault!Covered
<1>3. [Vault!VNext]_(Vault!vvars)
  BY HarvestStep
<1>4. Vault!Covered' <=> b * rate' >= supply' * ONE
  BY DEF Vault!Covered
<1>5. CASE Vault!Deposit
  <2>1. rate' = rate /\ (b - a) * rate >= (supply' - supply) * ONE
    BY <1>5 DEF Vault!Deposit
  <2> HIDE DEF a, b
  <2> QED
    BY <1>1, <1>2, <1>4, <2>1, WrapperAssumptions, WP!CoverAfterDeposit
<1>6. CASE Vault!Redeem
  <2>1. rate' = rate /\ (a - b) * rate <= (supply - supply') * ONE
    BY <1>6 DEF Vault!Redeem
  <2> HIDE DEF a, b
  <2> QED
    BY <1>1, <1>2, <1>4, <2>1, WrapperAssumptions, WP!CoverAfterRedeem
<1>7. CASE Vault!Harvest
  BY <1>4, <1>7 DEF Vault!Harvest
<1>8. CASE Vault!Revalue
  <2>1. b = a /\ supply' = supply
    BY <1>8 DEF Vault!Revalue
  <2> HIDE DEF a, b
  <2> QED
    BY <1>1, <1>2, <1>4, <2>1, WrapperAssumptions, WP!CoverAfterRise
<1>9. CASE UNCHANGED Vault!vvars
  BY <1>2, <1>4, <1>9 DEF Vault!vvars
<1> QED
  BY <1>3, <1>5, <1>6, <1>7, <1>8, <1>9 DEF Vault!VNext

(* The composed vault stays solvent, seen from outside: if it backs every  *)
(* token with a Luna before a step it does so after it, unless the LSD's   *)
(* rate has fallen.  No mint, burn or update, none that is undone half way *)
(* and no misconfiguration takes the backing.                              *)
THEOREM CoverOutlivesUpdates == Spec => Vault!CoverLostOnlyByPrice
<1>1. Inv /\ Inv' /\ [Next]_vars =>
        [Vault!Covered /\ rate' >= rate => Vault!Covered']_(Vault!vvars)
  BY CoverStep
<1> QED
  BY <1>1, StagesKnown, PTL DEF Spec, Vault!CoverLostOnlyByPrice

(* The goods as RewardDistribution sees them.                              *)
SeenGoods ==
  [x \in (Assets \ {Stable}) \cup {Lsd} |->
     IF x = Lsd THEN CommittedLsd[Reward] ELSE CommittedHeld[x]]

(* What there was to sell, and what has become of it, when an update ends. *)
LEMMA CommitIsUpdate ==
  ASSUME Inv, Inv', Commit, NEW CONSTANT s, s = saved, Done(s)'
  PROVE  Distribution!Update
<1>1. /\ CommittedLsd = s.lsd /\ CommittedHeld = s.held
      /\ CommittedLsd' = lsd' /\ CommittedHeld' = held'
  BY CommitFacts
<1>2. /\ CommittedLsd \in [Accounts -> Nat] /\ CommittedLsd' \in [Accounts -> Nat]
      /\ CommittedHeld \in [Assets -> Nat]
      /\ {Wrapper, Reward, Market} \subseteq Accounts
      /\ Stable \in Assets /\ Lsd \notin Assets
  <2>1. CommittedLsd \in [Accounts -> Nat] /\ CommittedHeld \in [Assets -> Nat]
    BY CommittedTypes
  <2>2. (CommittedLsd \in [Accounts -> Nat])'
    BY CommittedTypes, PTL
  <2> QED
    BY <2>1, <2>2, RewardAssumption DEF Accounts, Assets
<1>3. lsd'[Wrapper] <= s.lsd[Wrapper]
  <2>1. s.lsd[Wrapper] \in Nat
    BY <1>1, <1>2
  <2> QED
    BY <2>1 DEF Done, VaultHarvested
<1>4. /\ held'[Stable] >= s.held[Stable]
      /\ \A x \in Goods \ {Stable} : Held(x)' \in {0, Before(s, x)'}
      /\ lsd'[Market] = s.lsd[Market] + (Before(s, Lsd)' - lsd'[Reward])
      /\ SumFunction(lsd') = SumFunction(s.lsd)
      /\ held'[Stable] > s.held[Stable]
           <=> \E x \in Goods \ {Stable} : Held(x)' < Before(s, x)'
  BY DEF Done, SoldOrKept
<1>5. /\ Goods \ {Stable} = (Assets \ {Stable}) \cup {Lsd}
      /\ Lsd \in Goods \ {Stable}
  BY <1>2 DEF Goods
<1> DEFINE Stocked(x) ==
      SeenGoods[x] + (IF x = Lsd THEN CommittedLsd[Wrapper]
                                        - CommittedLsd'[Wrapper] ELSE 0)
<1>6. ASSUME NEW x \in Goods \ {Stable}
      PROVE  SeenGoods'[x] = Held(x)' /\ Stocked(x) = Before(s, x)'
  <2>1. SeenGoods'[x] = Held(x)'
    BY <1>1, <1>5 DEF SeenGoods, Held
  <2>2. CASE x = Lsd
    <3>1. SeenGoods[x] = s.lsd[Reward]
      BY <1>1, <1>5, <2>2 DEF SeenGoods
    <3>2. Before(s, x)' = s.lsd[Reward] + (s.lsd[Wrapper] - lsd'[Wrapper])
      BY <2>2 DEF Before
    <3> QED
      BY <1>1, <2>1, <2>2, <3>1, <3>2
  <2>3. CASE x # Lsd
    <3>1. SeenGoods[x] = s.held[x] /\ x \in Assets
      BY <1>1, <1>5, <2>3 DEF SeenGoods
    <3>2. s.held[x] \in Nat
      BY <1>1, <1>2, <3>1
    <3> QED
      BY <2>1, <2>3, <3>1, <3>2 DEF Before
  <2> QED
    BY <2>2, <2>3
<1>7. /\ DOMAIN SeenGoods = Goods \ {Stable}
      /\ DOMAIN SeenGoods' = Goods \ {Stable}
  BY <1>5 DEF SeenGoods
<1>8. /\ \A x \in Goods \ {Stable} : SeenGoods'[x] \in {0, Stocked(x)}
      /\ held'[Stable] > s.held[Stable]
           <=> \E x \in Goods \ {Stable} : SeenGoods'[x] < Stocked(x)
  BY <1>4, <1>6
<1>9. lsd'[Market] = s.lsd[Market] + Stocked(Lsd) - SeenGoods'[Lsd]
  <2>1. SeenGoods'[Lsd] = lsd'[Reward] /\ Stocked(Lsd) = Before(s, Lsd)'
    BY <1>5, <1>6 DEF Held
  <2>2. /\ s.lsd[Market] \in Nat /\ lsd'[Reward] \in Nat /\ s.lsd[Reward] \in Nat
        /\ s.lsd[Wrapper] \in Nat /\ lsd'[Wrapper] \in Nat
    BY <1>1, <1>2
  <2>3. Before(s, Lsd)' \in Int
    BY <2>2 DEF Before
  <2> HIDE DEF Stocked
  <2> QED
    BY <1>4, <2>1, <2>2, <2>3
<1>10. supply' = supply
  BY DEF Commit
<1> QED
  BY <1>1, <1>3, <1>4, <1>7, <1>8, <1>9, <1>10
  DEF Distribution!Update, Distribution!Available, SeenGoods

(* Seen from outside, so is the distribution: of each asset all is sold or *)
(* nothing, the harvest included, nothing is lost on the way, and no       *)
(* reward is paid out but to the custody contract, as a whole.             *)
LEMMA DistributionStep ==
  ASSUME Inv, Inv', [Next]_vars
  PROVE  [Distribution!DNext]_(Distribution!dvars)
<1>1. PICK s : s = saved
  OBVIOUS
<1>2. \/ Quiet
      \/ Idle /\ Idle' /\ WrapperStep
      \/ Idle /\ Idle' /\ RewardStep
      \/ Commit /\ Done(s)'
  BY <1>1, NextFacts
<1>3. /\ CommittedLsd \in [Accounts -> Nat] /\ CommittedLsd' \in [Accounts -> Nat]
      /\ CommittedHeld \in [Assets -> Nat] /\ CommittedHeld' \in [Assets -> Nat]
      /\ {Wrapper, Reward} \subseteq Accounts
      /\ Stable \in Assets /\ Lsd \notin Assets
      /\ supply \in Nat /\ supply' \in Nat
  <2>1. /\ CommittedLsd \in [Accounts -> Nat] /\ CommittedHeld \in [Assets -> Nat]
        /\ supply \in Nat
    BY CommittedTypes, CommittedNat
  <2>2. (/\ CommittedLsd \in [Accounts -> Nat] /\ CommittedHeld \in [Assets -> Nat]
         /\ supply \in Nat)'
    BY CommittedTypes, CommittedNat, PTL
  <2> QED
    BY <2>1, <2>2, RewardAssumption DEF Accounts, Assets
<1>4. CASE Quiet
  BY <1>4 DEF Quiet, Distribution!dvars
<1>5. CASE Idle /\ Idle' /\ WrapperStep
  <2>1. /\ SumFunction(lsd') = SumFunction(lsd) /\ lsd'[Market] = lsd[Market]
        /\ Traded \/ Donated
    BY <1>5, WrapperStepFacts DEF Inv, Typed, TypeOK
  <2>2. /\ CommittedLsd = lsd /\ CommittedLsd' = lsd'
        /\ CommittedHeld' = CommittedHeld
    BY <1>5 DEF CommittedLsd, CommittedHeld, WrapperStep
  <2>3. CASE Traded
    <3>1. SeenGoods' = SeenGoods
      BY <2>2, <2>3 DEF SeenGoods, Traded
    <3>2. lsd'[Wrapper] \in Nat
      BY <1>3, <2>2
    <3> QED
      BY <1>3, <2>1, <2>2, <2>3, <3>1, <3>2
      DEF SeenGoods, Traded, Distribution!DNext, Distribution!Trade
  <2>4. CASE Donated
    <3>1. \A x \in Assets : CommittedHeld[x] >= CommittedHeld[x]
      BY <1>3
    <3> QED
      BY <1>3, <2>1, <2>2, <2>4, <3>1
      DEF Donated, Distribution!DNext, Distribution!Gift
  <2> QED
    BY <2>1, <2>3, <2>4
<1>6. CASE Idle /\ Idle' /\ RewardStep
  <2>1. /\ lsd' = lsd /\ supply' = supply
        /\ \/ held' = held
           \/ \A x \in Assets : held'[x] >= held[x]
           \/ /\ held'[Stable] = 0
              /\ \A x \in Assets \ {Stable} : held'[x] = held[x]
    BY <1>6, RewardStepFacts DEF Inv
  <2>2. /\ CommittedLsd' = CommittedLsd
        /\ CommittedHeld = held /\ CommittedHeld' = held'
    BY <1>6, <2>1 DEF CommittedLsd, CommittedHeld
  <2>3. CASE held' = held
    BY <2>1, <2>2, <2>3 DEF Distribution!dvars
  <2>4. CASE \A x \in Assets : held'[x] >= held[x]
    BY <1>3, <2>1, <2>2, <2>4 DEF Distribution!DNext, Distribution!Gift
  <2>5. CASE /\ held'[Stable] = 0
             /\ \A x \in Assets \ {Stable} : held'[x] = held[x]
    <3>1. SeenGoods' = SeenGoods
      BY <2>2, <2>5 DEF SeenGoods
    <3> QED
      BY <2>1, <2>2, <2>5, <3>1
      DEF SeenGoods, Distribution!DNext, Distribution!Claim
  <2> QED
    BY <2>1, <2>3, <2>4, <2>5
<1>7. CASE Commit /\ Done(s)'
  BY <1>1, <1>7, CommitIsUpdate DEF Distribution!DNext
<1> QED
  BY <1>2, <1>4, <1>5, <1>6, <1>7

(* The same as a theorem: an update, seen from outside, refines a single   *)
(* step of RewardDistribution, in which every LSD that leaves the vault is *)
(* sold or still held.                                                     *)
THEOREM DistributionIsAtomic == Spec => AtomicDistribution
<1>1. Init => Distribution!DInit
  <2> SUFFICES ASSUME Init PROVE Distribution!DInit
    OBVIOUS
  <2>1. Inv
    BY InitInv
  <2>2. CommittedLsd = LsdEndowment /\ CommittedHeld = [x \in Assets |-> 0]
    BY DEF Init, W!Init, W!TokenInit, RewardInit, CommittedLsd, CommittedHeld, Idle
  <2>3. /\ LsdEndowment[Wrapper] \in Nat /\ LsdEndowment[Market] \in Nat
        /\ LsdEndowment[Reward] = 0
    BY GlobalAmountAssumption DEF Accounts
  <2>4. Stable \in Assets
    BY RewardAssumption DEF Assets
  <2>5. supply \in Nat
    BY <2>1, CommittedNat
  <2>6. SumFunction(LsdEndowment) \in Nat
    BY GlobalAmountAssumption, FiniteAccounts, SumBound
  <2> QED
    BY <2>2, <2>3, <2>4, <2>5, <2>6 DEF Distribution!DInit
<1>2. Inv /\ Inv' /\ [Next]_vars => [Distribution!DNext]_(Distribution!dvars)
  BY DistributionStep
<1> QED
  BY <1>1, <1>2, StagesKnown, PTL
  DEF Spec, AtomicDistribution, Distribution!DSpec

(* An update that is not rejected has sold everything the reward contract  *)
(* held or received on the way that some exchange would pay for.           *)
THEOREM EverythingIsSold == Spec => NothingLeftBehind
<1> DEFINE Sold == \A x \in (Range(Natives) \cup Range(rewardConfig.known))
                              \ (unsold' \cup Mute \cup {Stable}) :
                     (IF x = Lsd THEN lsd'[Reward] ELSE held'[x]) = 0
<1>1. ASSUME Inv, [Next]_vars, ~Idle, Idle', ~Abort
      PROVE  Sold
  <2>1. TxStep
    BY <1>1 DEF Next, vars, Idle
  <2>2. PICK s : s = saved
    OBVIOUS
  <2>3. Done(s)'
    BY <1>1, <2>1, <2>2, TxStepFacts
  <2>4. AllOnSale(stack)' /\ stack' = << >>
    BY <1>1, <2>3 DEF Done, Idle
  <2>5. rewardConfig' = rewardConfig
    BY <2>1 DEF TxStep, rewardConfigs
  <2>6. Range(Listed) = Range(Natives) \cup Range(rewardConfig.known)
    BY <1>1, ListedFacts DEF Inv, Typed, TypeOK
  <2>7. Listed' = Listed
    BY <2>5 DEF Listed
  <2>8. \A x \in Range(Listed) \ (unsold' \cup Mute \cup {Stable}) : Held(x)' = 0
    BY <2>4, <2>7 DEF AllOnSale
  <2> QED
    BY <2>6, <2>8 DEF Held
<1>2. Inv /\ [Next]_vars =>
        [~Idle /\ Idle' /\ ~Abort /\ hubConfig.reward = Reward => Sold]_vars
  BY <1>1
<1> QED
  BY <1>2, StagesKnown, PTL DEF Spec, NothingLeftBehind

-----------------------------------------------------------------------------
(* That a transaction is finite, which needs no fairness: it executes at   *)
(* most one message for each token there is to sell and three besides.     *)
StepsBounded == StepsLeft \in 0 .. Len(Listed) + 3

(* Whatever the stage, what is left of it is a natural number.             *)
LEMMA StepsLeftNat == Inv => StepsLeft \in Nat
BY StepsLeftAt DEF StepsKnown, Inv, Stage, AtSales

LEMMA StepsWithin ==
  ASSUME Inv, [Next]_vars, StepsBounded
  PROVE  /\ StepsBounded'
         /\ [~Idle => StepsLeft' < StepsLeft]_vars
<1> USE DEF StepsBounded
<1>0. Inv' /\ Typed
  BY NextFacts DEF Inv
<1>1. /\ Len(Listed) \in Nat /\ Len(Listed') \in Nat
      /\ Idle' => StepsLeft' = 0
      /\ ~Idle' /\ AtUpdate' => StepsLeft' = Len(Listed') + 3
      /\ ~Idle' /\ AtSwap' => StepsLeft' = Len(Listed') + 1
  BY <1>0, StepsLeftAt, StepsLeftThen DEF Inv, StepsKnown
<1>2. CASE UNCHANGED vars
  <2>1. StepsLeft' = StepsLeft /\ Listed' = Listed
    BY <1>2 DEF vars, configVars, rewardConfigs, StepsLeft, Listed, Idle
  <2> QED
    BY <1>2, <2>1
<1>3. CASE Idle /\ (BeginUpdate \/ \E u \in Users : BeginSwap(u))
  <2>1. ~Idle' /\ (AtUpdate \/ AtSwap)'
    BY <1>0, <1>3, BeginFacts
  <2> QED
    BY <1>1, <1>3, <2>1
<1>4. CASE Idle /\ (WrapperStep \/ HubConfigStep \/ RewardStep)
  <2>1. Idle'
    BY <1>0, <1>4, HubConfigFacts, RewardStepFacts DEF WrapperStep, Idle
  <2> QED
    BY <1>1, <1>4, <2>1
<1>5. CASE TxStep
  <2>1. StepsLeft' < StepsLeft /\ Listed' = Listed
    BY <1>5, TxStepFacts
  <2>2. (Inv => StepsLeft \in Nat)'
    BY StepsLeftNat, PTL
  <2> QED
    BY <1>0, <1>1, <1>5, <2>1, <2>2
<1> QED
  BY <1>2, <1>3, <1>4, <1>5 DEF Next

(* Every step of a transaction leaves it fewer messages to execute, and at *)
(* most as many as the tokens there are to sell and three: no handler and  *)
(* no rejection puts off its end.                                          *)
THEOREM TransactionsAreFinite ==
  Spec => /\ []StepsBounded
          /\ [][~Idle => StepsLeft' < StepsLeft]_vars
<1>1. Init => StepsBounded
  <2> SUFFICES ASSUME Init PROVE StepsBounded
    OBVIOUS
  <2>1. Idle /\ Typed
    BY InitInv DEF Init, Idle, Inv
  <2> QED
    BY <2>1, StepsLeftAt DEF StepsKnown, StepsBounded
<1>2. Inv /\ [Next]_vars /\ StepsBounded =>
        /\ StepsBounded'
        /\ [~Idle => StepsLeft' < StepsLeft]_vars
  BY StepsWithin
<1> QED
  BY <1>1, <1>2, StagesKnown, PTL DEF Spec
=============================================================================
