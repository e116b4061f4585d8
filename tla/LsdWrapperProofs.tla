-------------------------- MODULE LsdWrapperProofs --------------------------
(***************************************************************************)
(* Theorems about LsdWrapper, for every value of its constants: its types, *)
(* that it implements the abstract vault, and from these that it stays     *)
(* solvent, that Decompound takes what it may and no more, that the supply *)
(* is the sum of the balances and that all holders can leave together.     *)
(***************************************************************************)
EXTENDS LsdWrapper, Cw20WrapperProofs

(* What Decompound takes from a vault that covers its supply leaves the    *)
(* supply covered, and less than two LSD more.                             *)
LEMMA RewardsTight ==
  ASSUME NEW b \in Nat, NEW s \in Nat, NEW r \in Nat \ {0},
         b * r >= s * ONE
  PROVE  /\ LsdRewards(b, s, r) \in Nat
         /\ LsdRewards(b, s, r) <= b
         /\ (b - LsdRewards(b, s, r)) * r >= s * ONE
         /\ (b - LsdRewards(b, s, r) - 2) * r < s * ONE
<1> DEFINE y == ExcessLsd(b, s, r)
           w == LsdRewards(b, s, r)
<1>1. /\ y \in Nat /\ y <= b
      /\ \A v \in Nat : v < y => (b - v) * r >= s * ONE
      /\ (b - y - 1) * r < s * ONE
  BY ExcessLsdBounds
<1>2. w = IF y > 0 THEN y - 1 ELSE 0
  BY DEF LsdRewards
<1> HIDE DEF y, w
<1>3. w \in Nat /\ w <= b
  BY <1>1, <1>2
<1>4. (b - w) * r >= s * ONE
  BY <1>1, <1>2
<1>5. (b - w - 2) * r < s * ONE
  <2>1. b - w - 2 <= b - y - 1
    BY <1>1, <1>2
  <2>2. (b - w - 2) * r <= (b - y - 1) * r
    BY <1>1, <1>3, <2>1, SMT
  <2>3. (b - w - 2) * r \in Int /\ (b - y - 1) * r \in Int /\ s * ONE \in Int
    BY <1>1, <1>3, OneAssumption, SMT
  <2> QED BY <1>1, <2>2, <2>3
<1> QED
  BY <1>3, <1>4, <1>5 DEF w

(* A decompound that finds no slashing moves rewards the vault holds.      *)
LEMMA DecompoundRewards ==
  ASSUME TypeOK, ~Slashed, rate > 0
  PROVE  /\ LsdRewards(lsd[Wrapper], supply, rate) \in Nat
         /\ LsdRewards(lsd[Wrapper], supply, rate) <= lsd[Wrapper]
         /\ (lsd[Wrapper] - LsdRewards(lsd[Wrapper], supply, rate)) * rate
              >= supply * ONE
         /\ (lsd[Wrapper] - LsdRewards(lsd[Wrapper], supply, rate) - 2) * rate
              < supply * ONE
<1>1. rate \in Nat \ {0} /\ supply \in Nat /\ lsd[Wrapper] \in Nat
  BY UsersAreAccounts, AmountAssumption DEF TypeOK, TokenTypeOK
<1>2. lsd[Wrapper] * rate >= supply * ONE
  BY <1>1, SlashedExactly, OneAssumption, MulNat DEF Slashed
<1> QED
  BY <1>1, <1>2, RewardsTight

-----------------------------------------------------------------------------
(* Each handler keeps the types and is a step of the abstract vault.       *)

LEMMA VaultTypes ==
  ASSUME TypeOK
  PROVE  lsd[Wrapper] \in Nat /\ supply \in Nat /\ rate \in Nat
BY UsersAreAccounts, AmountAssumption DEF TypeOK, TokenTypeOK

LEMMA MintStep ==
  ASSUME TypeOK, NEW u \in Users, NEW v \in Accounts, NEW n \in Amounts,
         Mint(u, v, n)
  PROVE  TypeOK' /\ Vault!Deposit
<1> DEFINE d == DepositFor(n, rate)
<1>1. lsd[Wrapper] \in Nat /\ supply \in Nat /\ rate \in Nat
  BY VaultTypes
<1>2. /\ TypeOK' /\ rate' = rate
      /\ n \in Nat /\ d \in Nat /\ d * rate >= n * ONE
      /\ lsd'[Wrapper] = lsd[Wrapper] + d
      /\ supply' = supply + n
  BY <1>1, MintAtFacts DEF Mint, TypeOK
<1> HIDE DEF d
<1>3. /\ lsd'[Wrapper] - lsd[Wrapper] = d
      /\ supply' - supply = n
  BY <1>1, <1>2
<1> QED
  BY <1>1, <1>2, <1>3 DEF Vault!Deposit

LEMMA MintWithStep ==
  ASSUME TypeOK, NEW u \in Users, NEW v \in Accounts, NEW n \in Amounts,
         MintWith(u, v, n)
  PROVE  TypeOK' /\ Vault!Deposit
<1> DEFINE m == MintFor(n, rate)
<1>1. lsd[Wrapper] \in Nat /\ supply \in Nat /\ rate \in Nat
  BY VaultTypes
<1>2. /\ TypeOK' /\ rate' = rate
      /\ n \in Nat /\ m \in Nat /\ n * rate >= m * ONE
      /\ lsd'[Wrapper] = lsd[Wrapper] + n
      /\ supply' = supply + m
  BY <1>1, MintWithAtFacts DEF MintWith, TypeOK
<1> HIDE DEF m
<1>3. /\ lsd'[Wrapper] - lsd[Wrapper] = n
      /\ supply' - supply = m
  BY <1>1, <1>2
<1> QED
  BY <1>1, <1>2, <1>3 DEF Vault!Deposit

(* Burn, BurnAll and BurnFrom, from what they do to vault and supply.      *)
LEMMA RedeemStep ==
  ASSUME TypeOK, TypeOK', rate' = rate, NEW n \in Nat, NEW p \in Nat,
         p * rate <= n * ONE,
         lsd'[Wrapper] = lsd[Wrapper] - p, supply' = supply - n
  PROVE  Vault!Redeem
<1>1. lsd[Wrapper] \in Nat /\ supply \in Nat /\ rate \in Nat
  BY VaultTypes
<1>2. lsd'[Wrapper] \in Nat /\ supply' \in Nat
  BY UsersAreAccounts DEF TypeOK, TokenTypeOK
<1>3. /\ lsd[Wrapper] - lsd'[Wrapper] = p
      /\ supply - supply' = n
  BY <1>1, <1>2
<1> QED
  BY <1>1, <1>2, <1>3 DEF Vault!Redeem

LEMMA BurnStep ==
  ASSUME TypeOK, NEW u \in Users, NEW n \in Nat, Burn(u, n)
  PROVE  TypeOK' /\ Vault!Redeem
<1>1. rate \in Nat
  BY VaultTypes
<1>2. /\ TypeOK' /\ rate' = rate
      /\ PayoutFor(n, rate) \in Nat
      /\ PayoutFor(n, rate) * rate <= n * ONE
      /\ lsd'[Wrapper] = lsd[Wrapper] - PayoutFor(n, rate)
      /\ supply' = supply - n
  BY <1>1, BurnAtFacts DEF Burn, TypeOK
<1> QED
  BY <1>2, RedeemStep

LEMMA BurnFromStep ==
  ASSUME TypeOK, NEW u \in Users, NEW o \in Accounts, NEW n \in Nat,
         BurnFrom(u, o, n)
  PROVE  TypeOK' /\ Vault!Redeem
<1>1. rate \in Nat
  BY VaultTypes
<1>2. /\ TypeOK' /\ rate' = rate
      /\ PayoutFor(n, rate) \in Nat
      /\ PayoutFor(n, rate) * rate <= n * ONE
      /\ lsd'[Wrapper] = lsd[Wrapper] - PayoutFor(n, rate)
      /\ supply' = supply - n
  BY <1>1, BurnFromAtFacts DEF BurnFrom, TypeOK
<1> QED
  BY <1>2, RedeemStep

LEMMA DecompoundStep ==
  ASSUME TypeOK, NEW u \in Users \cup {Hub}, NEW v \in Accounts,
         Decompound(u, v)
  PROVE  TypeOK' /\ (Vault!Harvest \/ UNCHANGED Vault!vvars)
<1> DEFINE w == LsdRewards(lsd[Wrapper], supply, rate)
<1>1. lsd[Wrapper] \in Nat
  BY VaultTypes
<1>2. CASE UNCHANGED lsd
  BY <1>2 DEF TypeOK, TokenTypeOK, Decompound, Vault!vvars
<1>3. CASE ~Slashed /\ rate > 0 /\ PushLsd(v, w)
  <2>1. /\ w \in Nat /\ w <= lsd[Wrapper]
        /\ (lsd[Wrapper] - w) * rate >= supply * ONE
    BY <1>3, DecompoundRewards
  <2> HIDE DEF w
  <2>2. /\ lsd' \in [Accounts -> Nat]
        /\ v # Wrapper => lsd'[Wrapper] = lsd[Wrapper] - w
        /\ v = Wrapper => lsd'[Wrapper] = lsd[Wrapper]
    BY <1>3, <2>1, PushFacts DEF TypeOK
  <2>3. TypeOK'
    BY <2>2 DEF TypeOK, TokenTypeOK, Decompound
  <2>4. CASE v = Wrapper
    BY <2>2, <2>3, <2>4 DEF Decompound, Vault!vvars
  <2>5. CASE v # Wrapper
    <3>1. /\ lsd'[Wrapper] \in Nat /\ lsd'[Wrapper] <= lsd[Wrapper]
          /\ lsd'[Wrapper] * rate >= supply * ONE
      BY <1>1, <2>1, <2>2, <2>5, UsersAreAccounts
    <3> QED BY <2>3, <3>1 DEF Decompound, Vault!Harvest
  <2> QED BY <2>4, <2>5
<1> QED
  BY <1>2, <1>3 DEF Decompound

(* Everything a user may send.                                             *)
LEMMA TokenStepOK ==
  ASSUME TypeOK, NEW u \in Users, TokenStep(u)
  PROVE  TypeOK' /\ Vault!VNext
<1> USE AmountAssumption
<1>1. ASSUME NEW v \in Accounts, NEW n \in Amounts,
             Mint(u, v, n) \/ MintWith(u, v, n)
      PROVE  TypeOK' /\ Vault!VNext
  BY <1>1, MintStep, MintWithStep DEF Vault!VNext
<1>2. ASSUME NEW v \in Accounts, NEW n \in Amounts, BurnFrom(u, v, n)
      PROVE  TypeOK' /\ Vault!VNext
  BY <1>2, BurnFromStep DEF Vault!VNext
<1>3. ASSUME NEW n \in Amounts, Burn(u, n)
      PROVE  TypeOK' /\ Vault!VNext
  BY <1>3, BurnStep DEF Vault!VNext
<1>4. ASSUME BurnAll(u) PROVE TypeOK' /\ Vault!VNext
  <2>1. bal[u] \in Nat
    BY UsersAreAccounts DEF TypeOK, TokenTypeOK
  <2> QED BY <1>4, <2>1, BurnStep DEF BurnAll, Vault!VNext
<1> QED
  BY <1>1, <1>2, <1>3, <1>4 DEF TokenStep

(* LSD sent to the vault by somebody else are a deposit without claims.    *)
LEMMA LsdTransferStep ==
  ASSUME TypeOK, NEW u \in Users \cup {Hub}, NEW v \in Accounts,
         NEW n \in Amounts, LsdTransfer(u, v, n)
  PROVE  TypeOK' /\ (Vault!Deposit \/ UNCHANGED Vault!vvars)
<1>1. lsd[Wrapper] \in Nat /\ supply \in Nat /\ rate \in Nat
  BY VaultTypes
<1>2. /\ TypeOK' /\ UNCHANGED <<supply, rate>> /\ n \in Nat
      /\ \/ lsd'[Wrapper] = lsd[Wrapper]
         \/ lsd'[Wrapper] = lsd[Wrapper] + n
  BY LsdTransferFacts DEF TypeOK
<1>3. CASE lsd'[Wrapper] = lsd[Wrapper]
  BY <1>2, <1>3 DEF Vault!vvars
<1>4. CASE lsd'[Wrapper] = lsd[Wrapper] + n
  <2>1. /\ lsd'[Wrapper] - lsd[Wrapper] = n
        /\ n * rate \in Nat
        /\ supply' - supply = 0
    BY <1>1, <1>2, <1>4, MulNat
  <2>2. 0 * ONE = 0
    BY OneAssumption
  <2> QED BY <1>1, <1>2, <1>4, <2>1, <2>2 DEF Vault!Deposit
<1> QED
  BY <1>2, <1>3, <1>4

LEMMA NextOK ==
  ASSUME TypeOK, [Next]_vars
  PROVE  TypeOK' /\ [Vault!VNext]_(Vault!vvars)
<1>1. CASE UNCHANGED vars
  BY <1>1 DEF vars, tokenVars, TypeOK, TokenTypeOK, Vault!vvars
<1>2. ASSUME NEW u \in Users, Cw20Step(u)
      PROVE  TypeOK' /\ [Vault!VNext]_(Vault!vvars)
  BY <1>2, Cw20StepFacts DEF TypeOK, Vault!vvars
<1>3. ASSUME NEW u \in Users, TokenStep(u)
      PROVE  TypeOK' /\ [Vault!VNext]_(Vault!vvars)
  BY <1>3, TokenStepOK
<1>4. ASSUME NEW u \in Users \cup {Hub}, NEW v \in Accounts, Decompound(u, v)
      PROVE  TypeOK' /\ [Vault!VNext]_(Vault!vvars)
  BY <1>4, DecompoundStep DEF Vault!VNext
<1>5. CASE LsdRateChange
  BY <1>5, RateChangeFacts DEF TypeOK, Vault!VNext, Vault!Revalue
<1>6. ASSUME NEW u \in Users \cup {Hub}, NEW v \in Accounts, NEW n \in Amounts,
             LsdTransfer(u, v, n)
      PROVE  TypeOK' /\ [Vault!VNext]_(Vault!vvars)
  BY <1>6, LsdTransferStep DEF Vault!VNext
<1>7. ASSUME NEW o \in Accounts, NEW s \in Accounts, AllowanceExpires(o, s)
      PROVE  TypeOK' /\ [Vault!VNext]_(Vault!vvars)
  BY <1>7, ExpiryStep DEF TypeOK, Vault!vvars
<1> QED
  BY <1>1, <1>2, <1>3, <1>4, <1>5, <1>6, <1>7 DEF Next, OutsideStep

-----------------------------------------------------------------------------
(* The theorems.                                                           *)

(* Balances, supply, allowances and the vault stay natural numbers: no     *)
(* handler the code accepts takes an account below zero.                   *)
THEOREM TypeCorrect == Spec => []TypeOK
<1>0. Init => TypeOK
  BY TokenInitType DEF Init, TypeOK
<1>1. TypeOK /\ [Next]_vars => TypeOK'
  BY NextOK
<1> QED
  BY <1>0, <1>1, PTL DEF Spec

(* The wrapper implements the abstract vault, whatever the users, amounts, *)
(* rates and the scale of the Decimals.                                    *)
THEOREM ImplementsVault == Spec => VaultSpec
<1>1. Init => Vault!VInit
  <2> SUFFICES ASSUME Init PROVE Vault!VInit
    OBVIOUS
  <2>1. TypeOK
    BY TokenInitType DEF Init, TypeOK
  <2> QED BY <2>1, VaultTypes DEF Vault!VInit
<1>2. TypeOK /\ [Next]_vars => [Vault!VNext]_(Vault!vvars)
  BY NextOK
<1> QED
  BY <1>1, <1>2, TypeCorrect, PTL DEF Spec, VaultSpec, Vault!VSpec

(* A step of the abstract vault that does not lower the price keeps        *)
(* covered claims covered.                                                 *)
LEMMA VaultStepKeepsCover ==
  ASSUME TypeOK, TypeOK', [Vault!VNext]_(Vault!vvars),
         Vault!Covered, rate' >= rate
  PROVE  Vault!Covered'
<1> DEFINE a == lsd[Wrapper]
           b == lsd'[Wrapper]
<1>1. /\ a \in Nat /\ b \in Nat /\ supply \in Nat /\ supply' \in Nat
      /\ rate \in Nat /\ rate' \in Nat
      /\ a * rate >= supply * ONE
  BY UsersAreAccounts, AmountAssumption DEF TypeOK, TokenTypeOK, Vault!Covered
<1>2. CASE Vault!Deposit
  <2>1. rate' = rate /\ (b - a) * rate >= (supply' - supply) * ONE
    BY <1>2 DEF Vault!Deposit
  <2> HIDE DEF a, b
  <2>2. b * rate >= supply' * ONE
    BY <1>1, <2>1, CoverAfterDeposit
  <2> QED BY <2>1, <2>2 DEF Vault!Covered, b
<1>3. CASE Vault!Redeem
  <2>1. rate' = rate /\ (a - b) * rate <= (supply - supply') * ONE
    BY <1>3 DEF Vault!Redeem
  <2> HIDE DEF a, b
  <2>2. b * rate >= supply' * ONE
    BY <1>1, <2>1, CoverAfterRedeem
  <2> QED BY <2>1, <2>2 DEF Vault!Covered, b
<1>4. CASE Vault!Harvest
  BY <1>4 DEF Vault!Harvest, Vault!Covered
<1>5. CASE Vault!Revalue
  <2>1. a = b /\ supply' = supply
    BY <1>5 DEF Vault!Revalue
  <2> HIDE DEF a, b
  <2>2. b * rate' >= supply' * ONE
    BY <1>1, <2>1, CoverAfterRise
  <2> QED BY <2>2 DEF Vault!Covered, b
<1>6. CASE UNCHANGED Vault!vvars
  BY <1>6 DEF Vault!vvars, Vault!Covered
<1> QED
  BY <1>2, <1>3, <1>4, <1>5, <1>6 DEF Vault!VNext

(* A covered wrapper loses its cover only in a step that lowers the LSD's  *)
(* rate: no rounding in Mint, MintWith, Burn, BurnAll, BurnFrom or         *)
(* Decompound costs the holders anything.                                  *)
THEOREM SolvencyPreserved == Spec => SolvencyKept
<1>1. TypeOK /\ [Next]_vars =>
        [Vault!Covered /\ rate' >= rate => Vault!Covered']_(Vault!vvars)
  BY NextOK, VaultStepKeepsCover
<1> QED
  BY <1>1, TypeCorrect, PTL
  DEF Spec, SolvencyKept, Vault!CoverLostOnlyByPrice

(* A decompound that finds no slashing takes all the excess but a rest.    *)
LEMMA TightHarvest ==
  ASSUME TypeOK, NEW v \in Accounts \ {Wrapper}, Decompound(Hub, v), ~Slashed
  PROVE  /\ lsd'[Wrapper] * rate >= supply * ONE
         /\ (lsd'[Wrapper] - 2) * rate < supply * ONE
<1> DEFINE w == LsdRewards(lsd[Wrapper], supply, rate)
<1>1. rate > 0 /\ PushLsd(v, w)
  BY DEF Decompound
<1>2. /\ w \in Nat
      /\ (lsd[Wrapper] - w) * rate >= supply * ONE
      /\ (lsd[Wrapper] - w - 2) * rate < supply * ONE
  BY <1>1, DecompoundRewards
<1> HIDE DEF w
<1>3. lsd'[Wrapper] = lsd[Wrapper] - w
  BY <1>1, <1>2, PushFacts DEF TypeOK
<1> QED BY <1>2, <1>3

(* A Decompound the code accepts on a vault that covers its supply leaves  *)
(* the backing and less than two LSD more.                                 *)
THEOREM HarvestTight == Spec => HarvestIsTight
<1>1. TypeOK /\ [Next]_vars =>
        [\A recipient \in Accounts \ {Wrapper} :
            Decompound(Hub, recipient) /\ ~Slashed =>
              /\ lsd'[Wrapper] * rate >= supply * ONE
              /\ (lsd'[Wrapper] - 2) * rate < supply * ONE]_vars
  BY TightHarvest
<1> QED
  BY <1>1, TypeCorrect, PTL DEF Spec, HarvestIsTight

(* The Luna reward does not underflow at an ordinary rate.                 *)
LEMMA RewardsOrdinarily == TypeOK => RewardsNeverUnderflow
<1> SUFFICES ASSUME TypeOK, rate > 0, ~Slashed, OrdinaryRate(rate)
             PROVE  LunaRewards(lsd[Wrapper], supply, rate) >= 0
  BY DEF RewardsNeverUnderflow
<1>1. /\ lsd[Wrapper] \in Nat /\ supply \in Nat /\ rate \in Nat \ {0}
  BY VaultTypes
<1>2. lsd[Wrapper] * rate >= supply * ONE
  BY <1>1, SlashedExactly, OneAssumption, MulNat DEF Slashed
<1>3. /\ ExcessLuna(lsd[Wrapper], supply, rate) \in Nat
      /\ ExcessLsd(lsd[Wrapper], supply, rate) > 0 =>
           ExcessLuna(lsd[Wrapper], supply, rate) >= Trunc(rate)
  BY <1>1, <1>2, LunaCoversLsd
<1>4. Trunc(rate) \in Nat
  BY <1>1, TruncBounds
<1> QED BY <1>3, <1>4 DEF LunaRewards

(* So a wrapper that is not slashed does not make the hub's update fail.   *)
THEOREM NoUnderflow == Spec => []RewardsNeverUnderflow
BY RewardsOrdinarily, TypeCorrect, PTL

-----------------------------------------------------------------------------
(* The supply, and what all holders together can claim.                    *)

LEMMA StepBalanced ==
  ASSUME TypeOK, Balanced, [Next]_vars
  PROVE  Balanced'
<1> USE AmountAssumption
<1>0. TokenTypeOK /\ rate \in Nat
  BY DEF TypeOK, TokenTypeOK
<1>1. CASE UNCHANGED vars
  BY <1>1 DEF vars, tokenVars, Balanced
<1>2. ASSUME NEW u \in Users, Cw20Step(u) PROVE Balanced'
  BY <1>0, <1>2, Cw20StepBalanced
<1>3. ASSUME NEW u \in Users, NEW v \in Accounts, NEW n \in Amounts,
             Mint(u, v, n) \/ MintWith(u, v, n) \/ BurnFrom(u, v, n)
      PROVE  Balanced'
  BY <1>0, <1>3, MintBurnBalanced DEF Mint, MintWith, BurnFrom
<1>4. ASSUME NEW u \in Users, NEW n \in Nat, Burn(u, n) PROVE Balanced'
  BY <1>0, <1>4, UsersAreAccounts, MintBurnBalanced DEF Burn
<1>5. ASSUME NEW u \in Users, BurnAll(u) PROVE Balanced'
  <2>1. bal[u] \in Nat
    BY <1>0, UsersAreAccounts DEF TokenTypeOK
  <2> QED BY <1>4, <1>5, <2>1 DEF BurnAll
<1>6. ASSUME NEW u \in Users \cup {Hub}, NEW v \in Accounts, Decompound(u, v)
      PROVE  Balanced'
  BY <1>6 DEF Decompound, Balanced
<1>7. CASE OutsideStep
  BY <1>7, OutsideBalanced
<1> QED
  BY <1>1, <1>2, <1>3, <1>4, <1>5, <1>6, <1>7 DEF Next, TokenStep

(* The supply is the sum of the balances, whatever is minted, burnt and    *)
(* transferred: total_supply and BALANCES, which cw20 writes separately,   *)
(* never drift apart.                                                      *)
THEOREM SupplyIsTheSum == Spec => []SupplyMatchesBalances
<1>1. Init => TypeOK /\ Balanced
  BY TokenInitType, InitBalanced DEF Init, TypeOK
<1>2. TypeOK /\ Balanced /\ [Next]_vars => TypeOK' /\ Balanced'
  BY NextOK, StepBalanced
<1>3. Balanced => SupplyMatchesBalances
  BY DEF Balanced, SupplyMatchesBalances
<1> QED
  BY <1>1, <1>2, <1>3, PTL DEF Spec

(* Each payout is rounded down, so that together they are worth at most    *)
(* the balances burnt, which is at most what the vault holds.              *)
LEMMA PayoutsFitTheVault == TypeOK /\ SupplyMatchesBalances => EveryoneCanLeave
<1> DEFINE f == [a \in Accounts |-> PayoutFor(bal[a], rate)]
           vault == lsd[Wrapper]
<1> SUFFICES ASSUME TypeOK, SupplyMatchesBalances, rate > 0, Vault!Covered
             PROVE  SumFunction(f) <= vault
  BY DEF EveryoneCanLeave
<1>1. /\ rate \in Nat \ {0} /\ supply \in Nat /\ vault \in Nat
      /\ bal \in [Accounts -> Nat]
  BY VaultTypes DEF TypeOK, TokenTypeOK
<1>2. \A a \in Accounts : /\ PayoutFor(bal[a], rate) \in Nat
                          /\ PayoutFor(bal[a], rate) * rate <= bal[a] * ONE
  BY <1>1, PayoutCovered
<1>3. /\ f \in [Accounts -> Nat]
      /\ \A a \in Accounts : f[a] * rate <= bal[a] * ONE
  BY <1>2
<1>4. vault * rate >= supply * ONE /\ supply = SumFunction(bal)
  BY DEF Vault!Covered, SupplyMatchesBalances
<1> HIDE DEF f, vault
<1>5. SumFunction(f) * rate <= SumFunction(bal) * ONE
  <2>1. rate \in Nat /\ ONE \in Nat
    BY <1>1, OneAssumption
  <2> QED BY <1>1, <1>3, <2>1, AccountsFinite, SumCompare
<1>6. SumFunction(f) \in Nat
  BY <1>3, AccountsFinite, SumBounds
<1>7. SumFunction(f) * rate <= vault * rate
  <2>1. /\ SumFunction(f) * rate \in Nat /\ vault * rate \in Nat
        /\ supply * ONE \in Nat
    BY <1>1, <1>6, OneAssumption, MulNat
  <2> QED BY <1>4, <1>5, <2>1
<1> QED
  BY <1>1, <1>6, <1>7, MulCancelLeq

(* While the vault covers the supply everyone can burn all he has and be   *)
(* paid in full: no holder's payout is at the expense of the last one's.   *)
THEOREM NobodyIsLeftBehind == Spec => []EveryoneCanLeave
BY TypeCorrect, SupplyIsTheSum, PayoutsFitTheVault, PTL

-----------------------------------------------------------------------------
(* Whose tokens a step may take.                                           *)

(* A spender has taken part in the step that took tokens of a.             *)
Paid(a) ==
  \E s \in Accounts :
    /\ allowance[a][s].expires \notin {"absent", "past"}
    /\ allowance[a][s].amount - allowance'[a][s].amount = bal[a] - bal'[a]

(* An expired allowance, or none, cannot be spent; one that is shrinks by  *)
(* the amount.                                                             *)
LEMMA SpendFacts ==
  ASSUME TypeOK, NEW owner \in Accounts, NEW spender \in Accounts,
         NEW n \in Nat, Spend(owner, spender, n)
  PROVE  /\ allowance[owner][spender].expires \notin {"absent", "past"}
         /\ allowance[owner][spender].amount
              - allowance'[owner][spender].amount = n
<1> DEFINE old == allowance[owner][spender]
           new == [old EXCEPT !.amount = @ - n]
<1>1. old \in Allowances /\ old.amount \in Nat /\ n <= old.amount
  BY AllowanceOf DEF TypeOK, Spend
<1>2. allowance'[owner][spender] = new
  BY DEF Spend, TypeOK, TokenTypeOK
<1>3. new.amount = old.amount - n
  BY <1>1 DEF Allowances
<1>4. old.amount - new.amount = n
  BY <1>1, <1>3
<1>5. old.expires \notin {"absent", "past"}
  BY DEF Spend
<1> QED
  BY <1>2, <1>4, <1>5

(* A transfer takes nothing but its amount, and from nobody but its owner. *)
LEMMA TransferTakes ==
  ASSUME TypeOK, NEW a \in Accounts, NEW from \in Accounts,
         NEW to \in Accounts, NEW n \in Nat, n <= bal[from],
         bal' = Move(bal, from, to, n), bal'[a] < bal[a]
  PROVE  a = from /\ bal[a] - bal'[a] = n
<1>0. bal \in [Accounts -> Nat]
  BY DEF TypeOK, TokenTypeOK
<1>1. /\ from = to => bal' = bal
      /\ from # to => /\ bal'[from] = bal[from] - n
                      /\ bal'[to] = bal[to] + n
      /\ a \in Accounts \ {from, to} => bal'[a] = bal[a]
  BY <1>0, MoveFacts
<1>2. bal[a] \in Nat /\ bal[from] \in Nat /\ bal[to] \in Nat
  BY <1>0
<1>3. from # to /\ a # to
  BY <1>1, <1>2
<1>4. a = from
  BY <1>1, <1>2, <1>3
<1> QED
  BY <1>1, <1>2, <1>3, <1>4

(* Nor does a burn; and what is issued is taken from nobody.               *)
LEMMA DestroyTakes ==
  ASSUME TypeOK, NEW a \in Accounts, NEW from \in Accounts, NEW n \in Nat,
         Destroy(from, n), bal'[a] < bal[a]
  PROVE  a = from /\ bal[a] - bal'[a] = n
<1>1. bal[a] \in Nat /\ bal[from] \in Nat /\ n <= bal[from]
  BY DEF TypeOK, TokenTypeOK, Destroy
<1>2. bal'[a] = IF a = from THEN bal[a] - n ELSE bal[a]
  BY DEF TypeOK, TokenTypeOK, Destroy
<1> QED
  BY <1>1, <1>2

LEMMA IssueTakesNothing ==
  ASSUME TypeOK, NEW a \in Accounts, NEW to \in Accounts, NEW n \in Nat,
         Issue(to, n)
  PROVE  bal'[a] >= bal[a]
<1>1. bal[a] \in Nat
  BY DEF TypeOK, TokenTypeOK
<1>2. bal'[a] = IF a = to THEN bal[a] + n ELSE bal[a]
  BY DEF TypeOK, TokenTypeOK, Issue
<1> QED
  BY <1>1, <1>2

LEMMA Cw20Takes ==
  ASSUME TypeOK, NEW u \in Users, NEW a \in Accounts, Cw20Step(u),
         bal'[a] < bal[a], ~OwnStep(a)
  PROVE  Paid(a)
<1> USE AmountAssumption
<1>0. u \in Accounts /\ bal[a] \in Nat
  BY UsersAreAccounts DEF TypeOK, TokenTypeOK
<1>1. ASSUME NEW v \in Accounts, NEW n \in Amounts,
             Transfer(u, v, n) \/ Send(u, v, n)
      PROVE  Paid(a)
  <2>1. Transfer(u, v, n)
    BY <1>1 DEF Send
  <2>2. a = u
    BY <1>0, <2>1, TransferTakes DEF Transfer
  <2> QED BY <2>1, <2>2 DEF OwnStep
<1>2. ASSUME NEW v \in Accounts, NEW n \in Amounts,
             NEW given \in Expiries \cup {"keep"},
             \/ IncreaseAllowance(u, v, n, given)
             \/ DecreaseAllowance(u, v, n, given)
      PROVE  Paid(a)
  BY <1>0, <1>2 DEF IncreaseAllowance, DecreaseAllowance
<1>3. ASSUME NEW v \in Accounts, NEW n \in Amounts, NEW o \in Accounts,
             TransferFrom(u, o, v, n) \/ SendFrom(u, o, v, n)
      PROVE  Paid(a)
  <2>1. TransferFrom(u, o, v, n)
    BY <1>3 DEF SendFrom
  <2>2. a = o /\ bal[a] - bal'[a] = n
    BY <2>1, TransferTakes DEF TransferFrom
  <2>3. Spend(a, u, n)
    BY <2>1, <2>2 DEF TransferFrom
  <2> QED BY <1>0, <2>2, <2>3, SpendFacts DEF Paid
<1> QED
  BY <1>1, <1>2, <1>3 DEF Cw20Step

LEMMA TokenTakes ==
  ASSUME TypeOK, NEW u \in Users, NEW a \in Accounts, TokenStep(u),
         bal'[a] < bal[a], ~OwnStep(a)
  PROVE  Paid(a)
<1> USE AmountAssumption
<1>0. /\ u \in Accounts /\ bal[u] \in Nat
      /\ rate \in Nat /\ bal[a] \in Nat /\ bal[a] > bal'[a]
  BY UsersAreAccounts DEF TypeOK, TokenTypeOK
<1>1. ASSUME NEW v \in Accounts, NEW n \in Amounts, Mint(u, v, n)
      PROVE  FALSE
  <2>1. bal'[a] >= bal[a]
    BY <1>1, IssueTakesNothing DEF Mint, MintAt
  <2>2. bal'[a] \in Nat
    BY <1>1, IssueType DEF Mint, MintAt, TypeOK
  <2> QED BY <1>0, <2>1, <2>2
<1>2. ASSUME NEW v \in Accounts, NEW n \in Amounts, MintWith(u, v, n)
      PROVE  FALSE
  <2>1. MintFor(n, rate) \in Nat
    BY <1>0, MintCovered
  <2>2. bal'[a] >= bal[a]
    BY <1>2, <2>1, IssueTakesNothing DEF MintWith, MintWithAt
  <2>3. bal'[a] \in Nat
    BY <1>2, <2>1, IssueType DEF MintWith, MintWithAt, TypeOK
  <2> QED BY <1>0, <2>2, <2>3
<1>3. ASSUME NEW n \in Amounts, Burn(u, n)
      PROVE  FALSE
  <2>1. a = u
    BY <1>0, <1>3, DestroyTakes DEF Burn, BurnAt
  <2> QED BY <1>3, <2>1 DEF OwnStep
<1>4. ASSUME BurnAll(u) PROVE FALSE
  <2>1. a = u
    BY <1>0, <1>4, DestroyTakes DEF BurnAll, Burn, BurnAt
  <2> QED BY <1>4, <2>1 DEF OwnStep
<1>5. ASSUME NEW o \in Accounts, NEW n \in Amounts, BurnFrom(u, o, n)
      PROVE  Paid(a)
  <2>1. a = o /\ bal[a] - bal'[a] = n
    BY <1>5, DestroyTakes DEF BurnFrom, BurnFromAt
  <2>2. Spend(a, u, n)
    BY <1>5, <2>1 DEF BurnFrom, BurnFromAt
  <2> QED BY <1>0, <2>1, <2>2, SpendFacts DEF Paid
<1> QED
  BY <1>1, <1>2, <1>3, <1>4, <1>5 DEF TokenStep

(* Tokens leave an account only by its own message or against an allowance *)
(* that is in force, whoever sends what.                                   *)
THEOREM OwnershipRespected == Spec => OnlyOwnerOrSpender
<1>1. ASSUME TypeOK, [Next]_vars, NEW a \in Accounts,
             bal'[a] < bal[a], ~OwnStep(a)
      PROVE  Paid(a)
  <2>0. bal' # bal
    <3>1. bal[a] \in Nat
      BY <1>1 DEF TypeOK, TokenTypeOK
    <3> QED BY <1>1, <3>1
  <2>1. \E u \in Users : Cw20Step(u) \/ TokenStep(u)
    BY <1>1, <2>0 DEF Next, OutsideStep, Decompound, LsdRateChange,
                      AllowanceExpires, LsdTransfer, vars, tokenVars
  <2> QED BY <1>1, <2>1, Cw20Takes, TokenTakes
<1>2. TypeOK /\ [Next]_vars =>
        [\A a \in Accounts :
            bal'[a] < bal[a] /\ ~OwnStep(a) => Paid(a)]_vars
  BY <1>1
<1> QED
  BY <1>2, TypeCorrect, PTL DEF Spec, OnlyOwnerOrSpender, Paid
=============================================================================
