-------------------------- MODULE CoinWrapperProofs -------------------------
(***************************************************************************)
(* Theorems about CoinWrapper, for every value of its constants: with      *)
(* attached coins instead of allowances, a bank that refuses to send       *)
(* nothing, and a posted price, the wrapper keeps its types, implements    *)
(* the abstract vault at that price, loses no coin, and harvests what was  *)
(* attached in excess; and what the bank refuses is dust, and never stops  *)
(* the hub's update.                                                       *)
(***************************************************************************)
EXTENDS CoinWrapper, LsdWrapperProofs

(* Whoever pays d LSD for tokens they are worth makes a deposit.           *)
LEMMA PaidStep ==
  ASSUME TypeOK, NEW u \in Users, NEW v \in Accounts,
         NEW d \in Nat, NEW m \in Nat, d * rate >= m * ONE,
         PullLsd(u, d), Issue(v, m), UNCHANGED <<allowance, rate>>
  PROVE  TypeOK' /\ Vault!Deposit
<1>1. lsd[Wrapper] \in Nat /\ supply \in Nat /\ rate \in Nat
  BY VaultTypes
<1>2. /\ lsd' \in [Accounts -> Nat]
      /\ lsd'[Wrapper] = lsd[Wrapper] + d
  BY PullFacts DEF TypeOK
<1>3. /\ bal' \in [Accounts -> Nat] /\ supply' \in Nat
      /\ supply' = supply + m
  BY IssueType DEF TypeOK, Issue
<1>4. TypeOK'
  BY <1>2, <1>3 DEF TypeOK, TokenTypeOK
<1>5. /\ lsd'[Wrapper] - lsd[Wrapper] = d
      /\ supply' - supply = m
      /\ lsd'[Wrapper] \in Nat
      /\ lsd'[Wrapper] >= lsd[Wrapper] /\ supply' >= supply
  BY <1>1, <1>2, <1>3
<1> QED
  BY <1>3, <1>4, <1>5 DEF Vault!Deposit

(* What deposit_funds accepts is all attached, and no less than needed.    *)
LEMMA FundsSuffice ==
  ASSUME NEW u, NEW needed \in Nat, NEW funds \in Funds,
         DepositFunds(u, needed, funds)
  PROVE  /\ funds[Denom] \in Nat
         /\ funds[Denom] >= needed
         /\ PullLsd(u, funds[Denom])
<1>1. PICK D \in SUBSET ({Denom} \cup OtherDenoms) : funds \in [D -> Amounts]
  BY DEF Funds
<1>2. Denom \in D
  BY <1>1 DEF DepositFunds
<1> QED
  BY <1>1, <1>2, AmountAssumption DEF DepositFunds

LEMMA CoinMintStep ==
  ASSUME TypeOK, NEW u \in Users, NEW v \in Accounts, NEW n \in Amounts,
         NEW funds \in Funds, CoinMint(u, v, n, funds)
  PROVE  TypeOK' /\ Vault!Deposit
<1> DEFINE d == DepositFor(n, rate)
           f == funds[Denom]
<1>1. n \in Nat /\ rate \in Nat \ {0}
  BY VaultTypes, AmountAssumption DEF CoinMint
<1>2. d \in Nat /\ d * rate >= n * ONE
  BY <1>1, DepositCovers
<1>3. f \in Nat /\ f >= d /\ PullLsd(u, f)
  BY <1>2, FundsSuffice DEF CoinMint
<1> HIDE DEF d, f
<1>4. f * rate >= n * ONE
  <2>1. d * rate <= f * rate
    BY <1>1, <1>2, <1>3, MulMono
  <2> QED BY <1>1, <1>2, <1>3, <2>1, OneAssumption, MulNat
<1> QED
  BY <1>1, <1>3, <1>4, PaidStep DEF CoinMint

LEMMA CoinMintWithStep ==
  ASSUME TypeOK, NEW u \in Users, NEW v \in Accounts, NEW n \in Amounts,
         NEW funds \in Funds, CoinMintWith(u, v, n, funds)
  PROVE  TypeOK' /\ Vault!Deposit
<1> DEFINE m == MintFor(n, rate)
           f == funds[Denom]
<1>1. n \in Nat /\ rate \in Nat
  BY VaultTypes, AmountAssumption
<1>2. m \in Nat /\ n * rate >= m * ONE
  BY <1>1, MintCovered
<1>3. f \in Nat /\ f >= n /\ PullLsd(u, f)
  BY <1>1, FundsSuffice DEF CoinMintWith
<1>4. Issue(v, m)
  BY DEF CoinMintWith
<1> HIDE DEF m, f
<1>5. f * rate >= m * ONE
  <2>1. n * rate <= f * rate
    BY <1>1, <1>3, MulMono
  <2> QED BY <1>1, <1>2, <1>3, <2>1, OneAssumption, MulNat
<1> QED
  BY <1>2, <1>3, <1>4, <1>5, PaidStep DEF CoinMintWith

(* A burn that the bank pays is one that LsdWrapper pays.                  *)
LEMMA CoinBurnStep ==
  ASSUME TypeOK, NEW u \in Users, NEW n \in Nat, CoinBurn(u, n)
  PROVE  TypeOK' /\ Vault!Redeem
<1>1. Burn(u, n)
  BY DEF CoinBurn, SendFunds, Burn, BurnAt
<1> QED
  BY <1>1, BurnStep

LEMMA CoinBurnFromStep ==
  ASSUME TypeOK, NEW u \in Users, NEW o \in Accounts, NEW n \in Nat,
         CoinBurnFrom(u, o, n)
  PROVE  TypeOK' /\ Vault!Redeem
<1>1. BurnFrom(u, o, n)
  BY DEF CoinBurnFrom, SendFunds, BurnFrom, BurnFromAt
<1> QED
  BY <1>1, BurnFromStep

LEMMA CoinTokenStepOK ==
  ASSUME TypeOK, NEW u \in Users, CoinTokenStep(u)
  PROVE  TypeOK' /\ Vault!VNext
<1> USE AmountAssumption
<1>1. ASSUME NEW v \in Accounts, NEW n \in Amounts, NEW funds \in Funds,
             CoinMint(u, v, n, funds) \/ CoinMintWith(u, v, n, funds)
      PROVE  TypeOK' /\ Vault!VNext
  <2>1. TypeOK' /\ Vault!Deposit
    BY <1>1, CoinMintStep, CoinMintWithStep
  <2> QED BY <2>1 DEF Vault!VNext
<1>2. ASSUME NEW v \in Accounts, NEW n \in Amounts, CoinBurnFrom(u, v, n)
      PROVE  TypeOK' /\ Vault!VNext
  BY <1>2, CoinBurnFromStep DEF Vault!VNext
<1>3. ASSUME NEW n \in Nat, CoinBurn(u, n)
      PROVE  TypeOK' /\ Vault!VNext
  BY <1>3, CoinBurnStep DEF Vault!VNext
<1>4. ASSUME CoinBurnAll(u)
      PROVE  TypeOK' /\ Vault!VNext
  <2>1. bal[u] \in Nat /\ CoinBurn(u, bal[u])
    BY <1>4, UsersAreAccounts DEF TypeOK, TokenTypeOK, CoinBurnAll
  <2> QED BY <2>1, <1>3
<1> QED
  BY <1>1, <1>2, <1>3, <1>4 DEF CoinTokenStep

LEMMA CoinNextOK ==
  ASSUME TypeOK, [CoinNext]_vars
  PROVE  TypeOK' /\ [Vault!VNext]_(Vault!vvars)
<1>1. CASE UNCHANGED vars
  BY <1>1 DEF vars, tokenVars, TypeOK, TokenTypeOK, Vault!vvars
<1>2. ASSUME NEW u \in Users, Cw20Step(u)
      PROVE  TypeOK' /\ [Vault!VNext]_(Vault!vvars)
  <2>1. TypeOK' /\ UNCHANGED <<lsd, supply, rate>>
    BY <1>2, Cw20StepFacts DEF TypeOK
  <2> QED BY <2>1 DEF Vault!vvars
<1>3. ASSUME NEW u \in Users, CoinTokenStep(u)
      PROVE  TypeOK' /\ [Vault!VNext]_(Vault!vvars)
  BY <1>3, CoinTokenStepOK
<1>4. ASSUME NEW u \in Users \cup {Hub}, NEW v \in Accounts, CoinDecompound(u, v)
      PROVE  TypeOK' /\ [Vault!VNext]_(Vault!vvars)
  BY <1>4, DecompoundStep DEF CoinDecompound, Vault!VNext
<1>5. ASSUME NEW o \in Accounts, NEW s \in Accounts, AllowanceExpires(o, s)
      PROVE  TypeOK' /\ [Vault!VNext]_(Vault!vvars)
  <2>1. TypeOK' /\ UNCHANGED <<lsd, supply, rate>>
    BY <1>5, ExpiryStep DEF TypeOK
  <2> QED BY <2>1 DEF Vault!vvars
<1>6. CASE CoinTransfer
  <2>1. PICK u \in Users \cup {Hub}, v \in Accounts, n \in Amounts :
           LsdTransfer(u, v, n)
    BY <1>6 DEF CoinTransfer
  <2> QED BY <2>1, LsdTransferStep DEF Vault!VNext
<1>7. CASE OraclePost
  <2>1. TypeOK' /\ UNCHANGED <<lsd, supply>> /\ rate' \in Nat
    BY <1>7, RateChangeFacts DEF OraclePost, TypeOK
  <2> QED BY <2>1 DEF Vault!VNext, Vault!Revalue
<1> QED
  BY <1>1, <1>2, <1>3, <1>4, <1>5, <1>6, <1>7 DEF CoinNext

-----------------------------------------------------------------------------
(* The theorems.                                                           *)

LEMMA CoinInitOK == Init => TypeOK /\ Vault!VInit
<1> SUFFICES ASSUME Init PROVE TypeOK /\ Vault!VInit
  OBVIOUS
<1>1. TypeOK
  BY TokenInitType DEF Init, TypeOK
<1> QED BY <1>1, VaultTypes DEF Vault!VInit

(* No account, token or coin, goes below zero, whatever coins callers      *)
(* attach and whatever price the oracle posts.                             *)
THEOREM CoinTypeCorrect == CoinSpec => []TypeOK
<1>1. TypeOK /\ [CoinNext]_vars => TypeOK'
  BY CoinNextOK
<1> QED
  BY <1>1, CoinInitOK, PTL DEF CoinSpec

(* Whatever coins callers attach, the wrapper over a native LSD implements *)
(* the abstract vault at the price the oracle has posted.                  *)
THEOREM CoinImplementsVault == CoinSpec => VaultSpec
<1>1. TypeOK /\ [CoinNext]_vars => [Vault!VNext]_(Vault!vvars)
  BY CoinNextOK
<1> QED
  BY <1>1, CoinInitOK, CoinTypeCorrect, PTL DEF CoinSpec, VaultSpec, Vault!VSpec

-----------------------------------------------------------------------------
(* No coin is ever lost: the accounts together keep what they began with.  *)
Conserved == SumFunction(lsd) = SumFunction(LsdEndowment)

LEMMA MoveConserves ==
  ASSUME TypeOK, Conserved, NEW from \in Accounts, NEW to \in Accounts,
         NEW n \in Nat, n <= lsd[from], lsd' = Move(lsd, from, to, n)
  PROVE  Conserved'
<1> DEFINE t == [lsd EXCEPT ![from] = @ - n]
<1>1. lsd \in [Accounts -> Nat]
  BY DEF TypeOK, TokenTypeOK
<1>2. lsd' = [t EXCEPT ![to] = @ + n]
  BY DEF Move
<1>3. /\ t \in [Accounts -> Nat]
      /\ lsd[from] = t[from] + n
      /\ \A x \in Accounts : x # from => t[x] = lsd[x]
  BY <1>1
<1> HIDE DEF t
<1>4. /\ lsd' \in [Accounts -> Nat]
      /\ lsd'[to] = t[to] + n
      /\ \A x \in Accounts : x # to => lsd'[x] = t[x]
  BY <1>2, <1>3
<1>5. SumFunction(lsd') = SumFunction(lsd)
  BY <1>1, <1>3, <1>4, AccountsFinite, SumMoved
<1> QED
  BY <1>5 DEF Conserved

LEMMA MovesConserve ==
  ASSUME TypeOK, Conserved, NEW u \in Accounts, NEW n \in Nat,
         PullLsd(u, n) \/ PushLsd(u, n)
  PROVE  Conserved'
BY MoveConserves, UsersAreAccounts DEF PullLsd, PushLsd

LEMMA CoinTokenStepConserves ==
  ASSUME TypeOK, Conserved, NEW u \in Users, CoinTokenStep(u)
  PROVE  Conserved'
<1>0. /\ u \in Accounts /\ rate \in Nat /\ bal[u] \in Nat /\ Amounts \subseteq Nat
  BY UsersAreAccounts, AmountAssumption DEF TypeOK, TokenTypeOK
<1>1. ASSUME NEW v \in Accounts, NEW n \in Amounts, NEW funds \in Funds,
             CoinMint(u, v, n, funds) \/ CoinMintWith(u, v, n, funds)
      PROVE  Conserved'
  <2>1. CASE CoinMint(u, v, n, funds)
    <3>1. DepositFor(n, rate) \in Nat
      BY <1>0, <2>1, DepositCovers DEF CoinMint
    <3> QED BY <1>0, <2>1, <3>1, FundsSuffice, MovesConserve DEF CoinMint
  <2>2. CASE CoinMintWith(u, v, n, funds)
    BY <1>0, <2>2, FundsSuffice, MovesConserve DEF CoinMintWith
  <2> QED BY <1>1, <2>1, <2>2
<1>2. ASSUME NEW n \in Nat, rate > 0, SendFunds(u, PayoutFor(n, rate))
      PROVE  Conserved'
  <2>1. PayoutFor(n, rate) \in Nat
    BY <1>0, <1>2, PayoutCovered
  <2> QED BY <1>0, <1>2, <2>1, MovesConserve DEF SendFunds
<1> QED
  BY <1>0, <1>1, <1>2 DEF CoinTokenStep, CoinBurnAll, CoinBurn, CoinBurnFrom

LEMMA CoinStepConserves ==
  ASSUME TypeOK, Conserved, [CoinNext]_vars
  PROVE  Conserved'
<1>1. CASE UNCHANGED lsd
  BY <1>1 DEF Conserved
<1>2. ASSUME NEW u \in Users, Cw20Step(u) PROVE Conserved'
  BY <1>1, <1>2, Cw20StepFacts DEF TypeOK
<1>3. ASSUME NEW u \in Users \cup {Hub}, NEW v \in Accounts, Decompound(u, v)
      PROVE  Conserved'
  <2>1. CASE ~Slashed /\ rate > 0 /\ PushLsd(v, LsdRewards(lsd[Wrapper], supply, rate))
    BY <2>1, DecompoundRewards, MovesConserve
  <2> QED BY <1>1, <1>3, <2>1 DEF Decompound
<1>4. CASE CoinTransfer
  <2>1. PICK u \in Users \cup {Hub}, v \in Accounts, n \in Amounts :
           LsdTransfer(u, v, n)
    BY <1>4 DEF CoinTransfer
  <2>2. u \in Accounts /\ n \in Nat
    BY UsersAreAccounts, AmountAssumption
  <2> QED BY <2>1, <2>2, MoveConserves DEF LsdTransfer
<1> QED
  BY <1>1, <1>2, <1>3, <1>4, CoinTokenStepConserves
  DEF CoinNext, CoinDecompound, AllowanceExpires, OraclePost, LsdRateChange,
      vars, tokenVars

(* What is not outside is in the vault.                                    *)
LEMMA OutsideTheVault ==
  ASSUME TypeOK
  PROVE  Outside = SumFunction(lsd) - lsd[Wrapper]
<1> DEFINE f == [a \in Accounts |-> IF a = Wrapper THEN 0 ELSE lsd[a]]
<1>1. lsd \in [Accounts -> Nat] /\ Wrapper \in Accounts
  BY UsersAreAccounts DEF TypeOK, TokenTypeOK
<1>2. /\ f \in [Accounts -> Nat] /\ f[Wrapper] = 0
      /\ \A x \in Accounts : x # Wrapper => f[x] = lsd[x]
  BY <1>1
<1>3. Outside = SumFunction(f)
  BY DEF Outside
<1> HIDE DEF f
<1>4. SumFunction(f) = SumFunction(lsd) + (f[Wrapper] - lsd[Wrapper])
  BY <1>1, <1>2, AccountsFinite, SumChange
<1>5. SumFunction(lsd) \in Nat /\ lsd[Wrapper] \in Nat
  BY <1>1, AccountsFinite, SumBounds
<1> QED
  BY <1>2, <1>3, <1>4, <1>5

(* Of all the LSD there was to begin with, whatever was attached in excess *)
(* or without use since, a decompound leaves less than two beyond the      *)
(* backing that are not in the accounts outside the vault.                 *)
THEOREM ExcessHarvested == CoinSpec => ExcessIsHarvested
<1>1. Init => Conserved
  BY DEF Init, TokenInit, Conserved
<1>2. TypeOK /\ Conserved /\ [CoinNext]_vars => Conserved'
  BY CoinStepConserves
<1>3. TypeOK' => Outside' = SumFunction(lsd') - lsd'[Wrapper]
  <2>1. (TypeOK => Outside = SumFunction(lsd) - lsd[Wrapper])'
    BY OutsideTheVault, PTL
  <2> QED BY <2>1
<1>4. ASSUME TypeOK, TypeOK', Conserved', NEW v \in Accounts \ {Wrapper},
             CoinDecompound(Hub, v), ~Slashed
      PROVE  (SumFunction(LsdEndowment) - Outside' - 2) * rate < supply * ONE
  <2>1. (lsd'[Wrapper] - 2) * rate < supply * ONE
    BY <1>4, TightHarvest DEF CoinDecompound
  <2>2. Outside' = SumFunction(LsdEndowment) - lsd'[Wrapper]
    BY <1>3, <1>4 DEF Conserved
  <2>3. SumFunction(LsdEndowment) \in Nat /\ lsd'[Wrapper] \in Nat
    BY <1>4, AmountAssumption, UsersAreAccounts, AccountsFinite, SumBounds
    DEF TypeOK, TokenTypeOK
  <2>4. SumFunction(LsdEndowment) - Outside' - 2 = lsd'[Wrapper] - 2
    BY <2>2, <2>3
  <2> QED BY <2>1, <2>4
<1>5. TypeOK /\ TypeOK' /\ Conserved' /\ [CoinNext]_vars =>
        [\A recipient \in Accounts \ {Wrapper} :
            CoinDecompound(Hub, recipient) /\ ~Slashed =>
              (SumFunction(LsdEndowment) - Outside' - 2) * rate < supply * ONE]_vars
  BY <1>4
<1> QED
  BY <1>1, <1>2, <1>5, CoinTypeCorrect, PTL DEF CoinSpec, ExcessIsHarvested

-----------------------------------------------------------------------------
(* What holders of coins can claim, and what the bank refuses.             *)

LEMMA CoinStepBalanced ==
  ASSUME TypeOK, Balanced, [CoinNext]_vars
  PROVE  Balanced'
<1> USE AmountAssumption
<1>0. TokenTypeOK /\ rate \in Nat
  BY DEF TypeOK, TokenTypeOK
<1>1. CASE UNCHANGED vars
  BY <1>1 DEF vars, tokenVars, Balanced
<1>2. ASSUME NEW u \in Users, Cw20Step(u) PROVE Balanced'
  BY <1>0, <1>2, Cw20StepBalanced
<1>3. ASSUME NEW u \in Users, NEW v \in Accounts, NEW n \in Amounts,
             NEW funds \in Funds,
             CoinMint(u, v, n, funds) \/ CoinMintWith(u, v, n, funds)
      PROVE  Balanced'
  <2>1. n \in Nat /\ MintFor(n, rate) \in Nat
    BY <1>0, MintCovered
  <2> QED
    BY <1>0, <1>3, <2>1, IssueBalanced DEF CoinMint, CoinMintWith
<1>4. ASSUME NEW u \in Users, NEW o \in Accounts, NEW n \in Amounts,
             CoinBurnFrom(u, o, n)
      PROVE  Balanced'
  BY <1>0, <1>4, DestroyBalanced DEF CoinBurnFrom
<1>5. ASSUME NEW u \in Users, NEW n \in Nat, CoinBurn(u, n) PROVE Balanced'
  BY <1>0, <1>5, UsersAreAccounts, DestroyBalanced DEF CoinBurn
<1>6. ASSUME NEW u \in Users, CoinBurnAll(u) PROVE Balanced'
  <2>1. bal[u] \in Nat
    BY <1>0, UsersAreAccounts DEF TokenTypeOK
  <2> QED BY <1>5, <1>6, <2>1 DEF CoinBurnAll
<1>7. ASSUME NEW u \in Users, CoinTokenStep(u) PROVE Balanced'
  BY <1>3, <1>4, <1>5, <1>6, <1>7 DEF CoinTokenStep
<1>8. ASSUME NEW u \in Users \cup {Hub}, NEW v \in Accounts, CoinDecompound(u, v)
      PROVE  Balanced'
  BY <1>8 DEF CoinDecompound, Decompound, Balanced
<1>9. ASSUME NEW o \in Accounts, NEW s \in Accounts, AllowanceExpires(o, s)
      PROVE  Balanced'
  BY <1>9 DEF AllowanceExpires, Balanced
<1>10. CASE CoinTransfer
  BY <1>10 DEF CoinTransfer, LsdTransfer, Balanced
<1>11. CASE OraclePost
  BY <1>11 DEF OraclePost, LsdRateChange, Balanced
<1> QED
  BY <1>1, <1>2, <1>7, <1>8, <1>9, <1>10, <1>11 DEF CoinNext

(* The supply is the sum of the balances over a native LSD, too.           *)
THEOREM CoinSupplyIsTheSum == CoinSpec => []SupplyMatchesBalances
<1>1. Init => TypeOK /\ Balanced
  BY CoinInitOK, InitBalanced DEF Init
<1>2. TypeOK /\ Balanced /\ [CoinNext]_vars => Balanced'
  BY CoinStepBalanced
<1>3. Balanced => SupplyMatchesBalances
  BY DEF Balanced, SupplyMatchesBalances
<1> QED
  BY <1>1, <1>2, <1>3, CoinTypeCorrect, PTL DEF CoinSpec

(* While the posted price is there and the vault covers the supply at it,  *)
(* all coins owed to all holders together are there.                       *)
THEOREM NoCoinsMissing == CoinSpec => []EveryoneCanLeave
BY CoinTypeCorrect, CoinSupplyIsTheSum, PayoutsFitTheVault, PTL

(* The guards of CoinBurnAll: the account has tokens, the ledger can take  *)
(* them, the price is quoted, and the bank can send what they are worth.   *)
BurnAllAcceptable(u) ==
  /\ bal[u] > 0 /\ bal[u] <= supply
  /\ Quoted /\ rate > 0
  /\ PayoutFor(bal[u], rate) > 0 /\ PayoutFor(bal[u], rate) <= lsd[Wrapper]

LEMMA DustRefused ==
  ASSUME TypeOK, SupplyMatchesBalances, Quoted, rate > 0, Vault!Covered,
         NEW u \in Users, PayoutFor(bal[u], rate) > 0
  PROVE  BurnAllAcceptable(u)
<1>1. /\ rate \in Nat \ {0} /\ supply \in Nat /\ lsd[Wrapper] \in Nat
      /\ bal \in [Accounts -> Nat] /\ u \in Accounts /\ bal[u] \in Nat
  BY VaultTypes, UsersAreAccounts DEF TypeOK, TokenTypeOK
<1>2. bal[u] <= supply
  BY <1>1, AccountsFinite, SumBounds DEF SupplyMatchesBalances
<1>3. PICK p \in Nat : p = PayoutFor(bal[u], rate) /\ p * rate <= bal[u] * ONE
  BY <1>1, PayoutCovered
<1>4. p <= lsd[Wrapper]
  <2>1. bal[u] * ONE <= supply * ONE
    BY <1>1, <1>2, OneAssumption, MulMono
  <2>2. supply * ONE <= lsd[Wrapper] * rate
    BY DEF Vault!Covered
  <2>3. /\ p * rate \in Nat /\ bal[u] * ONE \in Nat /\ supply * ONE \in Nat
        /\ lsd[Wrapper] * rate \in Nat
    BY <1>1, OneAssumption, MulNat
  <2>4. p * rate <= lsd[Wrapper] * rate
    BY <1>3, <2>1, <2>2, <2>3
  <2> QED
    BY <1>1, <2>4, MulCancelLeq
<1>5. bal[u] > 0
  <2>1. CASE bal[u] = 0
    <3>1. p * rate <= 0 /\ p > 0
      BY <1>3, <2>1, OneAssumption, SMT
    <3>2. p * rate > 0
      BY <1>1, <3>1, SMT
    <3> QED
      BY <1>1, <3>1, <3>2, MulNat
  <2> QED
    BY <1>1, <2>1
<1> QED
  BY <1>2, <1>3, <1>4, <1>5 DEF BurnAllAcceptable

(* Only dust is stuck: while the vault covers the supply at the quoted     *)
(* price, no guard of a holder's burning everything is in his way but the  *)
(* bank's refusal to send nothing.                                         *)
THEOREM OnlyDustIsRefused ==
  CoinSpec => [](Quoted /\ rate > 0 /\ Vault!Covered =>
                   \A u \in Users : PayoutFor(bal[u], rate) > 0 <=> BurnAllAcceptable(u))
<1>1. TypeOK /\ SupplyMatchesBalances =>
        (Quoted /\ rate > 0 /\ Vault!Covered =>
           \A u \in Users : PayoutFor(bal[u], rate) > 0 <=> BurnAllAcceptable(u))
  BY DustRefused DEF BurnAllAcceptable
<1> QED
  BY <1>1, CoinTypeCorrect, CoinSupplyIsTheSum, PTL

(* The guards of the hub's CoinDecompound: the price is quoted, and either *)
(* the vault is slashed and left alone, or what it can spare is a number   *)
(* of Luna, and of LSD that are there.                                     *)
DecompoundAcceptable ==
  /\ Quoted
  /\ \/ Slashed
     \/ /\ rate > 0 /\ LunaRewards(lsd[Wrapper], supply, rate) >= 0
        /\ LsdRewards(lsd[Wrapper], supply, rate) <= lsd[Wrapper]

(* The hub's update always gets past a wrapper whose price is quoted, if   *)
(* it is slashed or the rate is an ordinary one.                           *)
THEOREM UpdateNotRefused ==
  CoinSpec => [](Quoted /\ (Slashed \/ (rate > 0 /\ OrdinaryRate(rate)))
                   => DecompoundAcceptable)
<1>1. ASSUME TypeOK, Quoted, Slashed \/ (rate > 0 /\ OrdinaryRate(rate))
      PROVE  DecompoundAcceptable
  <2>1. TypeOK /\ lsd[Wrapper] \in Nat
    BY <1>1, VaultTypes
  <2>2. CASE ~Slashed
    BY <1>1, <2>1, <2>2, RewardsOrdinarily, DecompoundRewards
    DEF RewardsNeverUnderflow, DecompoundAcceptable
  <2> QED
    BY <1>1, <2>2 DEF DecompoundAcceptable
<1> QED
  BY <1>1, CoinTypeCorrect, PTL
=============================================================================
