----------------------------- MODULE LsdWrapper -----------------------------
(***************************************************************************)
(* The wrapper token of packages/cavern_lsd_wrapper_token.  Minting pulls  *)
(* LSD in and burning pays LSD out at the Luna rate the LSD hub quotes, so *)
(* that each token stands for one Luna; Decompound, which only the Cavern  *)
(* hub may call, moves the staking rewards that have accumulated beyond    *)
(* that to the reward contract.                                            *)
(*                                                                         *)
(* LsdRewardsUnrounded and LunaRewardsLessRoundedUp are faulty forms of    *)
(* their neighbours, used by no specification, to confirm that the         *)
(* properties notice the faults.                                           *)
(***************************************************************************)
EXTENDS Cw20Wrapper

vars == tokenVars

(* What Decompound may take: the LSD beyond the value of the supply, less  *)
(* one unit so that rounding never eats into the backing; and the reward   *)
(* in Luna it reports, which the code's unsigned type keeps from falling   *)
(* below zero by aborting.                                                 *)
LsdRewardsUnrounded(b, s, r) == ExcessLsd(b, s, r)
LsdRewards(b, s, r) ==
  IF ExcessLsd(b, s, r) > 0 THEN ExcessLsd(b, s, r) - 1 ELSE 0
LunaRewardsLessRoundedUp(b, s, r) ==
  ExcessLuna(b, s, r) - (IF ExcessLsd(b, s, r) > 0 THEN Trunc(r + ONE) ELSE 0)
LunaRewards(b, s, r) ==
  ExcessLuna(b, s, r) - (IF ExcessLsd(b, s, r) > 0 THEN Trunc(r) ELSE 0)

-----------------------------------------------------------------------------
Init == TokenInit

(* Mint { recipient, amount }                                              *)
Mint(u, recipient, amount) == MintAt(rate, u, recipient, amount)

(* MintWith { recipient, lsd_amount }                                      *)
MintWith(u, recipient, lsdAmount) == MintWithAt(rate, u, recipient, lsdAmount)

(* Burn { amount }                                                         *)
Burn(u, amount) == BurnAt(rate, u, amount)

(* BurnAll {}, which does nothing for an empty balance                     *)
BurnAll(u) == bal[u] > 0 /\ Burn(u, bal[u])

(* BurnFrom { owner, amount }                                              *)
BurnFrom(u, owner, amount) == BurnFromAt(rate, u, owner, amount)

(* Decompound { recipient }.  While the vault is worth less than the       *)
(* supply the code turns the "No rewards" error into a success that moves  *)
(* nothing; otherwise it moves the LSD rewards.                            *)
Decompound(u, recipient) ==
  /\ u = Hub
  /\ \/ /\ Slashed
        /\ UNCHANGED lsd
     \/ /\ ~Slashed
        /\ rate > 0
        /\ LunaRewards(lsd[Wrapper], supply, rate) >= 0
        /\ PushLsd(recipient, LsdRewards(lsd[Wrapper], supply, rate))
  /\ UNCHANGED <<bal, supply, allowance, rate>>

TokenStep(u) ==
  \/ \E v \in Accounts, n \in Amounts :
        Mint(u, v, n) \/ MintWith(u, v, n) \/ BurnFrom(u, v, n)
  \/ \E n \in Amounts : Burn(u, n)
  \/ BurnAll(u)

Next ==
  \/ \E u \in Users : Cw20Step(u) \/ TokenStep(u)
  \/ \E u \in Users \cup {Hub}, recipient \in Accounts : Decompound(u, recipient)
  \/ OutsideStep

Spec == Init /\ [][Next]_vars

-----------------------------------------------------------------------------
(* Properties.                                                             *)

(* Accounts, supply and allowances never leave the natural numbers.        *)
TypeOK == TokenTypeOK

(* Nothing but mint and burn changes the supply, and they change it with   *)
(* the balances: total_supply is the sum of all balances, through every    *)
(* transfer, allowance spend, self-transfer and burn on behalf of others.  *)
SupplyMatchesBalances == supply = SumFunction(bal)

(* The wrapper is a vault that issues claims against full value, redeems   *)
(* them for at most their value, and harvests only what exceeds them:      *)
(* every handler is a step of CollateralVault, and every mint, burn and    *)
(* decompound rounds in the vault's favour.                                *)
Vault == INSTANCE CollateralVault
           WITH assets <- lsd[Wrapper], claims <- supply, price <- rate

VaultSpec == Vault!VSpec

(* A wrapper that backs each of its tokens with one Luna stops doing so    *)
(* only when the LSD's rate falls (a slashing): no sequence of mints,      *)
(* burns and decompounds rounds it under water.                            *)
SolvencyKept == Vault!CoverLostOnlyByPrice

(* A Decompound that is accepted while the vault covers the supply leaves  *)
(* it covered, and takes everything else: less than two LSD stay behind    *)
(* beyond the backing.                                                     *)
HarvestIsTight ==
  [][\A recipient \in Accounts \ {Wrapper} :
        Decompound(Hub, recipient) /\ ~Slashed =>
          /\ lsd'[Wrapper] * rate >= supply * ONE
          /\ (lsd'[Wrapper] - 2) * rate < supply * ONE]_vars

(* While the vault covers the supply all holders can burn everything they  *)
(* have, in any order and at the current rate, and all are paid in full.   *)
EveryoneCanLeave ==
  rate > 0 /\ Vault!Covered =>
    SumFunction([a \in Accounts |-> PayoutFor(bal[a], rate)]) <= lsd[Wrapper]

(* Decompound runs inside the hub's UpdateGlobalIndex transaction, which   *)
(* an error in it would revert as a whole; a vault that is not slashed     *)
(* does not cause one: the Luna reward, lowered by the value of the LSD    *)
(* left behind, does not underflow, except at a rate a few atomics above a *)
(* whole number of two or more.                                            *)
RewardsNeverUnderflow ==
  rate > 0 /\ ~Slashed /\ OrdinaryRate(rate) =>
    LunaRewards(lsd[Wrapper], supply, rate) >= 0

(* An account's tokens leave it by its own message, or by that of a        *)
(* spender whose allowance has not expired and shrinks by as much.         *)
OwnStep(u) ==
  \/ BurnAll(u)
  \/ \E n \in Amounts : Burn(u, n) \/ \E v \in Accounts : Transfer(u, v, n)

OnlyOwnerOrSpender ==
  [][\A a \in Accounts :
        bal'[a] < bal[a] /\ ~OwnStep(a) =>
          \E s \in Accounts :
            /\ allowance[a][s].expires \notin {"absent", "past"}
            /\ allowance[a][s].amount - allowance'[a][s].amount
                 = bal[a] - bal'[a]]_vars
=============================================================================
