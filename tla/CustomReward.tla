---------------------------- MODULE CustomReward ----------------------------
(***************************************************************************)
(* packages/cavern_aAsset_custom_reward, the reward contract for an LSD    *)
(* that is itself a staked liquidity position: before it sells, it takes   *)
(* the LSD apart, with the retrieval of                                    *)
(* contracts/cavern_aAsset_amp_lp_reward ("amp_lp") or                     *)
(* contracts/cavern_aAsset_spectrum_reward ("spectrum").  The rest is as   *)
(* in RewardContract, whose source it repeats.                             *)
(*                                                                         *)
(* RetrieveMessagesForAllLp, RunRetrieveReplyingToFirst and                *)
(* RunReplyUntilAllSold are faulty forms of their neighbours, used by no   *)
(* specification, to confirm that the properties notice the faults.        *)
(***************************************************************************)
EXTENDS RewardContract

CONSTANTS
  Lp,          \* the liquidity token under the LSD, one of Cw20s
  PairAssets,  \* what a liquidity token is withdrawn to, one of each
  Retrieval    \* "amp_lp" or "spectrum"

ASSUME CustomRewardAssumption ==
  /\ Lp \in Cw20s /\ PairAssets \subseteq Assets \ {Lp}
  /\ Retrieval \in {"amp_lp", "spectrum"}

VARIABLE totalLp     \* liquidity tokens the staking protocol has bonded

(* Every LSD is a share of them.  What n LSD unbond to, rounded down, and  *)
(* the LSD that unbonding n liquidity tokens costs, rounded up.            *)
Shares == SumFunction(lsd)
LpFor(n) == IF Shares = 0 THEN 0 ELSE (n * totalLp) \div Shares
SharesFor(n) ==
  IF totalLp = 0 THEN 0 ELSE (n * Shares + totalLp - 1) \div totalLp

(* The Eris hub is sent LSD, Spectrum is told an amount of liquidity       *)
(* tokens.                                                                 *)
Unbond(shares, n) == [op |-> "Unbond", shares |-> shares, amount |-> n]
WithdrawLiquidity(n) == [op |-> "WithdrawLiquidity", amount |-> n]
Reply == [op |-> "Reply"]

(* get_retrieve_messages: all the LSD, and the liquidity tokens this gives *)
(* with those that are there already; or the liquidity tokens that the LSD *)
(* is worth, and no others.                                                *)
AmpLpRetrieveMessages ==
  LET bonded == LpFor(lsd[Reward]) IN
  IF lsd[Reward] = 0 \/ bonded + held[Lp] = 0 THEN << >>
  ELSE <<Unbond(lsd[Reward], bonded), WithdrawLiquidity(bonded + held[Lp])>>
SpectrumRetrieveMessages ==
  LET bonded == LpFor(lsd[Reward]) IN
  IF lsd[Reward] = 0 THEN << >>
  ELSE <<Unbond(SharesFor(bonded), bonded), WithdrawLiquidity(bonded)>>
RetrieveMessagesForAllLp ==
  LET bonded == LpFor(lsd[Reward]) IN
  IF lsd[Reward] = 0 THEN << >>
  ELSE <<Unbond(SharesFor(bonded), bonded),
         WithdrawLiquidity(bonded + held[Lp] + 1)>>
RetrieveMessages ==
  IF Retrieval = "amp_lp" THEN AmpLpRetrieveMessages ELSE SpectrumRetrieveMessages

(* SwapToRewardDenom {}.  The last message of the retrieval carries a      *)
(* reply, on success, that sells; where there is nothing to retrieve the   *)
(* selling starts at once.                                                 *)
RunRetrieveReplyingToFirst(m) ==
  /\ m.op = "SwapToRewardDenom" /\ m.at = Reward /\ m.from = rewardConfig.hub
  /\ IF RetrieveMessages = << >> THEN SellOffers
     ELSE /\ Continue(<<Head(RetrieveMessages), Reply>> \o Tail(RetrieveMessages))
          /\ UNCHANGED <<lsd, held, unsold>>
  /\ UNCHANGED totalLp
RunRetrieve(m) ==
  /\ m.op = "SwapToRewardDenom" /\ m.at = Reward /\ m.from = rewardConfig.hub
  /\ IF RetrieveMessages = << >> THEN SellOffers
     ELSE /\ Continue(RetrieveMessages \o <<Reply>>)
          /\ UNCHANGED <<lsd, held, unsold>>
  /\ UNCHANGED totalLp

RunReplyUntilAllSold(m) ==
  /\ m.op = "Reply"
  /\ \/ SellOffers /\ unsold' = {}
     \/ /\ Offers # << >>
        /\ Continue(<<IF m = Reply THEN [op |-> "Reply", again |-> TRUE] ELSE Reply>>)
        /\ UNCHANGED <<lsd, held, unsold>>
  /\ UNCHANGED totalLp
RunReply(m) == m.op = "Reply" /\ SellOffers /\ UNCHANGED totalLp

(* The protocols outside: an unbonding burns LSD and pays liquidity        *)
(* tokens, the pair pays its assets for them.  No amount may be zero.      *)
Unbonded(m) == IF Retrieval = "amp_lp" THEN LpFor(m.shares) ELSE m.amount
RunUnbond(m) ==
  /\ m.op = "Unbond" /\ 0 < m.shares /\ m.shares <= lsd[Reward]
  /\ lsd' = [lsd EXCEPT ![Reward] = @ - m.shares]
  /\ held' = [held EXCEPT ![Lp] = @ + Unbonded(m)]
  /\ totalLp' = totalLp - Unbonded(m)
  /\ Continue(<< >>)
  /\ UNCHANGED unsold

RunWithdrawLiquidity(m) ==
  /\ m.op = "WithdrawLiquidity" /\ 0 < m.amount /\ m.amount <= held[Lp]
  /\ held' = [x \in Assets |->
                CASE x = Lp -> held[x] - m.amount
                  [] x \in PairAssets -> held[x] + m.amount
                  [] OTHER -> held[x]]
  /\ Continue(<< >>)
  /\ UNCHANGED <<lsd, totalLp, unsold>>
=============================================================================
