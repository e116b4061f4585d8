----------------------------- MODULE CoinWrapper ----------------------------
(***************************************************************************)
(* The wrapper token over a native LSD, packages/wrapper_implementations   *)
(* coin.rs: the handlers of LsdWrapper, with the LSD a coin of the bank.   *)
(* A caller attaches coins to the message instead of giving an allowance,  *)
(* and all he attaches stays in the vault.  The bank refuses to send       *)
(* nothing.  The rate is a price that an oracle has posted, however long   *)
(* ago; one that exceeds a Decimal makes every handler that reads it fail. *)
(*                                                                         *)
(* DepositAnyFunds, DepositLosingExcess and DecompoundSendingDust are      *)
(* faulty forms of their neighbours, used by no specification, to confirm  *)
(* that the properties notice the faults.                                  *)
(***************************************************************************)
EXTENDS LsdWrapper

CONSTANTS
  Denom,       \* StrideLSDConfig.denom, the LSD's
  OtherDenoms, \* other coins of the bank
  MaxRate      \* largest price whose atomics fit 128 bits

ASSUME CoinAssumption == Denom \notin OtherDenoms /\ MaxRate \in Nat

(* Coins attached to a message, at most one amount of each denomination.   *)
Funds == UNION {[D -> Amounts] : D \in SUBSET ({Denom} \cup OtherDenoms)}

(* query_exchange_rate, which lets query_price answer a price of any age.  *)
Quoted == rate <= MaxRate

-----------------------------------------------------------------------------
(* deposit_funds: exactly one coin, the LSD, and enough of it.             *)
DepositAnyFunds(from, needed, funds) ==
  /\ \E d \in DOMAIN funds : DOMAIN funds = {d} /\ funds[d] >= needed
  /\ IF Denom \in DOMAIN funds THEN PullLsd(from, funds[Denom]) ELSE UNCHANGED lsd
DepositLosingExcess(from, needed, funds) ==
  /\ DOMAIN funds = {Denom}
  /\ needed <= funds[Denom] /\ funds[Denom] <= lsd[from]
  /\ lsd' = [lsd EXCEPT ![from] = @ - funds[Denom], ![Wrapper] = @ + needed]
DepositFunds(from, needed, funds) ==
  /\ DOMAIN funds = {Denom}
  /\ funds[Denom] >= needed
  /\ PullLsd(from, funds[Denom])

(* send_funds: the bank moves at least one coin.                           *)
SendFunds(to, n) == n > 0 /\ PushLsd(to, n)

CoinMint(u, recipient, amount, funds) ==
  /\ Quoted /\ rate > 0
  /\ DepositFunds(u, DepositFor(amount, rate), funds)
  /\ Issue(recipient, amount)
  /\ UNCHANGED <<allowance, rate>>

CoinMintWith(u, recipient, lsdAmount, funds) ==
  /\ Quoted
  /\ DepositFunds(u, lsdAmount, funds)
  /\ Issue(recipient, MintFor(lsdAmount, rate))
  /\ UNCHANGED <<allowance, rate>>

CoinBurn(u, amount) ==
  /\ Quoted /\ rate > 0
  /\ Destroy(u, amount)
  /\ SendFunds(u, PayoutFor(amount, rate))
  /\ UNCHANGED <<allowance, rate>>

CoinBurnAll(u) == bal[u] > 0 /\ CoinBurn(u, bal[u])

CoinBurnFrom(u, owner, amount) ==
  /\ Quoted /\ rate > 0
  /\ Spend(owner, u, amount)
  /\ Destroy(owner, amount)
  /\ SendFunds(u, PayoutFor(amount, rate))
  /\ UNCHANGED rate

(* Decompound sends a reward only when there is one.                       *)
DecompoundSendingDust(u, recipient) ==
  /\ Quoted
  /\ Decompound(u, recipient)
  /\ ~Slashed => LsdRewards(lsd[Wrapper], supply, rate) > 0
CoinDecompound(u, recipient) == Quoted /\ Decompound(u, recipient)

-----------------------------------------------------------------------------
(* The oracle posts another price, at any time.                            *)
OraclePost == LsdRateChange

(* Coins given away, to the vault too, by a transfer or attached to a      *)
(* message that has no use for them.                                       *)
CoinTransfer ==
  \E from \in Users \cup {Hub}, to \in Accounts, n \in Amounts :
    n > 0 /\ LsdTransfer(from, to, n)

CoinTokenStep(u) ==
  \/ \E v \in Accounts, n \in Amounts, funds \in Funds :
        CoinMint(u, v, n, funds) \/ CoinMintWith(u, v, n, funds)
  \/ \E v \in Accounts, n \in Amounts : CoinBurnFrom(u, v, n)
  \/ \E n \in Amounts : CoinBurn(u, n)
  \/ CoinBurnAll(u)

CoinNext ==
  \/ \E u \in Users : Cw20Step(u) \/ CoinTokenStep(u)
  \/ \E u \in Users \cup {Hub}, recipient \in Accounts :
        CoinDecompound(u, recipient)
  \/ \E owner, spender \in Accounts : AllowanceExpires(owner, spender)
  \/ CoinTransfer \/ OraclePost

CoinSpec == Init /\ [][CoinNext]_vars

-----------------------------------------------------------------------------
(* Properties, besides VaultSpec of LsdWrapper: measured in the posted     *)
(* price this is the same vault, funds attached in excess or in a wrong    *)
(* denomination included.                                                  *)

(* No coin ever attached to a message is lost, one in excess or one of a   *)
(* message of no use included: of all the LSD there was to begin with, and *)
(* through whatever deposits, payouts and gifts, a Decompound of a vault   *)
(* that covers the supply leaves less than two beyond the backing that are *)
(* not in the accounts outside.                                            *)
Outside == SumFunction([a \in Accounts |-> IF a = Wrapper THEN 0 ELSE lsd[a]])

ExcessIsHarvested ==
  [][\A recipient \in Accounts \ {Wrapper} :
        CoinDecompound(Hub, recipient) /\ ~Slashed =>
          (SumFunction(LsdEndowment) - Outside' - 2) * rate < supply * ONE]_vars

(* While the price is readable and the vault covers the supply, a holder   *)
(* whose tokens are worth a whole LSD can burn all of them; the bank's     *)
(* refusal to send nothing keeps only dust in.                             *)
OnlyDustIsStuck ==
  Quoted /\ rate > 0 /\ Vault!Covered =>
    \A u \in Users : PayoutFor(bal[u], rate) > 0 <=> ENABLED CoinBurnAll(u)

(* The bank's refusal never reaches the hub's UpdateGlobalIndex: with a    *)
(* readable price, a slashed vault, one without rewards, and one with      *)
(* rewards too small to send, all let Decompound succeed.                  *)
UpdateNeverBlocked ==
  Quoted /\ (Slashed \/ (rate > 0 /\ OrdinaryRate(rate))) =>
    ENABLED CoinDecompound(Hub, Hub)
=============================================================================
