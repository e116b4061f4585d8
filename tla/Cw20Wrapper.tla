----------------------------- MODULE Cw20Wrapper -----------------------------
(***************************************************************************)
(* What the two wrapper tokens share, packages/cavern_lsd_wrapper_token    *)
(* and packages/cavern_lsd_wrapper_token_with_limit: a cw20 token whose    *)
(* units stand for Luna, a vault of a liquid staking derivative (LSD) that *)
(* backs them, the cw20 messages, and mint and burn at a given exchange    *)
(* rate between the two tokens.  The two contracts differ in the rate they *)
(* mint and burn at and in what Decompound may take.                       *)
(*                                                                         *)
(* A transaction that the code rejects changes nothing, so it is no step   *)
(* of the model: the conditions under which the code returns an error or   *)
(* panics are the negations of the guards.                                 *)
(*                                                                         *)
(* DepositForRoundedDown, PayoutForRoundedUp, MoveFromStaleCopies,         *)
(* DestroyUnchecked and SpendExpired are faulty forms of their neighbours, *)
(* used by no specification, to confirm that the properties notice them.   *)
(***************************************************************************)
EXTENDS DecimalArith, FiniteSets, Functions

CONSTANTS
  Users,          \* accounts that sign transactions
  Wrapper,        \* the wrapper contract's own address
  Hub,            \* the Cavern hub, the only caller of Decompound
  Receivers,      \* accounts that accept a cw20 Receive callback
  Spenders,       \* accounts a user may grant an allowance to
  Rates,          \* Decimals the LSD hub may quote, 0 after a total slash
  Amounts,        \* Uint128 amounts a caller may pass
  LsdEndowment,   \* how much LSD each account starts with
  InitialGrants,  \* amounts instantiate may grant through initial_balances
  Expiries,       \* expirations a caller may pass with an allowance
  MaxUint         \* largest token amount, Uint128::MAX in the code

Accounts == Users \cup {Wrapper, Hub}

ASSUME ActorAssumption ==
  /\ Wrapper \notin Users /\ Hub \notin Users /\ Wrapper # Hub
  /\ Receivers \subseteq Accounts \ {Wrapper}
  /\ Spenders \subseteq Accounts
  /\ IsFiniteSet(Users)
ASSUME ExpiryAssumption == Expiries \subseteq {"never", "later"}
ASSUME AmountAssumption ==
  /\ Rates \subseteq Nat /\ Amounts \subseteq Nat /\ InitialGrants \subseteq Nat
  /\ LsdEndowment \in [Accounts -> Nat]
  /\ MaxUint \in Nat

VARIABLES
  bal,         \* wrapper tokens of each account   (cw20 BALANCES)
  supply,      \* TOKEN_INFO.total_supply
  allowance,   \* allowance[owner][spender]: an amount and its expiration
               \*                                  (cw20 ALLOWANCES)
  lsd,         \* LSD tokens of each account, the vault is lsd[Wrapper]
  rate         \* Luna per LSD as the LSD hub quotes it, a Decimal

tokenVars == <<bal, supply, allowance, lsd, rate>>

(* An allowance that has been granted does not expire, expires later, or   *)
(* has expired.                                                            *)
Allowances ==
  [amount : Nat, expires : {"absent", "never", "later", "past"}]
NoAllowance == [amount |-> 0, expires |-> "absent"]

TokenTypeOK ==
  /\ bal \in [Accounts -> Nat]
  /\ supply \in Nat
  /\ allowance \in [Accounts -> [Accounts -> Allowances]]
  /\ lsd \in [Accounts -> Nat]
  /\ rate \in Rates

-----------------------------------------------------------------------------
(* Conversions at an exchange rate of x wrapper tokens per LSD.            *)

(* LSD that minting n wrapper tokens costs                                 *)
DepositForRoundedDown(n, x) == Trunc(Quo(FromInt(n), x))
DepositFor(n, x) == Trunc(Quo(FromInt(n), x) + ONE)

(* Wrapper tokens that n LSD buy                                           *)
MintFor(n, x) == Trunc(Prod(FromInt(n), x))

(* LSD that burning n wrapper tokens pays                                  *)
PayoutForRoundedUp(n, x) == Trunc(Quo(FromInt(n), x) + ONE)
PayoutFor(n, x) == Trunc(Quo(FromInt(n), x))

(* The Luna value of b LSD at rate r, that value per wrapper token, and    *)
(* the whole LSD and Luna beyond what a supply of s needs                  *)
Backing(b, r) == Prod(FromInt(b), r)
ExchangeRate(b, s, r) == IF s = 0 THEN ONE ELSE QuoInt(Backing(b, r), s)
ExcessLsd(b, s, r) == Trunc(FromInt(b) - Quo(FromInt(s), r))
ExcessLuna(b, s, r) == Trunc(Backing(b, r)) - s

(* The vault is worth less than one Luna per token.                        *)
Slashed == ExchangeRate(lsd[Wrapper], supply, rate) < ONE

(* A rate whose fraction is not lost in the rounding of a whole LSD, as    *)
(* all rates are but those within a few atomics above a whole number.      *)
OrdinaryRate(r) == r % ONE >= r \div ONE \/ (r % ONE = 0 /\ r \div ONE <= ONE)

-----------------------------------------------------------------------------
(* The cw20 ledgers: the wrapper's own, and the LSD token's.               *)

MoveFromStaleCopies(b, from, to, n) ==
  [b EXCEPT ![from] = b[from] - n, ![to] = b[to] + n]
Move(b, from, to, n) == [[b EXCEPT ![from] = @ - n] EXCEPT ![to] = @ + n]

Issue(to, n) ==
  /\ supply + n <= MaxUint
  /\ supply' = supply + n
  /\ bal' = [bal EXCEPT ![to] = @ + n]

DestroyUnchecked(from, n) ==
  /\ n <= supply
  /\ bal' = [bal EXCEPT ![from] = @ - n]
  /\ supply' = supply - n
Destroy(from, n) ==
  /\ n <= bal[from] /\ n <= supply
  /\ bal' = [bal EXCEPT ![from] = @ - n]
  /\ supply' = supply - n

SpendExpired(owner, spender, n) ==
  /\ n <= allowance[owner][spender].amount
  /\ allowance' = [allowance EXCEPT ![owner][spender].amount = @ - n]
Spend(owner, spender, n) ==
  /\ allowance[owner][spender].expires \in {"never", "later"}
  /\ n <= allowance[owner][spender].amount
  /\ allowance' = [allowance EXCEPT ![owner][spender].amount = @ - n]

(* deposit_funds: the wrapper pulls LSD with TransferFrom, under an        *)
(* allowance the caller has given it; without one the mint is rejected.    *)
PullLsd(from, n) ==
  /\ n <= lsd[from]
  /\ lsd' = Move(lsd, from, Wrapper, n)

(* send_funds: the wrapper transfers LSD out of the vault.                 *)
PushLsd(to, n) ==
  /\ n <= lsd[Wrapper]
  /\ lsd' = Move(lsd, Wrapper, to, n)

-----------------------------------------------------------------------------
(* instantiate: the minter is the wrapper itself, so nobody can mint       *)
(* except through Mint and MintWith, and UpdateMinter, which the minter    *)
(* alone may call, never succeeds.  The initial balances are not backed.   *)
TokenInit ==
  /\ \E u \in Users, n \in InitialGrants :
        /\ n <= MaxUint
        /\ bal = [a \in Accounts |-> IF a = u THEN n ELSE 0]
        /\ supply = n
  /\ allowance = [o \in Accounts |-> [s \in Accounts |-> NoAllowance]]
  /\ lsd = LsdEndowment
  /\ rate \in Rates

(* The handlers of Mint, MintWith, Burn and BurnFrom at exchange rate x.   *)
MintAt(x, u, recipient, amount) ==
  /\ x > 0
  /\ PullLsd(u, DepositFor(amount, x))
  /\ Issue(recipient, amount)
  /\ UNCHANGED <<allowance, rate>>

MintWithAt(x, u, recipient, lsdAmount) ==
  /\ PullLsd(u, lsdAmount)
  /\ Issue(recipient, MintFor(lsdAmount, x))
  /\ UNCHANGED <<allowance, rate>>

BurnAt(x, u, amount) ==
  /\ x > 0
  /\ Destroy(u, amount)
  /\ PushLsd(u, PayoutFor(amount, x))
  /\ UNCHANGED <<allowance, rate>>

(* The owner's tokens burn; the payout goes to the spender who sent the    *)
(* message.                                                                *)
BurnFromAt(x, u, owner, amount) ==
  /\ x > 0
  /\ Spend(owner, u, amount)
  /\ Destroy(owner, amount)
  /\ PushLsd(u, PayoutFor(amount, x))
  /\ UNCHANGED rate

(* Transfer { recipient, amount }                                          *)
Transfer(u, recipient, amount) ==
  /\ amount <= bal[u]
  /\ bal' = Move(bal, u, recipient, amount)
  /\ UNCHANGED <<supply, allowance, lsd, rate>>

(* Send { contract, amount }: a transfer to a contract that takes the      *)
(* Receive callback; what the contract then does are steps of its own.     *)
Send(u, contract, amount) ==
  /\ contract \in Receivers
  /\ Transfer(u, contract, amount)

TransferFrom(u, owner, recipient, amount) ==
  /\ Spend(owner, u, amount)
  /\ amount <= bal[owner]
  /\ bal' = Move(bal, owner, recipient, amount)
  /\ UNCHANGED <<supply, lsd, rate>>

SendFrom(u, owner, contract, amount) ==
  /\ contract \in Receivers
  /\ TransferFrom(u, owner, contract, amount)

(* IncreaseAllowance and DecreaseAllowance, which removes the allowance    *)
(* when the decrease exhausts it.  Nobody may be his own spender.  The     *)
(* expiration given replaces the old one, and "keep" stands for none given *)
(* (a new allowance then never expires); one already past is rejected.     *)
Expiry(old, given) ==
  IF given # "keep" THEN given ELSE IF old = "absent" THEN "never" ELSE old

IncreaseAllowance(u, spender, amount, given) ==
  /\ spender # u
  /\ allowance[u][spender].amount + amount <= MaxUint
  /\ allowance' = [allowance EXCEPT ![u][spender] =
       [amount |-> @.amount + amount, expires |-> Expiry(@.expires, given)]]
  /\ UNCHANGED <<bal, supply, lsd, rate>>

DecreaseAllowance(u, spender, amount, given) ==
  /\ spender # u
  /\ allowance[u][spender].expires # "absent"
  /\ allowance' = [allowance EXCEPT ![u][spender] =
       IF amount < @.amount
       THEN [amount |-> @.amount - amount, expires |-> Expiry(@.expires, given)]
       ELSE NoAllowance]
  /\ UNCHANGED <<bal, supply, lsd, rate>>

-----------------------------------------------------------------------------
(* The environment: allowances expire, the LSD accrues rewards or is       *)
(* slashed, and LSD tokens change hands, the vault included, without the   *)
(* wrapper's knowledge.                                                    *)

AllowanceExpires(owner, spender) ==
  /\ allowance[owner][spender].expires = "later"
  /\ allowance' = [allowance EXCEPT ![owner][spender].expires = "past"]
  /\ UNCHANGED <<bal, supply, lsd, rate>>

LsdRateChange ==
  /\ rate' \in Rates
  /\ UNCHANGED <<bal, supply, allowance, lsd>>

LsdTransfer(from, to, n) ==
  /\ n <= lsd[from]
  /\ lsd' = Move(lsd, from, to, n)
  /\ UNCHANGED <<bal, supply, allowance, rate>>

(* The cw20 messages a user may send that neither mint nor burn.           *)
Cw20Step(u) ==
  \E v \in Accounts, n \in Amounts :
    \/ Transfer(u, v, n) \/ Send(u, v, n)
    \/ /\ v \in Spenders
       /\ \E given \in Expiries \cup {"keep"} :
            IncreaseAllowance(u, v, n, given) \/ DecreaseAllowance(u, v, n, given)
    \/ \E o \in Accounts : TransferFrom(u, o, v, n) \/ SendFrom(u, o, v, n)

OutsideStep ==
  \/ LsdRateChange
  \/ \E owner, spender \in Accounts : AllowanceExpires(owner, spender)
  \/ \E from \in Users \cup {Hub}, to \in Accounts, n \in Amounts :
        LsdTransfer(from, to, n)
=============================================================================
