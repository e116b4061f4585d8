# TLA+ model of the Cavern LSD wrapper contracts

This directory holds a formal model of the CosmWasm contracts in this repository: TLA+
modules translated from the source, TLC configurations that check them on small instances,
and theorems whose proofs the TLA+ proof system (TLAPS) checks for all values of the
constants. `PROJECT.json` lists, for each definition, the source lines it models.

## The system

A liquid staking derivative (LSD) such as ampLUNA, or a staked liquidity position, gains
value. A *wrapper token* turns it into a token that stands for one Luna and can serve as
collateral; what the LSD gains beyond that is taken out, sold for a stable coin, and claimed
by the lending market's custody contract.

| Part | State it keeps | Operations |
|---|---|---|
| Hub, `contracts/cavern-lsd-hub` | owner, addresses of the reward contract and the wrapper, time of the last update | `UpdateGlobalIndex` (anybody), `UpdateConfig` (owner) |
| Wrapper token, `packages/cavern_lsd_wrapper_token` | cw20 balances, supply and allowances; its LSD are its balance in the LSD's own token | `Mint`, `MintWith`, `Burn`, `BurnAll`, `BurnFrom`, the cw20 messages, `Decompound` (hub) |
| Wrapper token with limit, `packages/cavern_lsd_wrapper_token_with_limit` | the same, and `DECOMPOUND_STATE`: sum of the ratios taken, seconds counted, time of the last decompound | the same; mints and burns at the vault's share rate, `Decompound` bounded by a yearly ratio |
| Implementations, `packages/wrapper_implementations` and the thin contracts | addresses | the LSD's exchange rate (a hub's or a farm's answer, or an oracle's price), the balance, moving LSD in and out, as cw20 tokens or native coins |
| Reward contract, `contracts/cavern-lsd-reward` | owner, custody contract, known tokens, exchanges; its balances | `SwapToRewardDenom` (hub), `ClaimRewards` (custody), `UpdateConfig` (owner) |
| Custom reward contract, `packages/cavern_aAsset_custom_reward`, with `contracts/cavern_aAsset_amp_lp_reward` or `..._spectrum_reward` | the same | the same; unbonds and withdraws liquidity first, and sells in a reply |

The interaction that matters is `UpdateGlobalIndex`. The hub returns two messages: a
`Decompound` to the wrapper, which returns an LSD transfer to the reward contract, and a
`SwapToRewardDenom` to the reward contract, which queries its balances and the exchanges and
returns one sale per asset, or, in the custom form, retrieval messages with a reply on the
last of them that does the selling. The chain runs these messages depth first in one
transaction; an error in any of them undoes everything.

There are no threads, and the chain persists state atomically. What is hard is elsewhere:

* rounding at every conversion, over long sequences of mints, burns and decompounds;
* a limit enforced through running sums, under bursts, idle years, slashings and sub-second
  blocks;
* amounts computed when a handler runs and used by messages that run later, after others have
  moved tokens and the LSD's rate;
* a transaction that is undone by its last message after every contract has recorded something;
* an error in one contract that would block all the others;
* abort conditions (division by zero, unsigned subtraction, a bank that sends no zero amounts)
  that depend on the LSD's rate;
* what outsiders control: attached funds, donations, allowances that expire, exchanges that
  fail, tokens that do not answer, prices of any age.

`PROJECT.json` lists these hazards with the lines where they bite.

What makes each part correct:

* Wrapper: supply and balances agree; tokens leave an account only by its owner or an
  allowance; a vault that covers its tokens can only lose that cover when the LSD's rate falls;
  a decompound takes all the excess and nothing else, and does not fail without need.
* Wrapper with limit: the extraction stays below the yearly limit, what is recorded is what
  is sent, the share of a holder is not diluted.
* Native-coin wrapper: attached funds that are wrong do not mint, those in excess are not lost,
  and the bank's refusals keep only dust in.
* Hub and reward contracts: an update that commits leaves nothing behind that could be sold,
  sells at the best quote, never sends a message that its receiver must reject, is atomic for
  whoever looks from outside, keeps the contracts' clocks in step, and ends.

## Modules

| Module | Models |
|---|---|
| `DecimalArith` | `Decimal` and `Uint128` of cosmwasm_std: fixed point with `ONE` atomics to the unit, rounding down. |
| `CollateralVault` | The abstract specification of a wrapper: deposits at full value at least, redemptions at full value at most, harvests of the excess, price moves. |
| `Cw20Wrapper` | What both wrapper tokens share: ledgers, conversions, mint and burn at a given rate, the cw20 messages, and the environment (rate changes, LSD transfers by others). |
| `LsdWrapper` | The wrapper token: handlers at the LSD's Luna rate, and `Decompound`. |
| `LsdWrapperLimit` | The wrapper with limit: handlers at the share rate, the limit and its clock, the expected rate of the `TokenInfo` query. |
| `CoinWrapper` | The wrapper over a native LSD (`coin.rs`): `LsdWrapper` with attached funds, bank sends and the price an oracle has posted. |
| `CosmWasm` | How the chain runs a transaction: the stack of messages still to run and the state to go back to. |
| `CavernHub` | The hub: addresses, owner, the messages of `UpdateGlobalIndex`, and its clock. |
| `SwapRouting` | The choice of an exchange (`create_swap_msgs`): every exchange is asked, the answers are numbered, failures are dropped, and a running maximum over the rest picks the last of the best. |
| `RewardContract` | The plain reward contract: what it offers, sales, claims, configuration. |
| `CustomReward` | The reward contract that takes the LSD apart first, with the amp LP or the Spectrum retrieval. Extends `RewardContract`. |
| `RewardDistribution` | The abstract specification of an update: LSD leave the vault for the goods, each good is sold as a whole or kept as a whole, at once, and the LSD sold are the market's. Otherwise LSD leave the vault only for wrapper tokens. |
| `StakedDistribution` | The same for an LSD that is a share of bonded liquidity tokens: an update unbonds all that can be, for liquidity tokens of its worth, withdraws these to the pair, and sells or keeps each asset as a whole. Extends `RewardDistribution`. |
| `GlobalUpdate` | `UpdateGlobalIndex` as a transaction: `CavernHub`, `LsdWrapper` (by `INSTANCE`) and `RewardContract` composed. |
| `LimitedUpdate` | The same with `LsdWrapperLimit` and `CustomReward`, a staking protocol whose share ratio moves, and block time. |
| `MCLsdWrapper`, `MCLsdWrapperLimit`, `MCCoinWrapper`, `MCGlobalUpdate`, `MCLimitedUpdate` | Constant values for TLC. |
| `ArithmeticLemmas`, `Cw20WrapperProofs`, `LsdWrapperProofs`, `LsdWrapperLimitProofs`, `CoinWrapperProofs`, `RewardContractProofs`, `GlobalUpdateProofs`, `LimitedUpdateProofs` | Lemmas and theorems. |

`CavernHub` and `RewardContract` both extend `CosmWasm`, and so share one stack of messages;
`CustomReward` extends `RewardContract`. `GlobalUpdate` extends the hub and the plain reward
contract, `LimitedUpdate` the hub and the custom one, and each instantiates its wrapper.

### How state and actions correspond to the code

* `bal`, `supply` and `allowance` are the cw20 storage; `lsd` is the LSD token's ledger, with
  the vault at `lsd[Wrapper]`; `rate` is what `query_exchange_rate` answers. It may change to
  any value of `Rates` at any time, zero included: the contracts do not control it.
* One action is one handler with the messages it returns, as long as they only move LSD
  (`Mint` is `execute_mint` with the `TransferFrom` it returns). A call that the code rejects
  is no step, so guards are the negations of the error paths: an overdrawn balance, a missing
  allowance, a division by zero, an unsigned difference below zero.
* `Slashed` is the comparison `exchange_rate < 1` that makes `compute_accrued_rewards` return
  the error that `execute_decompound` turns into a success without effect.
* `LsdRewards` and `LunaRewards` are the two results of `compute_accrued_rewards`. The second
  is only reported as an attribute by the plain wrapper, but its subtraction can abort the
  transaction; in the wrapper with limit it also determines the ratio that is recorded.
* `ratioSum`, `totalSeconds` and `lastDecompound` are `DECOMPOUND_STATE`. Block time has a
  finer grain than the seconds the contract counts (`TicksPerSecond`), so that the rounding of
  its clock is in the model. `startTime` is kept for the properties only.
* An allowance is an amount and the fate of its expiration: never, later, or past, absent when
  there is none. `AllowanceExpires` lets the block pass it. An increase or a decrease may
  replace the expiration or keep it, as in `cw20_base`.
* In `CoinWrapper`, `rate` is what the oracle has posted, however long ago: `Quoted` is the call
  of `query_price` that the code makes, which sets no time frame (`coin.rs:64`). `Funds` are the
  coins attached to a message; all of the LSD among them goes to the vault, and a rejected message
  returns them.
* `stack` is the list of messages to run, each with the amounts its handler wrote into it.
  `Continue(msgs)` puts the messages a handler returns before what is queued, as the chain
  does. `Abort` goes back to `saved`, the hub's and the wrapper's clocks included. A message is
  `Rejected` when no handler accepts it, under the conditions of the code; the contracts
  outside may also reject one for reasons of their own (exchanges in `GlobalUpdate`, `Outside`
  in `LimitedUpdate`). Transactions of a single handler are single steps between updates.
* `Answers` are what the exchanges may answer to the simulations of a handler. An address
  answers, and accepts a sale, only for the operations in `Understands`: the owner may register
  it as another exchange than it is. The sale that runs right after the simulations pays what
  was answered; the market has moved for those after it, which pay any amount, since the code
  asks for no minimum.
* `Held` is what the reward contract would find when it queries a balance; known tokens in
  `Mute` do not answer and count as not held. In the plain form the contract sells the LSD
  itself, which the owner lists in `known_tokens`. In the custom forms the LSD is unbonded to a
  liquidity token, which is withdrawn from its pair; `LpFor` is the protocol's answer, and the
  rate of the wrapper (`Rate`) is computed from the same state, so that it moves when the
  unbonding runs.
* The reply on the last retrieval message is a message `Reply` behind it: a reply on success runs
  after the message and all it has caused, before what was queued earlier.

Definitions named after a fault (`DepositForRoundedDown`, `MessagesSwapFirst`, ...)
are faulty forms of their neighbours and belong to no specification: each property was
confirmed to fail when one of them takes its neighbour's place. `PROJECT.json` pairs them.

### Abstractions

* `ONE` is 10 in the runs, 10^18 in the code. Every rounding is exact for the `ONE` given;
  a small one makes each of them visible with small amounts. The theorems hold for every
  `ONE > 0`.
* `MaxUint` bounds token amounts (overflow aborts); amounts, rates and times are bounded in
  the configurations only.
* Zero amounts are not sent by users in the runs.
* `PullLsd` and `PushLsd` are the cw20 form of `deposit_funds` and `send_funds`; the former
  supposes that the caller has given the wrapper the allowance it needs.
* `GlobalUpdate` leaves the hub's clock at zero, `LimitedUpdate` runs it.
* The owner may register contracts that are none of the system's in `GlobalUpdate` only, whose
  properties say which registration they need. In `LimitedUpdate` the hub may know the wrapper and
  the reward contract under one another's name, but no third address (`Targets`), and the reward
  contract knows its hub (`Hubs`): the hub's handlers and the reward contract's check of its caller
  are the same in both compositions.
* The age of an oracle's price, which `query_price` could bound, is not counted. The comparison of an
  error with a freshly built one, by which `execute_decompound` tells a slashing from other errors
  (`contract.rs:246` and its counterpart without limit), is the condition that error stands for.
* A withdrawal of n liquidity tokens pays n of each asset of the pair. Nobody bonds anew with
  the staking protocol; what is bonded may grow up to `MaxLp`, or be lost.
* In the compositions the wrapper's users mint, burn and transfer LSD; allowances and the other
  cw20 messages are left to the runs of the wrapper alone, and `Expiries` is empty.

## Runs

| Run | Configuration | What it shows |
|---|---|---|
| `lsd_wrapper` | `LsdWrapper.cfg` | Two users, four LSD, rates 0, 0.8, 1 and 1.9, unbacked initial tokens, an allowance. Ledger, ownership, refinement of `CollateralVault`, solvency, tight harvests, and decompounds that no underflow makes fail. |
| `limit_cap` | `LimitCap.cfg` | One user, a limit of 100% a year or none, a year of three seconds, two ticks to the second and seven ticks. The limit is reached and used up in more than one decompound, and idle time and slashed periods occur. |
| `limit_ledger` | `LimitLedger.cfg` | Two users, an allowance, unbacked initial tokens: the share of a holder. |
| `coin_wrapper` | `CoinWrapper.cfg` | Two users, allowances that may expire, three coins of the LSD, one foreign coin, prices of zero, 0.8, 1, 1.9 and one too large for a `Decimal`. The vault is the one of `CollateralVault` whatever is attached; no coin attached is lost, all that is not outside the vault leaves with the next harvest, counted from the coins there were at first; a holder of a whole LSD's worth can always burn; Decompound never fails for a price that can be read. |
| `update_plain` | `UpdatePlain.cfg` | The plain reward contract, one user with three LSD; the hub may be given wrong addresses, the reward contract a wrong hub; donations, duplicate known tokens, one exchange that may fail or offer 0 or 1. Refinement of `CollateralVault` and `RewardDistribution`, so that no LSD is lost between the vault and its sale. |
| `update_routes` | `UpdateRoutes.cfg` | One asset and three exchanges with all combinations of failures, zeros, ties and differences, registered in any arrangement of three addresses, and a known token that does not answer. |
| `update_amp_lp` | `UpdateAmpLp.cfg` | Amp LP, three liquidity tokens for three LSD at first, gains up to six and losses of one, so that unbonding rounds, down to nothing; donations of liquidity tokens; a limit of a whole vault per year of one second, and two seconds. Refinement of `StakedDistribution`. |
| `update_spectrum` | `UpdateSpectrum.cfg` | Spectrum, three liquidity tokens for three shares with gains up to six, no limit, a pair with a native coin. |

The bounds are the smallest at which each case happens: two users for self-transfers against
transfers and allowances; amounts of one and two because the roundings lose up to one unit
per call; rates below, at and above one, one of which (1.9) does not divide evenly; more than
one decompound within the time of `limit_cap`; two assets to sell in `update_plain` and
`update_spectrum`, so that sales meet; two updates at different seconds in `update_amp_lp`. Every property fails within these bounds when
the fault paired with it is put in.

Spectrum's run supposes a farm that loses nothing: a share worth less than one liquidity token
makes the retrieval ask for zero, which the protocol rejects, and with it every update. The
hazard is listed with that line.

`CHECK_DEADLOCK` is left on everywhere: some account can always act.

### Where comments and tests disagree with the code

Three runs check what a comment or a test says and find the code doing otherwise, all for the
wrapper with limit:

| Run | Said | Done |
|---|---|---|
| `limit_mint_rate` | `contracts/amp-lp-wrapper/src/tests/test.rs:181` expects 4,000,000 tokens for 1,000,000 LSD worth four each | `handler.rs:128-129` mints at the share rate, one for one into an empty vault; `:45-46` burns at it too, where the comment above says "an equivalent amount of 1 Luna per each burned token" |
| `limit_empty_vault` | `contracts/cavern-lsd-hub/src/contract.rs:89` "if they exist" | `contract.rs:254` divides by the vault's value, so an empty vault makes the whole update fail |
| `limit_expected_rate` | `querier.rs:52-53` "the current value of the token with the current de-compound rate applied" | `querier.rs:77` subtracts the spare ratio, while a decompound takes that part of the value |

A decompound may also record a ratio and send no LSD, when the Luna amounts leave a reward and
the LSD amounts round to nothing (`contract.rs:254`, `:318`): `ExtractionRecorded` therefore says
that what is recorded is, up to rounding, at least what is sent.

### Fairness

Only `EveryTransactionEnds` is a liveness property. `Spec` of `GlobalUpdate` and of
`LimitedUpdate` has weak fairness of `TxStep`: a chain that has begun a transaction executes its messages until none is left or
one fails. The property depends on the handlers: what each puts before the queue must need fewer
steps than it did itself, and the property fails for a swap or a reply that queues itself again.
No fairness is assumed of users, of the hub's callers or of the exchanges, and so nothing is
claimed about rewards being sold eventually.

## Theorems

All proofs hold for every finite set of users, every `ONE > 0`, all rates and amounts in the
natural numbers, every endowment, any number of exchanges with any answers, any list of coins
and known tokens and, for the limit, every limit, year and clock grain, under the assumptions
named in the modules, which TLC evaluates on each run. `OneAssumption`, `AmountAssumption`,
`LimitAssumption`, `GlobalAmountAssumption` and `LimitedAmountAssumption` give constants their
types, and the latter two let the reward contract start without LSD; `ActorAssumption`,
`RewardAssumption`, `CustomRewardAssumption`, `GlobalUpdateAssumption` and
`LimitedUpdateAssumption` say that contracts, users, the market and assets are different from one
another, as addresses and denominations are, that `None` is none of them and no state to go back to, and
that an `UpdateConfig` passes addresses.

`LsdWrapperProofs`:

* `TypeCorrect`: `TypeOK` is inductive.
* `ImplementsVault`: `Spec => VaultSpec`. Each handler is a step of `CollateralVault`. The
  rounding lemmas carry it: a mint's price in LSD, rounded up by adding one, is worth the
  tokens (`DepositCovers`); a payout, rounded down twice, is worth at most its tokens
  (`PayoutCovered`); a decompound may take anything less than the whole excess
  (`ExcessLsdBounds`), and the comparison that detects a slashing is exact in spite of its own
  roundings (`SlashedExactly`).
* `SolvencyPreserved`: a covered vault stays covered while the rate does not fall.
* `HarvestTight`: after a decompound the vault is covered, by less than two LSD more.
* `NoUnderflow`: the Luna reward of a vault that is not slashed does not go below zero at an
  *ordinary* rate. The exception is real: at a rate with a whole part of two or more and
  a fraction of fewer atomics than that whole part, the subtraction can underflow. With
  `ONE = 10`, 8 LSD at a rate of 3.1 behind 22 tokens are such a case. With 18 decimals it takes
  amounts near 10^17.
* `OwnershipRespected`: `Spec => OnlyOwnerOrSpender`. For each handler that takes tokens from an
  account (`SpendFacts`, `TransferTakes`, `DestroyTakes`), either it is the account's own message
  or what it takes is what an unexpired allowance loses; a transfer to oneself takes nothing.
* `SupplyIsTheSum`: `SupplyMatchesBalances` is inductive. `cw20` keeps `total_supply` and the
  balances apart, and every handler writes both. What the proof needs of a sum is how it changes
  when one entry does (`ArithmeticLemmas`); that follows from the definition of the fold by
  taking a smallest counterexample (`LeastSubset`, `SumInduction`), since no induction theorem
  can be instantiated here.
* `NobodyIsLeftBehind`: each payout rounds down, and so all payouts together are worth at most
  the sum of the balances, which is the supply, and fit into a vault that covers it.

`LsdWrapperLimitProofs`:

* `Invariance`: `IInv` is inductive. It adds to `TypeOK` that the contract's own count of
  seconds is exact (`ClockExact`: `totalSeconds` telescopes to the difference of the whole
  seconds, so sub-second calls lose and gain nothing) and that the sum of ratios is at most
  what that count allows (`CapInv`). `CapRespected` alone is not inductive: without the exact
  clock, what a later call may take could exceed what the true time allows.
* `CapNeverExceeded`, `NeverOverdrawn`: the limit holds, and the error path for having exceeded
  it is dead code.
* `HarvestCovers`, `SharePreserved`, `RecordsExtraction`: a harvest leaves the backing; only a
  harvest lowers the share; what is sent exceeds what is recorded by less than one Luna and one
  atomic.
* `NoUnderflow`: the limit adds no way to underflow.

`CoinWrapperProofs`:

* `CoinTypeCorrect`, `CoinImplementsVault`: the native-coin wrapper has its type and refines
  `CollateralVault`, measured in the posted price, for every list of denominations and prices.
  The argument is that of the cw20 form with one lemma more: what `DepositFunds` lets pass is
  enough of the LSD (`FundsSuffice`), and the excess only raises the vault.
* `ExcessHarvested`: no coin attached is lost. Of the coins there were at first, a decompound
  leaves less than two beyond the backing that are not in accounts outside the vault, where only
  payouts, harvests and gifts bring them. That a harvest is tight (`TightHarvest`) says
  nothing of coins that never reached the vault; the proof adds that every step keeps the sum of
  all accounts (`Conserved`, `CoinStepConserves`), those with attached funds included.
* `CoinSupplyIsTheSum`, `NoCoinsMissing`: as `SupplyIsTheSum` and `NobodyIsLeftBehind` above.
* `OnlyDustIsRefused`, `UpdateNotRefused`: what `OnlyDustIsStuck` and `UpdateNeverBlocked` say of
  `ENABLED`, said of the handlers' guards (`BurnAllAcceptable`, `DecompoundAcceptable`). That a
  burn is never refused for want of coins needs the supply to be the sum of the balances.

`RewardContractProofs` has the lemmas about the sale: `Keep` returns the entries asked for, each
as often as it is listed and in order (`KeepFacts`); the running maximum `BestOf` over the exchanges
that answered ends at one of them, and none answered more (`BestDexFacts`); known tokens and
coins are listed once each (`ListedFacts`), so that the sales queued are of different assets and
of all there is (`SellOffersFacts`). Both operators compute along a sequence; their lemmas, too,
take a smallest counterexample (`NoFirstFailure`). `NextSaleAcceptable` says that a sale finds what it was queued for. They
bound lengths as well: no more sales are queued than tokens are listed, and each sale
shortens the stack.

`GlobalUpdateProofs`, about an update as a transaction:

* `StagesKnown`: `Spec => []Inv`. What the composition promises speaks of committed states, or of
  single queued messages, and none of it is inductive: in the middle of a transaction it says
  nothing of the state reached so far. `Inv` adds that a transaction is in one of four stages,
  each with what is queued and how the state differs from the saved one: both messages of the hub
  (`AtUpdate`, nothing has changed), the transfer of the harvest and the swap (`AtTransfer`, the
  amount is spare), the swap alone (`AtSwap`, the harvest has arrived, or none was due, or a
  stranger called), sales alone (`AtSales`, of different assets and all there, and each asset
  already sold or untouched). `Distinct` adds that no token is known twice, without which two
  sales of one token would meet.
* `TypesKept`, `SalesNeverCollide`, `BestPriceAlways`: the invariants of the run, for any number
  of assets and exchanges.
* `HarvestIsAtomic`: `Spec => AtomicHarvest`. The committed vault, supply and rate implement
  `CollateralVault`, as those of the wrapper alone do (`LsdWrapperProofs` is instantiated for the
  steps of its users): the transaction's last step is the harvest, all others are stutters.
* `DistributionIsAtomic`: `Spec => AtomicDistribution`. The last step sells each asset whole or
  keeps it whole, the LSD that came from the vault in the same transaction included; the LSD sold
  are in the market's account, the sum over all accounts is what it was, and the pot grows if
  and only if something was sold. No other step takes LSD from the vault but against tokens.
* `EverythingIsSold`: at that step nothing is left of what is listed but what no exchange paid
  for.
* `QueuedMessagesAcceptable`: with the contracts registered with one another, a queued message
  meets the guards of its handler (`Acceptable`) when its turn comes, unless it is a Decompound
  or a stranger's. It is `QueuedMessagesAccepted` without `ENABLED`.
* `CoverOutlivesUpdates`: `Spec => Vault!CoverLostOnlyByPrice`, of the vault as committed states
  show it. Each step of the composition is a step of `CollateralVault` (`HarvestStep`), and none
  of those loses the cover but a fall of the price (`CoverStep`).
* `TransactionsAreFinite`: `StepsLeft`, a bound on the messages still to run that follows from the
  stage, falls with every step of a transaction and is never above the number of listed tokens
  and three. It needs no fairness; `EveryTransactionEnds` is this with the fairness of `TxStep`.

`LimitedUpdateProofs`, about an update in which the LSD is taken apart, for both retrievals:

* `ClocksAlwaysAgree`: the hub's record of its last update is never behind the wrapper's of its
  last harvest, for every staking protocol, limit and clock grain. `ClocksAgree` speaks of
  committed states and is not inductive. `ClockInv` adds that the state to be restored satisfies
  it, that `startTime` in it is the present one, and that during a transaction the hub has
  recorded the present second, which is what a harvest in the middle then agrees with.
* `StagesKnown`: `Spec => []Inv`, with seven stages: the four above, and, between the swap and
  the sales, the unbonding and the withdrawal (`AtUnbond`), the withdrawal (`AtWithdraw`) and the
  reply (`AtReply`). Three things are new in it. The limit is a part of what is undone, so `Inv`
  has the limit's own invariant, of the present state (`IInv`, by instantiating
  `LsdWrapperLimitProofs`) and of the saved one (`SavedLimit`). The rate moves in the middle, so
  that the vault is covered is said at the rate as it then is (`StillCovered`). And once the
  unbonding has run, the LSD left is worth no liquidity token (`OnlyDust`), which every later
  stage keeps.
* The arithmetic under it: a payment rounded down, for shares rounded up, leaves each remaining
  share worth no less (`UnbondingKeepsRate`); after asking for the shares' value rounded down,
  what remains of them is worth nothing (`UnbondingLeavesDust`); and what is asked for never
  costs more shares than there are (`UnbondingAffordable`). What the protocol divides by is a sum
  over all accounts, and `SharesChange` says how it moves.
* `TypesKept`, `EverythingIsSold`: as above, with the dust that no unbonding reaches.
* `DistributionIsAtomic`: `Spec => AtomicDistribution`, which refines `StakedDistribution`. What
  the vault has given up and what the contract held of the LSD is burnt for liquidity tokens of its
  worth, but for what is worth none; the pair's assets grow by what was withdrawn; and of
  each asset, with what has come of it in the transaction, all is sold or all is kept. The stages
  carry how far the LSD has come (`Arrived`, `TakenApart`, `Ready`, `Selling`).
* `UpdateCovers`: `Spec => UpdateKeepsCover`. An update that harvests leaves one Luna behind each
  token at the rate it has itself moved.
* `QueuedMessagesAcceptable`: as above, with one message more that may be refused, which the
  runs exclude and the theorem names: on Spectrum, the unbonding of LSD worth no liquidity
  token.
* The limit seen from outside. The wrapper records what it is about to send in one message and
  sends it in the next, and by the time the transaction commits its own unbonding has moved the
  rate. `RecordCoversTaking` is the inductive invariant for it (`RecordInv`): what has left the
  vault or is queued to leave it (`Taken`) is worth, at the rate of the saved state, no more than
  what has been recorded since that state, up to one Luna and one atomic of ratio and rate. From
  it follow `CommittedExtractionRecorded`, which says so of a committed update, and, with the
  growth of the cap in time (`CapGrows`), `UpdateWithinLimit`: an update takes no more than the
  limit allows for the time since instantiate less what was recorded before.
  `CapRespectedThroughout` is `CapRespected` of the present and of the saved state in every state.
* `RateFallsOnlyByLoss`: the rate seen from outside falls only when the protocol loses what it has
  bonded. Every handler keeps the rate for the shares that remain (`KeepsRate`): unbonding rounds
  in their favour (`TakingApartKeepsRate`, which rests on `UnbondingKeepsRate`), everything else
  only moves LSD. `RateInv` carries it over the transaction: in the middle the rate is not below
  the saved one, so that committing does not lower it, and undoing restores it. Once nobody holds
  any LSD the rate says nothing, and the theorem leaves that state out.
* `UpdateNeverUncovers`: `UpdateKeepsCover` speaks only of updates that harvest. With the rate's
  growth the same holds of every transaction, committed or undone: one that finds a Luna behind
  each token leaves a Luna behind each. It is the counterpart of `CoverOutlivesUpdates`, but says
  nothing of mints and burns: with a limit these go by share, and may cost the vault the rounding
  that `ShareKept` bounds.
* `TransactionsAreFinite`: as above, with six messages besides the sales.

Only model-checked:

* `UpdateNeverBlocked`, `OnlyDustIsStuck` and `QueuedMessagesAccepted` as they stand: they are
  stated with `ENABLED`. Theorems state them with the guards written out.
* `EveryTransactionEnds`: liveness. That a transaction has finitely many steps is proved
  (`TransactionsAreFinite`); that it takes them is the fairness of `TxStep`.

## Not modelled

* Queries, but for those the handlers use and the expected rate. `UpdateMarketing`, `UploadLogo`
  and `UpdateMinter`, which never succeed: no marketing address is stored at instantiation, and
  the minter is the contract itself. Migrations, which are empty.
* State nobody reads: `exchange_rate` and balances of the hub's `State`, `State` and `HOLDERS` of
  the reward contracts.
* The decoding of exchange rates by `ampLuna-wrapper` and `bLuna-wrapper`: any value of `Rates`.
* The exchanges, the staking protocols, the oracle and the bank, beyond the answers the contracts
  use. Spread limits and slippage are an exchange that rejects or pays less.
* Deployment scripts and bindings under `interface/`, message and type definitions, schemas and
  artifacts.
