--------------------------- MODULE RewardContract ---------------------------
(***************************************************************************)
(* contracts/cavern-lsd-reward: it receives what the wrapper harvests,     *)
(* sells everything it holds for the reward denomination when the hub      *)
(* tells it to, and lets the custody contract claim the proceeds.          *)
(*                                                                         *)
(* SwapUntilAllSold, SellOffersKeepingOne and RewardUpdateConfigUnchecked  *)
(* are faulty forms of their neighbours, used by no specification, to      *)
(* confirm that the properties notice the faults.                          *)
(***************************************************************************)
EXTENDS CosmWasm, SwapRouting, Functions

CONSTANTS
  Reward,          \* the reward contract
  Market,          \* stands for exchanges and staking protocols, outside
  Lsd, Stable,     \* the LSD token and the reward denomination
  Natives,         \* native coins, in the order the bank lists them
  Cw20s,           \* the cw20 tokens besides Lsd
  Mute,            \* those of them that do not answer a Balance query
  KnownLists,      \* values known_tokens may be given
  Custodies,       \* accounts the owner may register as custody contract
  Hubs,            \* what hub_contract may be instantiated with
  DexAddresses,    \* addresses the owner may register as exchanges
  Understands,     \* the exchanges whose swap operations an address accepts
  Quotes           \* amounts an exchange may answer

Assets == Range(Natives) \cup Cw20s

ASSUME RewardAssumption ==
  /\ Natives \in Seq(Range(Natives)) /\ IsInjective(Natives)
  /\ Range(Natives) \cap Cw20s = {} /\ Lsd \notin Assets
  /\ Stable \in Range(Natives) /\ Mute \subseteq Cw20s
  /\ KnownLists \subseteq Seq(Cw20s \cup {Lsd})
  /\ None \notin Admins \cup Custodies \cup DexAddresses \cup KnownLists
  /\ Understands \in [DexAddresses -> SUBSET (1 .. DexCount)]
  /\ Quotes \subseteq Nat
  /\ Reward # Market

VARIABLES
  held,            \* what the contract holds besides LSD
  lsd,             \* LSD tokens of each account
  rewardConfig,    \* CONFIG: owner, hub, custody contract and known tokens
  swapConfig,      \* SWAP_CONFIG: the address of each exchange
  unsold           \* assets no exchange would pay for in this transaction

rewardConfigs == <<rewardConfig, swapConfig>>

RewardTypeOK ==
  /\ held \in [Assets -> Nat]
  /\ rewardConfig \in [owner : Admins, hub : Hubs,
                       custody : Custodies \cup {None}, known : KnownLists]
  /\ swapConfig \in [1 .. DexCount -> DexAddresses]
  /\ unsold \subseteq Assets \cup {Lsd}

RewardInit ==
  /\ held = [x \in Assets |-> 0]
  /\ \E a \in Admins, h \in Hubs, known \in KnownLists :
        /\ IsInjective(known)
        /\ rewardConfig = [owner |-> a, hub |-> h, custody |-> None, known |-> known]
  /\ swapConfig \in [1 .. DexCount -> DexAddresses]
  /\ unsold = {}

-----------------------------------------------------------------------------
(* What there is to sell: every native coin but the reward denomination,   *)
(* then the known tokens; one that does not answer counts as not held.     *)
Held(x) == IF x = Lsd THEN lsd[Reward] ELSE held[x]
Offered(x) == x # Stable /\ x \notin Mute /\ Held(x) > 0

Listed == Natives \o rewardConfig.known
Offers == Keep(Listed, {x \in Range(Listed) : Offered(x)})

(* What the exchanges may answer; an address that does not understand the  *)
(* operation of the exchange it is registered as does not.                 *)
Answers ==
  {q \in [1 .. DexCount -> Quotes \cup {NoQuote}] :
     \A i \in Answered(q) : i \in Understands[swapConfig[i]]}

(* One operation, at the exchange that answered most, for all there is.    *)
Sell(x, q, first) ==
  [op |-> "Sell", asset |-> x, amount |-> Held(x), quotes |-> q, first |-> first,
   kind |-> BestDex(q), at |-> swapConfig[BestDex(q)]]

(* The body of execute_swap.                                               *)
SellOffersKeepingOne ==
  \E q \in [Range(Offers) -> Answers] :
    LET sold == Keep(Offers, {x \in Range(Offers) : Sellable(q[x])})
    IN  /\ Continue([i \in DOMAIN sold |->
                       [Sell(sold[i], q[sold[i]], i = 1) EXCEPT
                          !.amount = IF @ > 1 THEN @ - 1 ELSE @]])
        /\ unsold' = {x \in Range(Offers) : ~Sellable(q[x])}
        /\ UNCHANGED <<lsd, held>>
SellOffers ==
  \E q \in [Range(Offers) -> Answers] :
    LET sold == Keep(Offers, {x \in Range(Offers) : Sellable(q[x])})
    IN  /\ Continue([i \in DOMAIN sold |-> Sell(sold[i], q[sold[i]], i = 1)])
        /\ unsold' = {x \in Range(Offers) :
                        \A i \in 1 .. DexCount : q[x][i] \in {NoQuote, 0}}
        /\ UNCHANGED <<lsd, held>>

(* SwapToRewardDenom {}                                                    *)
SwapUntilAllSold(m) ==
  /\ m.op = "SwapToRewardDenom" /\ m.at = Reward /\ m.from = rewardConfig.hub
  /\ \/ SellOffers /\ unsold' = {}
     \/ /\ \E x \in Range(Offers) : unsold' = {x}
        /\ Continue(<<m>>)
        /\ UNCHANGED <<lsd, held>>
RunSwapToRewardDenom(m) ==
  /\ m.op = "SwapToRewardDenom" /\ m.at = Reward /\ m.from = rewardConfig.hub
  /\ SellOffers

(* The exchange.  The sale that follows the simulations pays what was      *)
(* answered; those after it meet a market that has moved, and no minimum   *)
(* is asked for.                                                           *)
Exchange(x, n, paid) ==
  IF x = Lsd
  THEN /\ lsd' = [lsd EXCEPT ![Reward] = @ - n, ![Market] = @ + n]
       /\ held' = [held EXCEPT ![Stable] = @ + paid]
  ELSE held' = [held EXCEPT ![x] = @ - n, ![Stable] = @ + paid] /\ UNCHANGED lsd

RunSell(m) ==
  /\ m.op = "Sell" /\ m.amount <= Held(m.asset)
  /\ m.kind \in Understands[m.at]
  /\ \E paid \in Quotes :
        /\ m.first => paid = m.quotes[m.kind]
        /\ Exchange(m.asset, m.amount, paid)
  /\ Continue(<< >>)
  /\ UNCHANGED unsold

-----------------------------------------------------------------------------
(* Transactions of a single handler.                                       *)

(* UpdateConfig { owner, custody_contract, known_tokens, and an address    *)
(* for each exchange }; None leaves a setting as it is.                    *)
RewardUpdateConfigUnchecked(u, owner, custody, known, exchanges) ==
  /\ u = rewardConfig.owner
  /\ rewardConfig' = [rewardConfig EXCEPT
                        !.owner = Given(owner, @), !.custody = Given(custody, @),
                        !.known = Given(known, @)]
  /\ swapConfig' = [i \in 1 .. DexCount |-> Given(exchanges[i], swapConfig[i])]
  /\ UNCHANGED <<held, lsd, unsold, stack, saved>>
RewardUpdateConfig(u, owner, custody, known, exchanges) ==
  /\ u = rewardConfig.owner
  /\ known # None => IsInjective(known)
  /\ rewardConfig' = [rewardConfig EXCEPT
                        !.owner = Given(owner, @), !.custody = Given(custody, @),
                        !.known = Given(known, @)]
  /\ swapConfig' = [i \in 1 .. DexCount |-> Given(exchanges[i], swapConfig[i])]
  /\ UNCHANGED <<held, lsd, unsold, stack, saved>>

(* ClaimRewards { recipient }, by the custody contract, of all there is.   *)
ClaimRewards(u, recipient) ==
  /\ rewardConfig.custody # None /\ u = rewardConfig.custody
  /\ held[Stable] > 0
  /\ held' = [held EXCEPT ![Stable] = IF recipient = Reward THEN @ ELSE 0]
  /\ UNCHANGED <<lsd, rewardConfigs, unsold, stack, saved>>

(* Anybody may send the contract coins and tokens; at most max of each.    *)
Donate(x, max) ==
  /\ held[x] < max /\ held[Stable] < max
  /\ held' = [held EXCEPT ![x] = @ + 1]
  /\ UNCHANGED <<lsd, rewardConfigs, unsold, stack, saved>>

-----------------------------------------------------------------------------
(* Properties.                                                             *)

(* No exchange that was asked would have paid more for a sale that is      *)
(* queued.                                                                 *)
BestPriceTaken ==
  \A k \in DOMAIN stack : stack[k].op = "Sell" =>
    \A i \in Answered(stack[k].quotes) :
      stack[k].quotes[i] <= stack[k].quotes[stack[k].kind]

(* While sales are queued what they are to sell is all there, and each is  *)
(* for another asset: no sale can take what a later one offers.            *)
SalesDisjoint ==
  \A j, k \in DOMAIN stack :
    stack[j].op = "Sell" /\ stack[k].op = "Sell" =>
      /\ stack[k].amount <= Held(stack[k].asset)
      /\ stack[j].asset = stack[k].asset => j = k
=============================================================================
