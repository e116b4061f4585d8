--------------------------- MODULE LimitedUpdate ----------------------------
(***************************************************************************)
(* UpdateGlobalIndex for an LSD that is a staked liquidity position:       *)
(* CavernHub, the wrapper token with a limit and the reward contract that  *)
(* takes the LSD apart, composed as in GlobalUpdate, with the adapters of  *)
(* contracts/amp-lp-wrapper and contracts/spectrum-wrapper.  What an LSD   *)
(* is worth follows from what the staking protocol holds, so that the      *)
(* unbonding of an update changes it in the middle of the transaction, and *)
(* block time passes between transactions.                                 *)
(***************************************************************************)
EXTENDS CavernHub, CustomReward, FiniteSets

CONSTANTS
  ONE, Users, Wrapper, Amounts, MaxUint,            \* as in LsdWrapperLimit
  LsdEndowment, NoLimit, Limits, YEAR, TicksPerSecond, MaxTime,
  TotalLp,         \* liquidity tokens bonded at first
  MaxLp,           \* bound on what is ever bonded
  Losses,          \* liquidity tokens the protocol may lose at once
  ExchangeUpdates, \* exchange addresses an UpdateConfig may pass
  MaxHeld          \* bound on what strangers send to the reward contract

Accounts == Users \cup {Reward, Market, Wrapper, Hub}

(* What a transaction may be undone to.                                    *)
Snapshots ==
  [lsd : [Accounts -> Nat], held : [Assets -> Nat], totalLp : Nat,
   limit : Limits \X Nat \X Nat \X Nat \X Nat, index : Nat]

ASSUME LimitedUpdateAssumption ==
  /\ Wrapper \notin Users \cup {Hub, Reward, Market}
  /\ Hub \notin Users \cup {Reward, Market}
  /\ Reward \notin Users /\ Market \notin Users /\ IsFiniteSet(Users)
  /\ Targets = {Wrapper, Reward}
  /\ None \notin Targets \cup Snapshots
  /\ ExchangeUpdates \subseteq [1 .. DexCount -> DexAddresses \cup {None}]
ASSUME LimitedAmountAssumption ==
  /\ ONE \in Nat \ {0} /\ MaxUint \in Nat /\ Amounts \subseteq Nat
  /\ LsdEndowment \in [Accounts -> Nat] /\ LsdEndowment[Reward] = 0
  /\ NoLimit \notin Nat /\ Limits \subseteq Nat \cup {NoLimit}
  /\ YEAR \in Nat \ {0} /\ TicksPerSecond \in Nat \ {0} /\ MaxTime \in Nat
  /\ TotalLp \in Nat /\ MaxLp \in Nat /\ MaxHeld \in Nat /\ Losses \subseteq Nat

VARIABLES
  bal, supply, allowance, now,                           \* the wrapper token
  maxRatio, ratioSum, totalSeconds, lastDecompound, startTime

limitVars == <<maxRatio, ratioSum, totalSeconds, lastDecompound, startTime>>
tokenVars == <<bal, supply, allowance>>
configVars == <<hubConfig, rewardConfigs>>
txVars == <<stack, saved, unsold>>
vars == <<tokenVars, limitVars, now, lsd, totalLp, held, configVars,
          lastIndexModification, txVars>>

-----------------------------------------------------------------------------
(* query_exchange_rate of the two adapters: liquidity tokens per LSD.  The *)
(* Eris hub answers one when there is no LSD; the division by the shares   *)
(* of an empty Spectrum farm fails.                                        *)
Rate == IF Shares = 0 THEN ONE ELSE (totalLp * ONE) \div Shares
RateQuoted == Retrieval = "amp_lp" \/ Shares > 0

W == INSTANCE LsdWrapperLimit
       WITH Users <- Users \cup {Reward, Market}, Rates <- Nat, rate <- Rate,
            Receivers <- {}, Spenders <- {}, InitialGrants <- {0}, Expiries <- {}

TypeOK ==
  /\ totalLp \in Nat
  /\ W!TypeOK /\ HubTypeOK /\ RewardTypeOK
  /\ saved = None <=> Idle

-----------------------------------------------------------------------------
(* The wrapper's handler of the hub's message, and the transfer it queues. *)
RunDecompound(m) ==
  LET n == W!LsdRewards(lsd[Wrapper], supply, Rate) IN
  /\ m.op = "Decompound" /\ m.at = Wrapper /\ m.from = Hub
  /\ RateQuoted
  /\ \/ W!Slashed /\ Continue(<< >>) /\ UNCHANGED limitVars
     \/ /\ W!RecordHarvest
        /\ Continue(IF n > 0 THEN <<TransferLsd(m.recipient, n)>> ELSE << >>)
  /\ UNCHANGED <<lsd, held, totalLp, unsold>>

RunTransferLsd(m) ==
  /\ m.op = "TransferLsd"
  /\ W!PushLsd(m.to, m.amount)
  /\ Continue(<< >>)
  /\ UNCHANGED <<held, totalLp, unsold, limitVars>>

RunReward(m) ==
  /\ \/ RunRetrieve(m) \/ RunReply(m) \/ RunUnbond(m) \/ RunWithdrawLiquidity(m)
     \/ RunSell(m) /\ UNCHANGED totalLp
  /\ UNCHANGED limitVars

Run(m) == RunDecompound(m) \/ RunTransferLsd(m) \/ RunReward(m)

(* A message that no handler accepts is rejected, and protocols outside    *)
(* may reject one for reasons of their own.                                *)
Rejected(m) == ~ENABLED Run(m)
Outside(m) == m.op \in {"Unbond", "WithdrawLiquidity", "Sell"}

Snapshot ==
  [lsd |-> lsd, held |-> held, totalLp |-> totalLp, limit |-> limitVars,
   index |-> lastIndexModification]

Abort ==
  /\ Rejected(Head(stack)) \/ Outside(Head(stack))
  /\ Undo
  /\ lsd' = saved.lsd /\ held' = saved.held /\ totalLp' = saved.totalLp
  /\ maxRatio' = saved.limit[1] /\ ratioSum' = saved.limit[2]
  /\ totalSeconds' = saved.limit[3] /\ lastDecompound' = saved.limit[4]
  /\ startTime' = saved.limit[5]
  /\ lastIndexModification' = saved.index
  /\ UNCHANGED unsold

TxStep ==
  /\ ~Idle
  /\ \/ Run(Head(stack)) /\ UNCHANGED lastIndexModification
     \/ Abort
  /\ UNCHANGED <<tokenVars, now, configVars>>

-----------------------------------------------------------------------------
(* Between transactions.                                                   *)
BeginUpdate ==
  /\ UpdateGlobalIndex(W!Seconds(now), Snapshot)
  /\ unsold' = {}
  /\ UNCHANGED <<tokenVars, limitVars, now, lsd, totalLp, held, rewardConfigs>>

WrapperStep ==
  /\ UNCHANGED <<totalLp, configVars, lastIndexModification, held, txVars>>
  /\ \/ \E u \in Users, n \in Amounts :
           W!Mint(u, u, n) \/ W!MintWith(u, u, n) \/ W!Burn(u, n)
     \/ /\ \E u \in Users, to \in {Wrapper, Reward}, n \in Amounts :
              W!LsdTransfer(u, to, n)
        /\ UNCHANGED <<now, limitVars>>
     \/ W!Tick

(* The staking protocol: users take LSD apart for themselves, and what is  *)
(* bonded earns, or loses.                                                 *)
UnbondOwn(u, n) ==
  /\ n <= lsd[u]
  /\ totalLp' = totalLp - LpFor(n)
  /\ lsd' = [lsd EXCEPT ![u] = @ - n]
Earn == totalLp < MaxLp /\ totalLp' = totalLp + 1 /\ UNCHANGED lsd
Lose(n) == n <= totalLp /\ totalLp' = totalLp - n /\ UNCHANGED lsd

ProtocolStep ==
  /\ \/ \E u \in Users, n \in Amounts : UnbondOwn(u, n)
     \/ Earn
     \/ \E n \in Losses : Lose(n)
  /\ UNCHANGED <<tokenVars, limitVars, now, held, configVars,
                 lastIndexModification, txVars>>

ConfigStep ==
  /\ \E u \in Admins \cup Users, owner \in Admins \cup {None},
        reward \in {Reward, None}, token \in {Wrapper, None} :
          HubUpdateConfig(u, owner, reward, token)
  /\ UNCHANGED <<tokenVars, limitVars, now, lsd, totalLp, held, rewardConfigs, unsold>>

RewardStep ==
  /\ \/ \E u \in Admins \cup Users, owner \in Admins \cup {None},
           custody \in Custodies \cup {None}, known \in KnownLists \cup {None},
           exchanges \in ExchangeUpdates :
             RewardUpdateConfig(u, owner, custody, known, exchanges)
     \/ \E u \in Custodies \cup Users, recipient \in Users \cup {Reward, None} :
           ClaimRewards(u, recipient)
     \/ \E x \in Assets : Donate(x, MaxHeld)
  /\ UNCHANGED <<tokenVars, limitVars, now, totalLp, hubVars>>

(* The hub is there before the token, which is instantiated with its       *)
(* address.                                                                *)
Init ==
  /\ totalLp = TotalLp
  /\ W!Init
  /\ \E s \in 0 .. W!Seconds(startTime) : HubInit(s)
  /\ RewardInit
  /\ stack = << >> /\ saved = None

Next ==
  \/ Idle /\ (BeginUpdate \/ WrapperStep \/ ProtocolStep \/ ConfigStep \/ RewardStep)
  \/ TxStep

Spec == Init /\ [][Next]_vars /\ WF_vars(TxStep)

-----------------------------------------------------------------------------
(* Properties.                                                             *)

(* What the rest of the chain sees: the state before the transaction while *)
(* one is being executed.                                                  *)
CommittedLsd == IF Idle THEN lsd ELSE saved.lsd
CommittedHeld == IF Idle THEN held ELSE saved.held
CommittedTotalLp == IF Idle THEN totalLp ELSE saved.totalLp
CommittedIndex == IF Idle THEN lastIndexModification ELSE saved.index
CommittedDecompound == IF Idle THEN lastDecompound ELSE saved.limit[4]

Committing == ~Idle /\ Idle' /\ ~Abort

(* Seen from outside the distribution happens at once or not at all: what  *)
(* leaves the vault other than for burnt tokens is unbonded for all it is  *)
(* worth, and of each asset, what it is taken apart into included, all is  *)
(* sold or nothing, for pay, and nothing is lost on the way.               *)
Distribution ==
  INSTANCE StakedDistribution
    WITH Item <- Lsd, Pair <- PairAssets, Denom <- Stable,
         vault <- CommittedLsd[Wrapper], claims <- supply,
         sold <- CommittedLsd[Market], total <- SumFunction(CommittedLsd),
         pot <- CommittedHeld[Stable], bonded <- CommittedTotalLp,
         goods <- [x \in (Assets \ {Stable}) \cup {Lsd} |->
                     IF x = Lsd THEN CommittedLsd[Reward] ELSE CommittedHeld[x]]
AtomicDistribution == Distribution!SSpec

(* What handlers compute from the state they query still holds when the    *)
(* messages that carry it run: with the contracts registered with one      *)
(* another, none of their own messages is rejected but a Decompound, which *)
(* the limit, the clock or an empty vault may make fail.                   *)
QueuedMessagesAccepted ==
  ~Idle /\ hubConfig.reward = Reward /\ rewardConfig.hub = Hub
    /\ Rejected(Head(stack))
  => Head(stack).op = "Decompound"

(* A transaction that commits has left the reward contract no LSD that     *)
(* could still be unbonded, and nothing that some exchange would pay for,  *)
(* what the liquidity tokens were withdrawn to included.                   *)
NothingLeftBehind ==
  [][Committing /\ hubConfig.reward = Reward =>
       /\ \A x \in (Range(Natives) \cup Range(rewardConfig.known))
                      \ (unsold' \cup Mute \cup {Stable}) :
             (IF x = Lsd THEN lsd'[Reward] ELSE held'[x]) = 0
       /\ LpFor(lsd[Reward])' = 0]_vars

(* An update that took something from the vault leaves one Luna behind     *)
(* each token, after all that it did to the rate as well.                  *)
UpdateKeepsCover ==
  [][Committing /\ lsd'[Wrapper] < saved.lsd[Wrapper] =>
       lsd'[Wrapper] * Rate' >= supply * ONE]_vars

(* The hub's record of the last update is never behind the wrapper's of    *)
(* its last harvest, whichever part of an update fails.                    *)
ClocksAgree ==
  \/ CommittedDecompound = startTime
  \/ W!Seconds(CommittedDecompound) <= CommittedIndex

(* Every transaction ends: the tree of messages, replies included, is      *)
(* finite, and every rejection undoes it.                                  *)
EveryTransactionEnds == ~Idle ~> Idle
=============================================================================
