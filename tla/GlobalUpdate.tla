---------------------------- MODULE GlobalUpdate ----------------------------
(***************************************************************************)
(* UpdateGlobalIndex, from the hub's handler through the wrapper token and *)
(* the reward contract to the exchanges, as one transaction: CavernHub,    *)
(* LsdWrapper and RewardContract composed, with the wrapper's users and    *)
(* strangers acting between the transactions.                              *)
(***************************************************************************)
EXTENDS CavernHub, RewardContract, FiniteSets

CONSTANTS
  ONE, Users, Wrapper, Rates, Amounts, MaxUint,   \* as in LsdWrapper
  LsdEndowment,    \* LSD each account starts with
  Elsewhere,       \* an address that has none of the handlers called
  ExchangeUpdates, \* exchange addresses an UpdateConfig may pass
  MaxHeld          \* bound on what strangers send to the reward contract

Accounts == Users \cup {Reward, Market, Elsewhere, Wrapper, Hub}

(* What a transaction may be undone to.                                    *)
Snapshots == [lsd : [Accounts -> Nat], held : [Assets -> Nat], index : Nat]

ASSUME GlobalUpdateAssumption ==
  /\ Wrapper \notin Users \cup {Hub, Reward, Market, Elsewhere}
  /\ Hub \notin Users \cup {Reward, Market, Elsewhere}
  /\ Reward \notin Users \cup {Elsewhere} /\ Market \notin Users
  /\ IsFiniteSet(Users)
  /\ Targets \subseteq {Wrapper, Reward, Elsewhere}
  /\ None \notin Targets \cup Snapshots
  /\ ExchangeUpdates \subseteq [1 .. DexCount -> DexAddresses \cup {None}]
ASSUME GlobalAmountAssumption ==
  /\ ONE \in Nat \ {0} /\ MaxUint \in Nat /\ MaxHeld \in Nat
  /\ Rates \subseteq Nat /\ Amounts \subseteq Nat
  /\ LsdEndowment \in [Accounts -> Nat] /\ LsdEndowment[Reward] = 0

VARIABLES bal, supply, allowance, rate     \* the wrapper token, with lsd

tokenVars == <<bal, supply, allowance, rate>>
configVars == <<hubVars, rewardConfigs>>
vars == <<tokenVars, lsd, configVars, held, stack, saved, unsold>>

W == INSTANCE LsdWrapper
       WITH Users <- Users \cup {Reward, Market, Elsewhere},
            Receivers <- {}, Spenders <- {}, InitialGrants <- {0}, Expiries <- {}

TypeOK ==
  /\ W!TypeOK /\ HubTypeOK /\ RewardTypeOK
  /\ saved = None <=> Idle

-----------------------------------------------------------------------------
(* The wrapper's handler of the hub's message, and the transfer it queues. *)
RunDecompound(m) ==
  LET n == W!LsdRewards(lsd[Wrapper], supply, rate) IN
  /\ m.op = "Decompound" /\ m.at = Wrapper /\ m.from = Hub
  /\ \/ W!Slashed /\ Continue(<< >>)
     \/ /\ ~W!Slashed /\ rate > 0
        /\ W!LunaRewards(lsd[Wrapper], supply, rate) >= 0
        /\ Continue(IF n > 0 THEN <<TransferLsd(m.recipient, n)>> ELSE << >>)
  /\ UNCHANGED <<lsd, held, unsold>>

RunTransferLsd(m) ==
  /\ m.op = "TransferLsd"
  /\ W!PushLsd(m.to, m.amount)
  /\ Continue(<< >>)
  /\ UNCHANGED <<held, unsold>>

Run(m) ==
  \/ RunDecompound(m) \/ RunTransferLsd(m)
  \/ RunSwapToRewardDenom(m) \/ RunSell(m)

(* A message that no handler accepts is rejected: there is none at the     *)
(* address, the sender may not call it, the arithmetic fails, or the       *)
(* amounts are not there.  An exchange may also reject one for reasons of  *)
(* its own, such as a spread that has become too large.                    *)
Rejected(m) == ~ENABLED Run(m)

Abort ==
  /\ Rejected(Head(stack)) \/ Head(stack).op = "Sell"
  /\ Undo
  /\ lsd' = saved.lsd /\ held' = saved.held
  /\ lastIndexModification' = saved.index
  /\ UNCHANGED unsold

TxStep ==
  /\ ~Idle
  /\ \/ Run(Head(stack)) /\ UNCHANGED lastIndexModification
     \/ Abort
  /\ UNCHANGED <<tokenVars, hubConfig, rewardConfigs>>

-----------------------------------------------------------------------------
(* Transactions that begin a tree of messages: anybody may send the hub    *)
(* UpdateGlobalIndex, or the reward contract SwapToRewardDenom.            *)
Snapshot == [lsd |-> lsd, held |-> held, index |-> lastIndexModification]

BeginUpdate ==
  /\ UpdateGlobalIndex(0, Snapshot)
  /\ unsold' = {}
  /\ UNCHANGED <<tokenVars, lsd, rewardConfigs, held>>

BeginSwap(u) ==
  /\ Begin(<<SwapToRewardDenom(u, Reward)>>, Snapshot)
  /\ unsold' = {}
  /\ UNCHANGED <<tokenVars, lsd, configVars, held>>

(* The wrapper's users and the LSD's market.                               *)
WrapperStep ==
  /\ \/ \E u \in Users, n \in Amounts :
           W!Mint(u, u, n) \/ W!MintWith(u, u, n) \/ W!Burn(u, n)
     \/ \E u \in Users, to \in {Wrapper, Reward}, n \in Amounts :
           W!LsdTransfer(u, to, n)
     \/ W!LsdRateChange
  /\ UNCHANGED <<configVars, held, stack, saved, unsold>>

HubConfigStep ==
  /\ \E u \in Admins \cup Users, owner \in Admins \cup {None},
        reward, token \in Targets \cup {None} :
          HubUpdateConfig(u, owner, reward, token)
  /\ UNCHANGED <<tokenVars, lsd, rewardConfigs, held, unsold>>

RewardStep ==
  /\ \/ \E u \in Admins \cup Users, owner \in Admins \cup {None},
           custody \in Custodies \cup {None}, known \in KnownLists \cup {None},
           exchanges \in ExchangeUpdates :
             RewardUpdateConfig(u, owner, custody, known, exchanges)
     \/ \E u \in Custodies \cup Users, recipient \in Users \cup {Reward, None} :
           ClaimRewards(u, recipient)
     \/ \E x \in Assets : Donate(x, MaxHeld)
  /\ UNCHANGED <<tokenVars, hubVars>>

Init == W!Init /\ HubInit(0) /\ RewardInit /\ stack = << >> /\ saved = None

Next ==
  \/ Idle /\ \/ BeginUpdate
             \/ \E u \in Users : BeginSwap(u)
             \/ WrapperStep \/ HubConfigStep \/ RewardStep
  \/ TxStep

(* The chain executes a transaction it has begun to its end.               *)
Spec == Init /\ [][Next]_vars /\ WF_vars(TxStep)

-----------------------------------------------------------------------------
(* Properties.                                                             *)

(* What the rest of the chain sees: the state before the transaction while *)
(* one is being executed.                                                  *)
CommittedLsd == IF Idle THEN lsd ELSE saved.lsd
CommittedHeld == IF Idle THEN held ELSE saved.held

(* Seen from outside, a harvest that passes through the whole message tree *)
(* happens at once or not at all, and never takes what backs the tokens.   *)
Vault == INSTANCE CollateralVault
           WITH assets <- CommittedLsd[Wrapper], claims <- supply, price <- rate
AtomicHarvest == Vault!VSpec

(* And so does the distribution: what leaves the vault other than for      *)
(* burnt tokens is sold or still held by the reward contract, no LSD is    *)
(* lost on the way, and of each asset all is sold or nothing, for pay.     *)
Distribution ==
  INSTANCE RewardDistribution
    WITH Item <- Lsd, vault <- CommittedLsd[Wrapper], claims <- supply,
         sold <- CommittedLsd[Market], total <- SumFunction(CommittedLsd),
         pot <- CommittedHeld[Stable],
         goods <- [x \in (Assets \ {Stable}) \cup {Lsd} |->
                     IF x = Lsd THEN CommittedLsd[Reward] ELSE CommittedHeld[x]]
AtomicDistribution == Distribution!DSpec

(* What handlers compute from the state they query still holds when the    *)
(* messages that carry it run, and each message reaches a handler that     *)
(* understands it: with the contracts registered with one another, none of *)
(* their own messages is rejected but a Decompound for its arithmetic.     *)
QueuedMessagesAccepted ==
  ~Idle /\ hubConfig.reward = Reward /\ rewardConfig.hub = Hub
    /\ Rejected(Head(stack))
  => \/ Head(stack).op = "Decompound"
     \/ Head(stack).op = "SwapToRewardDenom" /\ Head(stack).from # Hub

(* A transaction that commits has sold everything the reward contract held *)
(* or received on the way that some exchange would pay for; a known token  *)
(* that does not answer does not keep the others from being sold.          *)
NothingLeftBehind ==
  [][~Idle /\ Idle' /\ ~Abort /\ hubConfig.reward = Reward =>
       \A x \in (Range(Natives) \cup Range(rewardConfig.known))
                   \ (unsold' \cup Mute \cup {Stable}) :
          (IF x = Lsd THEN lsd'[Reward] ELSE held'[x]) = 0]_vars

(* Every transaction ends: the tree of messages is finite, and every       *)
(* rejection undoes it.                                                    *)
EveryTransactionEnds == ~Idle ~> Idle
=============================================================================
