----------------------------- MODULE CavernHub ------------------------------
(***************************************************************************)
(* contracts/cavern-lsd-hub: the addresses of the wrapper token and of the *)
(* reward contract, and UpdateGlobalIndex, which anybody may send and      *)
(* which makes the first harvest and the second sell.                      *)
(*                                                                         *)
(* MessagesSwapFirst, MessagesHarvestingToHub and IndexUnrecorded are      *)
(* faulty forms of their neighbours, used by no specification, to confirm  *)
(* that the properties notice the faults.                                  *)
(***************************************************************************)
EXTENDS CosmWasm

CONSTANTS
  Hub,             \* the hub's address
  Targets          \* addresses the owner may register with it

VARIABLES
  hubConfig,              \* CONFIG: creator, reward and token contract
  lastIndexModification   \* STATE.last_index_modification, in seconds

hubVars == <<hubConfig, lastIndexModification>>

HubTypeOK ==
  /\ hubConfig \in [creator : Admins, reward : Targets \cup {None},
                    token : Targets \cup {None}]
  /\ lastIndexModification \in Nat

HubInit(seconds) ==
  /\ \E a \in Admins : hubConfig = [creator |-> a, reward |-> None, token |-> None]
  /\ lastIndexModification = seconds

(* The messages the hub sends.                                             *)
Decompound(at, recipient) ==
  [op |-> "Decompound", from |-> Hub, at |-> at, recipient |-> recipient]
SwapToRewardDenom(from, at) ==
  [op |-> "SwapToRewardDenom", from |-> from, at |-> at]

(* What the wrapper token queues in turn.                                  *)
TransferLsd(to, n) == [op |-> "TransferLsd", to |-> to, amount |-> n]

MessagesSwapFirst ==
  <<SwapToRewardDenom(Hub, hubConfig.reward),
    Decompound(hubConfig.token, hubConfig.reward)>>
MessagesHarvestingToHub ==
  <<Decompound(hubConfig.token, Hub), SwapToRewardDenom(Hub, hubConfig.reward)>>
UpdateMessages ==
  <<Decompound(hubConfig.token, hubConfig.reward),
    SwapToRewardDenom(Hub, hubConfig.reward)>>

IndexUnrecorded(seconds) == UNCHANGED lastIndexModification
RecordIndex(seconds) == lastIndexModification' = seconds

(* UpdateGlobalIndex, at a block time of so many seconds.                  *)
UpdateGlobalIndex(seconds, snapshot) ==
  /\ hubConfig.reward # None /\ hubConfig.token # None
  /\ Begin(UpdateMessages, snapshot)
  /\ RecordIndex(seconds)
  /\ UNCHANGED hubConfig

(* UpdateConfig { owner, reward_contract, token_contract }                 *)
HubUpdateConfig(u, owner, reward, token) ==
  /\ u = hubConfig.creator
  /\ hubConfig' = [creator |-> Given(owner, hubConfig.creator),
                   reward |-> Given(reward, hubConfig.reward),
                   token |-> Given(token, hubConfig.token)]
  /\ UNCHANGED <<lastIndexModification, stack, saved>>
=============================================================================
