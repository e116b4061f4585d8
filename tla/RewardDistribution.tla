------------------------- MODULE RewardDistribution -------------------------
(***************************************************************************)
(* What the hub, a wrapper token and a reward contract promise together,   *)
(* without messages.  The LSD of the vault leaves it in exchange for       *)
(* claims, or by an update; an update takes it to the goods the reward     *)
(* contract holds, and sells of each of these all there is or nothing, the *)
(* LSD to the market, so that none of it is lost on the way; and the pot   *)
(* that the sales fill is only ever claimed as a whole.                    *)
(***************************************************************************)
EXTENDS Integers, Functions

CONSTANT Item    \* the LSD, as one of the goods

VARIABLES
  vault,       \* LSD that backs the wrapper token
  claims,      \* wrapper tokens
  goods,       \* what the reward contract holds, but for the pot
  sold,        \* LSD that the market has
  total,       \* LSD of all accounts
  pot          \* rewards that can be claimed

dvars == <<vault, claims, goods, sold, total, pot>>

DInit ==
  /\ vault \in Nat /\ claims \in Nat /\ sold \in Nat /\ total \in Nat
  /\ pot = 0 /\ \A x \in DOMAIN goods : goods[x] = 0

(* Mints, burns, and LSD sent to the vault.                                *)
Trade ==
  /\ vault' \in Nat /\ claims' \in Nat
  /\ vault' < vault => claims' < claims
  /\ UNCHANGED <<goods, sold, total, pot>>

(* Somebody sends something to the reward contract.                        *)
Gift ==
  /\ DOMAIN goods' = DOMAIN goods
  /\ \A x \in DOMAIN goods : goods'[x] >= goods[x]
  /\ pot' >= pot
  /\ UNCHANGED <<vault, claims, sold, total>>

(* What there is to sell of x once the vault has given up its rewards.     *)
Available(x) == goods[x] + (IF x = Item THEN vault - vault' ELSE 0)

Update ==
  /\ vault' <= vault
  /\ DOMAIN goods' = DOMAIN goods
  /\ \A x \in DOMAIN goods : goods'[x] \in {0, Available(x)}
  /\ sold' = sold + Available(Item) - goods'[Item]
  /\ pot' >= pot
  /\ pot' > pot <=> \E x \in DOMAIN goods : goods'[x] < Available(x)
  /\ UNCHANGED <<claims, total>>

Claim == pot' = 0 /\ UNCHANGED <<vault, claims, goods, sold, total>>

DNext == Trade \/ Gift \/ Update \/ Claim

DSpec == DInit /\ [][DNext]_dvars
=============================================================================
