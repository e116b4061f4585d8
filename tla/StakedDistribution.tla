------------------------- MODULE StakedDistribution -------------------------
(***************************************************************************)
(* RewardDistribution for an LSD that is a share of bonded liquidity       *)
(* tokens.  An update first unbonds what its LSD are worth and withdraws   *)
(* the pair's assets for it, as much of each as of liquidity tokens; what  *)
(* it then has of each asset it sells as a whole or keeps as a whole.  LSD *)
(* disappears only for liquidity tokens of its worth.                      *)
(***************************************************************************)
EXTENDS RewardDistribution

CONSTANTS
  Lp,          \* the liquidity token, one of the goods
  Pair,        \* what liquidity tokens are withdrawn to
  Denom        \* what the pot is filled with, perhaps one of the pair

VARIABLE bonded      \* liquidity tokens that all the LSD together stand for

svars == <<dvars, bonded>>

SInit == DInit /\ bonded \in Nat

(* Liquidity tokens that n LSD are worth, rounded down.                    *)
Worth(n) == IF total = 0 THEN 0 ELSE (n * bonded) \div total

(* The protocol earns and loses, and holders unbond their own LSD.         *)
Yield == bonded' \in Nat /\ UNCHANGED dvars
Leave ==
  /\ total' <= total
  /\ bonded' = bonded - Worth(total - total')
  /\ UNCHANGED <<vault, claims, goods, sold, pot>>

(* What an update has unbonded, with how much LSD, and what it has to sell *)
(* once it has withdrawn w liquidity tokens from the pair.                 *)
Unbonded == bonded - bonded'
Burnt == total - total'
Stock(x, w) ==
  CASE x = Item -> Available(Item) - Burnt
    [] x = Lp -> goods[Lp] + Unbonded - w
    [] x \in Pair -> goods[x] + w
    [] OTHER -> goods[x]

(* All that is harvested, and the LSD held, is unbonded, but for what is   *)
(* worth less than a liquidity token.                                      *)
Unbonding ==
  /\ Unbonded = Worth(Available(Item))
  /\ Burnt \in 0 .. Available(Item)
  /\ \/ Burnt = Available(Item)
     \/ (Available(Item) - Burnt) * bonded' < total'

StakedUpdate ==
  /\ vault' <= vault
  /\ Unbonding
  /\ DOMAIN goods' = DOMAIN goods
  /\ \E w \in {Unbonded, Unbonded + goods[Lp]} :
       LET earned == pot' - pot - (IF Denom \in Pair THEN w ELSE 0)
       IN  /\ \A x \in DOMAIN goods : goods'[x] \in {0, Stock(x, w)}
           /\ earned >= 0
           /\ earned > 0 <=> \E x \in DOMAIN goods : goods'[x] < Stock(x, w)
  /\ sold' = sold + (Available(Item) - Burnt) - goods'[Item]
  /\ UNCHANGED claims

SNext ==
  \/ (Trade \/ Gift \/ Claim) /\ UNCHANGED bonded
  \/ Yield \/ Leave \/ StakedUpdate

SSpec == SInit /\ [][SNext]_svars
=============================================================================
