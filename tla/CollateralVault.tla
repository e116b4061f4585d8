-------------------------- MODULE CollateralVault --------------------------
(***************************************************************************)
(* What a wrapper token promises, without saying how: a vault of assets    *)
(* whose price moves, and claims of one unit of value each against it.     *)
(* Claims are issued only against at least their value and redeemed for at *)
(* most their value, and the harvest of what the assets have earned never  *)
(* reaches into the value that backs the claims.                           *)
(***************************************************************************)
EXTENDS DecimalArith

VARIABLES
  assets,    \* units of the asset in the vault
  claims,    \* claims issued against it
  price      \* value of one asset, a Decimal

vvars == <<assets, claims, price>>

(* The assets are worth at least one unit of value per claim.              *)
Covered == assets * price >= claims * ONE

VInit == assets \in Nat /\ claims \in Nat /\ price \in Nat

(* Somebody pays assets in and receives claims, none for a gift.           *)
Deposit ==
  /\ assets' \in Nat /\ claims' \in Nat
  /\ assets' >= assets
  /\ claims' >= claims
  /\ (assets' - assets) * price >= (claims' - claims) * ONE
  /\ UNCHANGED price

(* Somebody gives claims up and receives assets.                           *)
Redeem ==
  /\ assets' \in Nat /\ claims' \in Nat
  /\ assets' <= assets
  /\ claims' <= claims
  /\ (assets - assets') * price <= (claims - claims') * ONE
  /\ UNCHANGED price

(* What the assets have earned is taken out.                               *)
Harvest ==
  /\ assets' \in Nat
  /\ assets' <= assets
  /\ assets' * price >= claims * ONE
  /\ UNCHANGED <<claims, price>>

(* The market, or the validators, change what an asset is worth.           *)
Revalue ==
  /\ price' \in Nat
  /\ UNCHANGED <<assets, claims>>

VNext == Deposit \/ Redeem \/ Harvest \/ Revalue

VSpec == VInit /\ [][VNext]_vvars

(* A vault that covers its claims stops covering them only when the price  *)
(* falls: no deposit, redemption or harvest can do it.                     *)
CoverLostOnlyByPrice ==
  [][Covered /\ price' >= price => Covered']_vvars
=============================================================================
