---------------------------- MODULE MCCoinWrapper ---------------------------
(* The instances of CoinWrapper that TLC checks.                           *)
EXTENDS CoinWrapper, TLC

CONSTANTS alice, bob

OneUser == {alice}
TwoUsers == {alice, bob}
MCEndowment ==
  [a \in Accounts |-> IF a = alice THEN 3 ELSE 0]
=============================================================================
