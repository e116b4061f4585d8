-------------------------- MODULE MCLimitedUpdate ---------------------------
(* The instances of LimitedUpdate that TLC checks.                         *)
EXTENDS LimitedUpdate, TLC

CONSTANTS alice, admin, custody, coin, token, astroport

CONSTANT Endowment      \* LSD that alice starts with

MCUsers == {alice}
MCEndowment ==
  [a \in {alice, Wrapper, Hub, Reward, Market} |->
     IF a = alice THEN Endowment ELSE 0]
OnlyStable == <<Stable>>
CoinAndStable == <<coin, Stable>>
KnowsToken == {<<token>>, <<token, token>>}
OnlyAstroport == astroport :> {1}
Unlimited == {NoLimit}
Stay == {[i \in 1 .. DexCount |-> None]}
=============================================================================
