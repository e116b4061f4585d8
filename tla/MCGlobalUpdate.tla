--------------------------- MODULE MCGlobalUpdate ---------------------------
(* The instances of GlobalUpdate that TLC checks.                          *)
EXTENDS GlobalUpdate, TLC

CONSTANTS alice, admin, other, custody, coin, token, astroport, phoenix, terraswap

CONSTANT Endowment      \* LSD that alice starts with

MCUsers == {alice}
MCEndowment ==
  [a \in {alice, Wrapper, Hub, Reward, Market, Elsewhere} |->
     IF a = alice THEN Endowment ELSE 0]
RightTargets == {Wrapper, Reward}
AnyTargets == {Wrapper, Reward, Elsewhere}
CoinAndStable == <<coin, Stable>>
OnlyStable == <<Stable>>
KnowsLsd == {<<Lsd>>}
KnowsBothOrTwice == {<<token, Lsd>>, <<Lsd, Lsd>>}
KnowsLsdOrBoth == {<<Lsd>>, <<token, Lsd>>, <<Lsd, Lsd>>}
HubOrAlice == {Hub, alice}

(* Routers that understand one kind of operation each, and the settings    *)
(* that move one exchange to another address.                              *)
OneEach == astroport :> {1} @@ phoenix :> {2} @@ terraswap :> {3}
OnlyAstroport == astroport :> {1}
NoMove == [i \in 1 .. DexCount |-> None]
Moves == {NoMove} \cup {[NoMove EXCEPT ![i] = a] : i \in 1 .. DexCount, a \in DexAddresses}
Stay == {NoMove}
=============================================================================
