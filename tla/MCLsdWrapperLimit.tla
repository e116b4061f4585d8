-------------------------- MODULE MCLsdWrapperLimit --------------------------
(* The instances of LsdWrapperLimit that TLC checks.                       *)
EXTENDS LsdWrapperLimit, TLC

CONSTANTS alice, bob

OneUser == {alice}
TwoUsers == {alice, bob}

CONSTANT Endowment    \* LSD that alice starts with

MCEndowment == [a \in Accounts |-> IF a = alice THEN Endowment ELSE 0]
=============================================================================
