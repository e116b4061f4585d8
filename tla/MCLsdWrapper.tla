---------------------------- MODULE MCLsdWrapper ----------------------------
(* The instance of LsdWrapper that TLC checks.                             *)
EXTENDS LsdWrapper, TLC

CONSTANTS alice, bob

MCUsers == {alice, bob}
MCRates == {0, 8, 10, 19}
MCEndowment ==
  [a \in MCUsers \cup {Wrapper, Hub} |->
     CASE a = alice -> 3 [] a = bob -> 1 [] OTHER -> 0]
=============================================================================
