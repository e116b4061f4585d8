---------------------------- MODULE DecimalArith ----------------------------
(***************************************************************************)
(* The fixed-point arithmetic of cosmwasm_std that every contract computes *)
(* with.  A Decimal is a natural number of atomics, ONE of them to the     *)
(* unit (10^18 in the library); a Uint128 is a natural number.  Every      *)
(* operation rounds down.  Division by zero and a difference below zero    *)
(* abort the transaction in the code, so an action that divides or         *)
(* subtracts has the corresponding condition among its guards.             *)
(***************************************************************************)
EXTENDS Integers

CONSTANT ONE          \* atomics in the Decimal 1

ASSUME OneAssumption == ONE \in Nat \ {0}

(* Decimal::from_ratio(n, 1) and Decimal::from_ratio(n, d)                 *)
FromInt(n) == n * ONE
FromRatio(n, d) == (n * ONE) \div d

(* Decimal / Decimal and Decimal * Decimal                                 *)
Quo(a, b) == (a * ONE) \div b
Prod(a, b) == (a * b) \div ONE

(* Decimal / Uint128                                                       *)
QuoInt(a, n) == a \div n

(* Decimal * Uint128 and, in particular, Decimal * Uint128::one()          *)
Scale(a, n) == (a * n) \div ONE
Trunc(a) == a \div ONE
=============================================================================
