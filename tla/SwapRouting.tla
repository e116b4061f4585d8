----------------------------- MODULE SwapRouting ----------------------------
(***************************************************************************)
(* How the reward contracts choose where to sell an asset: every exchange  *)
(* is asked to simulate the sale; of those that answer, numbered as they   *)
(* were asked, the one that would pay most is taken, the last of them when *)
(* several would pay the same; an asset nobody would pay for is kept.      *)
(*                                                                         *)
(* BestOfSmallest and BestDexAmongAnswers are faulty forms of their        *)
(* neighbours, used by no specification, to confirm that the properties    *)
(* notice the faults.                                                      *)
(***************************************************************************)
EXTENDS Integers, Sequences

CONSTANTS
  DexCount,     \* how many exchanges there are, Astroport, Phoenix, TerraSwap
  NoQuote       \* the answer of one that does not know the pair, or fails

ASSUME DexAssumption == DexCount \in Nat /\ NoQuote \notin Nat

(* The entries of s that are in T, in their order.                         *)
Keep(s, T) ==
  LET kept[n \in 0 .. Len(s)] ==
        IF n = 0 THEN << >>
        ELSE IF s[n] \in T THEN Append(kept[n - 1], s[n]) ELSE kept[n - 1]
  IN  kept[Len(s)]

(* q[i] is what exchange i, in the order of SwapMessageType, answers.      *)
Answered(q) == {i \in 1 .. DexCount : q[i] # NoQuote}

(* enumerate and filter: those that answered, each with its number.        *)
Answering(q) == Keep([i \in 1 .. DexCount |-> i], Answered(q))

(* max_by_key: the best so far gives way to any that is not below it.      *)
BestOfSmallest(s, q) ==
  LET best[n \in 1 .. Len(s)] ==
        IF n > 1 /\ q[best[n - 1]] < q[s[n]] THEN best[n - 1] ELSE s[n]
  IN  best[Len(s)]
BestOf(s, q) ==
  LET best[n \in 1 .. Len(s)] ==
        IF n > 1 /\ q[best[n - 1]] > q[s[n]] THEN best[n - 1] ELSE s[n]
  IN  best[Len(s)]

(* Were the failures dropped before the exchanges are numbered, the best   *)
(* would be known by its place among the answers.                          *)
BestDexAmongAnswers(q) ==
  CHOOSE n \in DOMAIN Answering(q) : Answering(q)[n] = BestOf(Answering(q), q)
BestDex(q) == BestOf(Answering(q), q)

(* No sale without an answer, nor for a best price of zero.                *)
Sellable(q) == Answering(q) # << >> /\ q[BestOf(Answering(q), q)] > 0
=============================================================================
