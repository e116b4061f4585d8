------------------------------ MODULE CosmWasm ------------------------------
(***************************************************************************)
(* How the chain runs the contracts.  A transaction is a tree of messages: *)
(* a handler queues messages with the amounts it has found, and they run   *)
(* later, depth first, each followed by the messages it queued itself.     *)
(* When any of them is rejected the whole transaction is undone.  Only one *)
(* transaction is executed at a time.                                      *)
(*                                                                         *)
(* GivenOrCleared is a faulty form of its neighbour, used by no            *)
(* specification, to confirm that the properties notice the fault.         *)
(***************************************************************************)
EXTENDS Sequences, Integers

CONSTANTS
  None,       \* an Option that is not given
  Admins      \* accounts that may own the hub and the reward contract

VARIABLES
  stack,      \* messages to execute, << >> between transactions
  saved       \* the state the transaction will be undone to

Idle == stack = << >>

Begin(msgs, snapshot) == Idle /\ stack' = msgs /\ saved' = snapshot

(* The handler of the message on top returns msgs, which run before what   *)
(* is queued already.                                                      *)
Continue(msgs) ==
  /\ stack' = msgs \o Tail(stack)
  /\ saved' = IF msgs \o Tail(stack) = << >> THEN None ELSE saved

Undo == stack' = << >> /\ saved' = None

(* A field of an UpdateConfig message; None leaves the setting as it is.   *)
GivenOrCleared(new, old) == new
Given(new, old) == IF new = None THEN old ELSE new
=============================================================================
