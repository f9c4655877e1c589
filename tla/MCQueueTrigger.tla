--------------------------- MODULE MCQueueTrigger ---------------------------
(* QueueTrigger on a small instance: an order, and a message for each way  *)
(* not to be one: with a body that does not parse, with none, with a header*)
(* that has no value. The first of them has the order's key and so its id. *)
EXTENDS QueueTrigger

CONSTANTS order, garbled, empty, broken

MCMessages == {order, garbled, empty, broken}
MCIds == {order, empty, broken}
MCIdOf == [m \in Messages |-> IF m = garbled THEN order ELSE m]

(* What the settling of two messages with ids of their own needs.          *)
MCSettled == {order, garbled}
MCOwnId == [m \in Messages |-> m]

MCUnparsable == {garbled} \cap Messages
MCBreaking == {empty} \cap Messages
MCUnreadable == {broken} \cap Messages
=============================================================================
