---------------------------- MODULE MCCommandBus ----------------------------
(* Instances of CommandBus for TLC.                                        *)
EXTENDS CommandBus, TLC

CONSTANTS c1, c2, k1, k2, w1, w2, w3, j1, j2, key

\* Both requests carry one idempotency key.
OneKey == [c \in Cmd |-> key]
NoKeys == [c \in Cmd |-> NoKey]

\* Goroutine slots are interchangeable.
Slots == Permutations(Worker)
============================================================================
