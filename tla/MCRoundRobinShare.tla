-------------------------- MODULE MCRoundRobinShare --------------------------
(* An instance of RoundRobinShare with unequal weights. *)
EXTENDS RoundRobinShare

Weights321 == [i \in 0 .. 2 |-> 3 - i]
=============================================================================
