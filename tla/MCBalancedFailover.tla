------------------------- MODULE MCBalancedFailover -------------------------
(* Small endpoints: two peers, on the ring a virtual node each.             *)
EXTENDS BalancedFailover

Weights21 == [i \in 0 .. 1 |-> 2 - i]

RingAB == [d \in 0 .. 1 |-> d]

(* Only the first connection uses the hash balancer: IpHashCalls has that   *)
(* balancer's interleavings, for three threads.                             *)
First == CHOOSE c \in Conn : TRUE

MCNext == /\ BalancedNext
          /\ strategy = "iphash" => \A c \in Conn \ {First} : pc'[c] = "idle"

(* BalancedFairSpec's fairness in a form that is quick to check: but for the*)
(* hash balancer, a task that selects or dials can always take its next     *)
(* step, and each of these steps moves it on.                               *)
MCSpec == /\ BalancedInit /\ [][MCNext]_allVars
          /\ WF_allVars(Elapse)
          /\ \A c \in Conn : \/ []<>(pc[c] \notin {"select", "connect"})
                             \/ []<><<pc'[c] # pc[c]>>_pc
=============================================================================
