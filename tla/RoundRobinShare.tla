-------------------------- MODULE RoundRobinShare --------------------------
(***************************************************************************)
(* RoundRobin with a history variable: served[i] counts how often next()   *)
(* returned i in the present calm stretch, one in which every node is      *)
(* healthy and has its configured weight.  A disturbance, or MaxStretch    *)
(* picks, start a new count.                                               *)
(***************************************************************************)
EXTENDS RoundRobin

CONSTANT MaxStretch

ASSUME MaxStretchAssumption == MaxStretch \in Nat

VARIABLE served

shareVars == <<vars, served>>

Calm == \A i \in Node : ew[i] = Weight[i] /\ ~Unhealthy(i)

None == [i \in Node |-> 0]

ShareInit == Init /\ served = None

Serve == /\ NextCall
         /\ Calm
         /\ LET count == IF Sum(served) < MaxStretch THEN served ELSE None
            IN  served' = [count EXCEPT ![pick'] = @ + 1]

Recover == /\ NextCall
           /\ ~Calm
           /\ served' = None

Report == /\ \/ \E i \in Node : OnSuccess(i) \/ OnFailure(i)
             \/ Tick
          /\ served' = IF Calm /\ Calm' THEN served ELSE None

ShareSpec == ShareInit /\ [][Serve \/ Recover \/ Report]_shareVars

(* Connections keep arriving and time keeps passing; reports are the       *)
(* callers' business and nothing is assumed of them.                       *)
ShareFairSpec == ShareSpec /\ WF_vars(NextCall) /\ WF_vars(Tick)

(* After any history of failures and recoveries, once the nodes are all    *)
(* healthy at full weight, each is served in proportion to its weight at   *)
(* every point of the stretch, but for what it owed or was owed at the     *)
(* start of it and owes now (round_robin.rs:89-136).                       *)
FairShare ==
  \A i \in Node :
    Sum(Weight) * served[i] - Sum(served) * Weight[i] \in -(2 * Limit) .. 2 * Limit
=============================================================================
