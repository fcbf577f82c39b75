----------------------------- MODULE RoundRobin -----------------------------
(***************************************************************************)
(* The smooth weighted round-robin balancer of                             *)
(* bytehub_lb/src/round_robin.rs: one action per call of the Balance trait *)
(* plus the passing of time.  Every call runs under the mutex around the   *)
(* node table, so a call is one step; only `now' in next() is read before  *)
(* the mutex is taken, and may be up to MaxLag seconds old.                *)
(*                                                                         *)
(* Time is relative: left[i] is "checked - now" in seconds, and a `checked'*)
(* of zero (or any instant further back than a stale clock can see) is     *)
(* Past.  Only 'fails >= max_fails' is ever asked of the failure counter,  *)
(* so it saturates at MaxFails.                                            *)
(***************************************************************************)
EXTENDS Integers

CONSTANTS N,            \* number of peers; below two the balancer keeps no nodes
          Weight,       \* configured weight of each peer
          HealthCheck,  \* is a HealthCheckConfig present?
          MaxFails,     \* HealthCheckConfig.max_fails
          FailTimeout,  \* HealthCheckConfig.fail_timeout_secs
          MaxLag        \* bound on the age of the clock value next() works with

Node == 0 .. N - 1

ASSUME NAssumption       == N \in Nat /\ N >= 2
ASSUME WeightAssumption  == Weight \in [Node -> 0 .. 255]
ASSUME HealthAssumption  == /\ HealthCheck \in BOOLEAN
                            /\ MaxFails \in Nat
                            /\ FailTimeout \in Nat
ASSUME MaxLagAssumption  == MaxLag \in Nat

(* The i16 of `cw' and of the total holds the numbers below for as many as *)
(* 128 peers of any weight (round_robin.rs:85,107,136); tokens go to 255.  *)
ASSUME WidthAssumption   == N <= 128

VARIABLES cw,     \* current weight of each node
          ew,     \* effective weight of each node
          fails,  \* consecutive failures, saturated at MaxFails
          left,   \* seconds until the exclusion window closes
          pick    \* the token the last next() returned

health == <<fails, left>>
vars   == <<cw, ew, fails, left, pick>>

Past   == -MaxLag
NoPick == -1

(* The sum of an integer function over the nodes, added up in the order of *)
(* the loop over them.                                                     *)
Prefix(f) ==
  LET upTo[k \in 0 .. N] == IF k = 0 THEN 0 ELSE upTo[k - 1] + f[k - 1]
  IN  upTo
Sum(f) == Prefix(f)[N]

Init == /\ cw = [i \in Node |-> 0]
        /\ ew = Weight
        /\ fails = [i \in Node |-> 0]
        /\ left = [i \in Node |-> Past]
        /\ pick = NoPick

(* A node whose failures reached the limit and whose window, seen by a    *)
(* clock that is `lag' seconds old, is still open.                        *)
Unhealthy(i)     == HealthCheck /\ fails[i] >= MaxFails
Excluded(i, lag) == Unhealthy(i) /\ left[i] + lag > 0
(* A mutant of Eligible: when all are excluded, all are let in again. *)
EligibleOrAll(lag) == IF \A i \in Node : Excluded(i, lag)
                        THEN Node ELSE {i \in Node : ~Excluded(i, lag)}
Eligible(lag)    == {i \in Node : ~Excluded(i, lag)}

(* Mutants of NextPeer: excluded nodes are counted in the total that the  *)
(* chosen one pays, ...                                                   *)
NextPeerPaysForAll(lag) ==
  LET E      == Eligible(lag)
      raised == [i \in Node |-> cw[i] + IF i \in E THEN ew[i] ELSE 0]
  IN  /\ \E best \in E :
           /\ \A j \in E : raised[j] < raised[best] \/ (raised[j] = raised[best] /\ best <= j)
           /\ cw' = [raised EXCEPT ![best] = @ - Sum(ew)]
           /\ ew' = [ew EXCEPT ![best] = IF @ < Weight[best] THEN @ + 1 ELSE @]
           /\ pick' = best
      /\ fails' = [i \in Node |-> IF i \in E /\ Unhealthy(i) THEN 0 ELSE fails[i]]
      /\ left'  = [i \in Node |-> IF i \in E /\ Unhealthy(i) THEN Past ELSE left[i]]

(* ... or the lightest is chosen. *)
NextPeerLightest(lag) ==
  LET E      == Eligible(lag)
      gain   == [i \in Node |-> IF i \in E THEN ew[i] ELSE 0]
      raised == [i \in Node |-> cw[i] + gain[i]]
  IN  /\ \E best \in E :
           /\ \A j \in E : raised[best] < raised[j] \/ (raised[j] = raised[best] /\ best <= j)
           /\ cw' = [raised EXCEPT ![best] = @ - Sum(gain)]
           /\ ew' = [ew EXCEPT ![best] = IF @ < Weight[best] THEN @ + 1 ELSE @]
           /\ pick' = best
      /\ fails' = [i \in Node |-> IF i \in E /\ Unhealthy(i) THEN 0 ELSE fails[i]]
      /\ left'  = [i \in Node |-> IF i \in E /\ Unhealthy(i) THEN Past ELSE left[i]]

(* next(), some node eligible: expired nodes recover, every eligible node *)
(* gains its effective weight, the first of the heaviest pays the total   *)
(* back and climbs one step towards its configured weight.                *)
NextPeer(lag) ==
  LET E      == Eligible(lag)
      gain   == [i \in Node |-> IF i \in E THEN ew[i] ELSE 0]
      raised == [i \in Node |-> cw[i] + gain[i]]
  IN  /\ \E best \in E :
           /\ \A j \in E : \/ raised[j] < raised[best]
                           \/ raised[j] = raised[best] /\ best <= j
           /\ cw' = [raised EXCEPT ![best] = @ - Sum(gain)]
           /\ ew' = [ew EXCEPT ![best] = IF @ < Weight[best] THEN @ + 1 ELSE @]
           /\ pick' = best
      /\ fails' = [i \in Node |-> IF i \in E /\ Unhealthy(i) THEN 0 ELSE fails[i]]
      /\ left'  = [i \in Node |-> IF i \in E /\ Unhealthy(i) THEN Past ELSE left[i]]

(* Mutants of NextFallback: always the first node, ... *)
NextFallbackFirst(lag) ==
  /\ Eligible(lag) = {}
  /\ pick' = 0
  /\ UNCHANGED <<cw, ew, health>>

(* ... or tokens counted from one. *)
NextFallbackShifted(lag) ==
  /\ Eligible(lag) = {}
  /\ \E nearest \in Node : /\ \A j \in Node : left[nearest] <= left[j]
                           /\ pick' = nearest + 1
  /\ UNCHANGED <<cw, ew, health>>

(* next(), every node inside its window: the first of those closest to    *)
(* recovery, and no state changes.                                        *)
NextFallback(lag) ==
  /\ Eligible(lag) = {}
  /\ \E nearest \in Node :
       /\ \A j \in Node : \/ left[nearest] < left[j]
                          \/ left[nearest] = left[j] /\ nearest <= j
       /\ pick' = nearest
  /\ UNCHANGED <<cw, ew, health>>

NextCall == \E lag \in 0 .. MaxLag : NextPeer(lag) \/ NextFallback(lag)

(* A mutant of OnSuccess: the window is left as it is. *)
OnSuccessKeepsWindow(i) ==
  /\ HealthCheck
  /\ fails' = [fails EXCEPT ![i] = 0]
  /\ UNCHANGED <<cw, ew, left, pick>>

(* Both reports return at once without a health configuration. *)
OnSuccess(i) ==
  /\ HealthCheck
  /\ fails' = [fails EXCEPT ![i] = 0]
  /\ left'  = [left EXCEPT ![i] = Past]
  /\ UNCHANGED <<cw, ew, pick>>

(* Mutants of OnFailure: every failure beyond the limit opens the window  *)
(* afresh, ...                                                            *)
OnFailureRefreshes(i) ==
  /\ HealthCheck
  /\ fails' = [fails EXCEPT ![i] = IF @ < MaxFails THEN @ + 1 ELSE @]
  /\ left'  = [left EXCEPT ![i] = IF fails[i] + 1 >= MaxFails THEN FailTimeout ELSE @]
  /\ ew'    = [ew EXCEPT ![i] = IF fails[i] + 1 >= MaxFails THEN 1 ELSE @]
  /\ UNCHANGED <<cw, pick>>

(* ... or the weight is halved instead of set to one. *)
OnFailureHalves(i) ==
  /\ HealthCheck
  /\ fails' = [fails EXCEPT ![i] = IF @ < MaxFails THEN @ + 1 ELSE @]
  /\ left'  = [left EXCEPT ![i] = IF fails[i] < MaxFails /\ fails[i] + 1 >= MaxFails
                                    THEN FailTimeout ELSE @]
  /\ ew'    = [ew EXCEPT ![i] = IF fails[i] + 1 >= MaxFails THEN @ \div 2 ELSE @]
  /\ UNCHANGED <<cw, pick>>

(* The window opens on the failure that reaches the limit, and only then. *)
OnFailure(i) ==
  /\ HealthCheck
  /\ fails' = [fails EXCEPT ![i] = IF @ < MaxFails THEN @ + 1 ELSE @]
  /\ left'  = [left EXCEPT ![i] = IF fails[i] < MaxFails /\ fails[i] + 1 >= MaxFails
                                    THEN FailTimeout ELSE @]
  /\ ew'    = [ew EXCEPT ![i] = IF fails[i] + 1 >= MaxFails THEN 1 ELSE @]
  /\ UNCHANGED <<cw, pick>>

(* A second passes. *)
Tick == /\ left' = [i \in Node |-> IF left[i] > Past THEN left[i] - 1 ELSE Past]
        /\ UNCHANGED <<cw, ew, fails, pick>>

Next == \/ NextCall
        \/ \E i \in Node : OnSuccess(i) \/ OnFailure(i)
        \/ Tick

Spec == Init /\ [][Next]_vars

-----------------------------------------------------------------------------
(* Types: no counter leaves its range whatever the callers report. *)
TypeOK == /\ cw \in [Node -> Int]
          /\ ew \in [Node -> 0 .. 255]
          /\ fails \in [Node -> 0 .. MaxFails]
          /\ left \in [Node -> Past .. FailTimeout]
          /\ pick \in Node \cup {NoPick}

(* Conservation: what the eligible nodes gain in next() is exactly what   *)
(* the chosen one pays back, so the current weights always sum to zero,   *)
(* through exclusions, recoveries and changes of effective weight, as long*)
(* as i16 is wide enough (WidthAssumption).                               *)
ZeroSum == Sum(cw) = 0

(* The largest weight a node can have while it is picked. *)
MaxWeight == CHOOSE w \in 1 .. 255 :
               /\ \A i \in Node : Weight[i] <= w
               /\ \A v \in 1 .. 255 : (\A i \in Node : Weight[i] <= v) => w <= v

(* What a node may owe or be owed: it can lead each of the others by no    *)
(* more than the largest weight.                                           *)
Limit == MaxWeight * (N - 1)

(* No node owes or is owed more than that, whatever the order of failures,*)
(* recoveries and picks: the i16 of `cw' is wide enough for 128 peers of   *)
(* any weight.                                                             *)
CwBounded == \A i \in Node : cw[i] \in -Limit .. Limit

(* A window is open only behind a failure count at the limit: success and *)
(* recovery clear both counters together (round_robin.rs:102-103,154-155).*)
WindowBehindFailures ==
  \A i \in Node : left[i] > Past => fails[i] = MaxFails /\ MaxFails > 0

(* However often it fails, a node with any weight keeps an effective one  *)
(* of at least one, or it would never be picked again and never climb back*)
(* (gradual recovery, round_robin.rs:138-141), and it climbs no higher    *)
(* than its configured weight.                                            *)
EwBounds ==
  \A i \in Node : /\ Weight[i] > 0 => ew[i] \in 1 .. Weight[i]
                  /\ Weight[i] = 0 => ew[i] \in 0 .. 1

(* An unhealthy node's window is never extended by further failures       *)
(* (round_robin.rs:176-179), whoever reports them and in whatever order.  *)
WindowNotExtended ==
  [][\A i \in Node : left'[i] > left[i] => ~Unhealthy(i)]_vars

(* A node leaves its window early only by a reported success: no next(),  *)
(* no failure and no other node's report re-admits it.                    *)
NoEarlyReadmission ==
  [][\A i \in Node : Excluded(i, 0) /\ ~Excluded(i, 0)' => OnSuccess(i) \/ Tick]_vars

(* next() returns a node inside its window only when all nodes are, and   *)
(* then none is closer to recovery (round_robin.rs:119-122).              *)
PickIsHealthiest ==
  [][NextCall /\ pick' \in Node /\ Excluded(pick', 0) =>
       \A j \in Node : Excluded(j, 0) /\ left[pick'] <= left[j]]_vars

(* However many failures keep being reported, an unhealthy node is        *)
(* offered traffic as a healthy one again (round_robin.rs:176-179: no     *)
(* loop resets the timeout forever).                                      *)
Readmitted == \A i \in Node : Unhealthy(i) ~> ~Unhealthy(i)
=============================================================================
