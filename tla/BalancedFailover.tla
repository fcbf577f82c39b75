-------------------------- MODULE BalancedFailover --------------------------
(***************************************************************************)
(* The connections of one endpoint sharing one Balancer                    *)
(* (bytehub_lb/src/balancer.rs), which hands every call on to its strategy.*)
(* Round robin answers in one step under its mutex.  Consistent hashing has*)
(* no lock: every connection's task is a thread of IpHash and goes on with *)
(* its own business only when the call it made has returned.  Off, the     *)
(* balancer hands out token 0 and forgets every report.                    *)
(***************************************************************************)
EXTENDS Failover

CONSTANTS Strategies,  \* the strategies the endpoint may be configured with
          Weight, RingLen, Ring, HealthCheck, MaxFails, FailTimeout,
          MaxAge       \* bound on the seconds one call of next() lasts

VARIABLES fails, left,                       \* the health of each peer
          cw, ew, rrPick,                    \* round robin
          lbpc, start, off, age, arg, pick,  \* consistent hashing
          home                               \* where each client's address is on the ring

RR == INSTANCE RoundRobin WITH pick <- rrPick, MaxLag <- MaxAge
LB == INSTANCE IpHash WITH pc <- lbpc, Thread <- Conn

ASSUME StrategiesAssumption ==
  Strategies # {} /\ Strategies \subseteq {"off", "iphash", "roundrobin"}

(* What the balancers assume of these, see RoundRobin and IpHash.          *)
ASSUME BalancersAssumption == /\ N >= 2 /\ ("roundrobin" \in Strategies => N <= 128)
                              /\ RingLen \in Nat \ {0}
                              /\ Ring \in [0 .. RingLen - 1 -> 0 .. N - 1]

(* The latency limit is a field of the health configuration.               *)
ASSUME LatencyAssumption == UseLatency => HealthCheck

rrVars  == <<cw, ew, rrPick>>
ihVars  == <<lbpc, start, off, age, arg, pick>>
lbVars  == <<fails, left, rrVars, ihVars>>
allVars == <<strategy, lbVars, connVars, home>>

BalancedInit == /\ strategy \in Strategies
                /\ RR!Init /\ LB!Init /\ ConnInit
                /\ home = [c \in Conn |-> 0]

Idle(c) == lbpc[c] = "idle"

-----------------------------------------------------------------------------
(* Balancer::on_success and on_failure; a strategy without a health        *)
(* configuration ignores every report.                                     *)
Ignored == (strategy = "off" \/ ~HealthCheck) /\ UNCHANGED lbVars

ReportSuccess(c, t) ==
  \/ strategy = "roundrobin" /\ RR!OnSuccess(t) /\ UNCHANGED ihVars
  \/ strategy = "iphash" /\ LB!OnSuccess(c, t) /\ UNCHANGED rrVars
  \/ Ignored

ReportFailure(c, t) ==
  \/ strategy = "roundrobin" /\ RR!OnFailure(t) /\ UNCHANGED ihVars
  \/ strategy = "iphash" /\ LB!OnFailure(c, t) /\ UNCHANGED rrVars
  \/ Ignored

(* A call of the hash balancer's next() that returns hands over its token. *)
Returns(c) == IF Idle(c)' THEN Choose(c, pick'[c]) ELSE UNCHANGED connVars

(* Balancer::next. *)
Select(c) ==
  /\ pc[c] = "select"
  /\ \/ strategy = "off" /\ Choose(c, 0) /\ UNCHANGED lbVars
     \/ strategy = "roundrobin" /\ RR!NextCall /\ Choose(c, rrPick') /\ UNCHANGED ihVars
     \/ strategy = "iphash" /\ LB!NextCall(c, home[c]) /\ Returns(c) /\ UNCHANGED rrVars
  /\ UNCHANGED <<strategy, home>>

(* The hash balancer's next access, in whichever call the task is.         *)
LBStep(c) == /\ LB!Step(c)
             /\ IF LB!Walking(c) THEN Returns(c) ELSE UNCHANGED connVars
             /\ UNCHANGED <<strategy, rrVars, home>>

-----------------------------------------------------------------------------
(* The client's address puts it anywhere on the ring, and on the same spot *)
(* for all the calls of an attempt.                                        *)
AcceptFrom(c) == /\ Accept(c)
                 /\ home' \in {[home EXCEPT ![c] = s] :
                                 s \in IF strategy = "iphash" THEN 0 .. RingLen - 1 ELSE {0}}
                 /\ UNCHANGED <<strategy, lbVars>>

(* The address is looked up no more once the attempt is over. *)
Forget(c) == home' = IF pc'[c] = "select" THEN home ELSE [home EXCEPT ![c] = 0]

DialFails(c) == /\ Refused(c) \/ \E ms \in SlowMs : TooSlow(c, ms)
                /\ ReportFailure(c, token[c])

Dial(c) == /\ Idle(c)
           /\ DialFails(c) \/ ((Connected(c) \/ PeerReset(c)) /\ UNCHANGED lbVars)
           /\ Forget(c)
           /\ UNCHANGED strategy

RelayDone(c) == /\ Idle(c)
                /\ RelayEnds(c)
                /\ ReportSuccess(c, token[c]) \/ ReportFailure(c, token[c])
                /\ UNCHANGED <<strategy, home>>

Leave(c) == /\ Idle(c)
            /\ GivesUp(c) \/ ProxyFails(c) \/ ClientGone(c)
            /\ Forget(c)
            /\ UNCHANGED <<strategy, lbVars>>

Elapse == /\ \/ strategy = "roundrobin" /\ RR!Tick /\ UNCHANGED ihVars
             \/ strategy = "iphash" /\ LB!Tick /\ UNCHANGED rrVars
          /\ UNCHANGED <<strategy, connVars, home>>

Change(p) == /\ \E s \in {"fast", "slow", "down"} : PeerChanges(p, s)
             /\ UNCHANGED <<strategy, lbVars, home>>

BalancedNext ==
  \/ \E c \in Conn : \/ AcceptFrom(c) \/ Select(c) \/ LBStep(c)
                     \/ Dial(c) \/ RelayDone(c) \/ Leave(c)
  \/ \E p \in Peers : Change(p)
  \/ Elapse

BalancedSpec == BalancedInit /\ [][BalancedNext]_allVars

(* A task that can run does, a dial ends, and time passes. *)
BalancedFairSpec ==
  /\ BalancedSpec
  /\ \A c \in Conn : WF_allVars(Select(c) \/ LBStep(c) \/ Dial(c))
  /\ WF_allVars(Elapse)
=============================================================================
