------------------------------- MODULE IpHash -------------------------------
(***************************************************************************)
(* The consistent-hash balancer of bytehub_lb/src/ip_hash.rs.  It has no   *)
(* lock: relay tasks on several threads load and store each peer's failure *)
(* counter and window separately, so every atomic access is a step of its  *)
(* own and the calls of different threads interleave.                      *)
(*                                                                         *)
(* The hash ring is a constant, a cycle of tokens; a caller's address only *)
(* decides where on it the walk starts.  Time is relative as in RoundRobin:*)
(* left[n] is "checked - now"; age[t] is how old the clock value of thread *)
(* t's running next() is.  The failure counter saturates at MaxFails.      *)
(***************************************************************************)
EXTENDS Integers, FiniteSets

CONSTANTS N,            \* number of peers, two or more
          RingLen,      \* number of virtual nodes
          Ring,         \* the token of each virtual node, in hash order
          HealthCheck, MaxFails, FailTimeout,
          Thread,
          MaxAge        \* bound on the seconds one call of next() lasts

Node == 0 .. N - 1

ASSUME RingAssumption   == /\ N \in Nat /\ N >= 2
                           /\ RingLen \in Nat \ {0}
                           /\ Ring \in [0 .. RingLen - 1 -> Node]
ASSUME HealthAssumption == /\ HealthCheck \in BOOLEAN
                           /\ MaxFails \in Nat
                           /\ FailTimeout \in Nat
                           /\ MaxAge \in Nat

VARIABLES fails, left,  \* BackendHealth of each peer
          pc,           \* what each thread does next
          start, off,   \* where next() began its walk and how far it is
          age,
          arg,          \* the token on_success / on_failure was called with
          pick          \* the token the thread's last next() returned

backends == <<fails, left>>
walk     == <<start, off, age>>
vars     == <<fails, left, pc, start, off, age, arg, pick>>

Past   == -MaxAge
NoPick == -1

Init == /\ fails = [n \in Node |-> 0]
        /\ left = [n \in Node |-> Past]
        /\ pc = [t \in Thread |-> "idle"]
        /\ start = [t \in Thread |-> 0]
        /\ off = [t \in Thread |-> 0]
        /\ age = [t \in Thread |-> 0]
        /\ arg = [t \in Thread |-> 0]
        /\ pick = [t \in Thread |-> NoPick]

(* A mutant of At: the virtual node after the one the address falls on. *)
AtNext(t) == Ring[(start[t] + off[t] + 1) % RingLen]

At(t) == Ring[(start[t] + off[t]) % RingLen]

GoTo(t, label) == pc' = [pc EXCEPT ![t] = label]

Return(t, n) == /\ pick' = [pick EXCEPT ![t] = n]
                /\ GoTo(t, "idle")
                /\ start' = [start EXCEPT ![t] = 0]
                /\ off' = [off EXCEPT ![t] = 0]
                /\ age' = [age EXCEPT ![t] = 0]

-----------------------------------------------------------------------------
(* next(): hash the address, read the clock, walk clockwise. *)
NextCall(t, s) ==
  /\ pc[t] = "idle"
  /\ \/ /\ HealthCheck
        /\ start' = [start EXCEPT ![t] = s]
        /\ GoTo(t, "load_fails")
        /\ UNCHANGED <<off, age, pick>>
     \/ /\ ~HealthCheck
        /\ Return(t, Ring[s])
  /\ UNCHANGED <<backends, arg>>

LoadFails(t) ==
  /\ pc[t] = "load_fails"
  /\ \/ /\ fails[At(t)] >= MaxFails
        /\ GoTo(t, "load_checked")
        /\ UNCHANGED <<walk, pick>>
     \/ /\ fails[At(t)] < MaxFails
        /\ Return(t, At(t))
  /\ UNCHANGED <<backends, arg>>

LoadChecked(t) ==
  /\ pc[t] = "load_checked"
  /\ \/ /\ left[At(t)] + age[t] > 0
        /\ off[t] + 1 < RingLen
        /\ off' = [off EXCEPT ![t] = @ + 1]
        /\ GoTo(t, "load_fails")
        /\ UNCHANGED <<start, age, pick>>
     \/ /\ left[At(t)] + age[t] > 0       \* all unhealthy: back to the start
        /\ off[t] + 1 = RingLen
        /\ Return(t, Ring[start[t]])
     \/ /\ left[At(t)] + age[t] <= 0
        /\ GoTo(t, "clear_fails")
        /\ UNCHANGED <<walk, pick>>
  /\ UNCHANGED <<backends, arg>>

ClearFails(t) ==
  /\ pc[t] = "clear_fails"
  /\ fails' = [fails EXCEPT ![At(t)] = 0]
  /\ GoTo(t, "clear_checked")
  /\ UNCHANGED <<left, walk, arg, pick>>

ClearChecked(t) ==
  /\ pc[t] = "clear_checked"
  /\ left' = [left EXCEPT ![At(t)] = Past]
  /\ Return(t, At(t))
  /\ UNCHANGED <<fails, arg>>

-----------------------------------------------------------------------------
(* on_success(): two stores. *)
OnSuccess(t, n) ==
  /\ HealthCheck
  /\ pc[t] = "idle"
  /\ fails' = [fails EXCEPT ![n] = 0]
  /\ arg' = [arg EXCEPT ![t] = n]
  /\ GoTo(t, "forget_window")
  /\ UNCHANGED <<left, walk, pick>>

ForgetWindow(t) ==
  /\ pc[t] = "forget_window"
  /\ left' = [left EXCEPT ![arg[t]] = Past]
  /\ arg' = [arg EXCEPT ![t] = 0]
  /\ GoTo(t, "idle")
  /\ UNCHANGED <<fails, walk, pick>>

(* on_failure(): a fetch_add, and at the limit a store that opens the      *)
(* window, again on every further failure.                                 *)
OnFailure(t, n) ==
  /\ HealthCheck
  /\ pc[t] = "idle"
  /\ fails' = [fails EXCEPT ![n] = IF @ < MaxFails THEN @ + 1 ELSE @]
  /\ \/ /\ fails[n] + 1 >= MaxFails
        /\ arg' = [arg EXCEPT ![t] = n]
        /\ GoTo(t, "open_window")
     \/ /\ fails[n] + 1 < MaxFails
        /\ UNCHANGED <<arg, pc>>
  /\ UNCHANGED <<left, walk, pick>>

OpenWindow(t) ==
  /\ pc[t] = "open_window"
  /\ left' = [left EXCEPT ![arg[t]] = FailTimeout]
  /\ arg' = [arg EXCEPT ![t] = 0]
  /\ GoTo(t, "idle")
  /\ UNCHANGED <<fails, walk, pick>>

-----------------------------------------------------------------------------
Walking(t) == pc[t] \in {"load_fails", "load_checked", "clear_fails", "clear_checked"}

Tick ==
  /\ \A t \in Thread : Walking(t) => age[t] < MaxAge
  /\ left' = [n \in Node |-> IF left[n] > Past THEN left[n] - 1 ELSE Past]
  /\ age' = [t \in Thread |-> IF Walking(t) THEN age[t] + 1 ELSE age[t]]
  /\ UNCHANGED <<fails, pc, start, off, arg, pick>>

(* The steps of thread t inside a call. *)
Step(t) == \/ LoadFails(t) \/ LoadChecked(t) \/ ClearFails(t) \/ ClearChecked(t)
           \/ ForgetWindow(t) \/ OpenWindow(t)

Call(t) == \/ \E s \in 0 .. RingLen - 1 : NextCall(t, s)
           \/ \E n \in Node : OnSuccess(t, n) \/ OnFailure(t, n)

Next == \/ \E t \in Thread : Call(t) \/ Step(t)
        \/ Tick

Spec == Init /\ [][Next]_vars

-----------------------------------------------------------------------------
TypeOK == /\ fails \in [Node -> 0 .. MaxFails]
          /\ left \in [Node -> Past .. FailTimeout]
          /\ pc \in [Thread -> {"idle", "load_fails", "load_checked", "clear_fails",
                                "clear_checked", "forget_window", "open_window"}]
          /\ start \in [Thread -> 0 .. RingLen - 1]
          /\ off \in [Thread -> 0 .. RingLen - 1]
          /\ age \in [Thread -> 0 .. MaxAge]
          /\ arg \in [Thread -> Node]
          /\ pick \in [Thread -> Node \cup {NoPick}]

Unhealthy(n) == HealthCheck /\ fails[n] >= MaxFails
=============================================================================
