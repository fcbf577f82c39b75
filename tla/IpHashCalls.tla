----------------------------- MODULE IpHashCalls -----------------------------
(***************************************************************************)
(* IpHash with history variables for what was true of the peers while a    *)
(* call of next() by the thread Caller ran, any thread of them all: sound  *)
(* are the peers whose failure count was below the limit, and shut those   *)
(* whose window was closed by the clock value the call works with, at      *)
(* every moment of the call; from is the ring position it started at.      *)
(***************************************************************************)
EXTENDS IpHash

CONSTANT Caller

ASSUME CallerAssumption == Caller \in Thread

VARIABLES sound, shut, from

callVars == <<vars, sound, shut, from>>

Below  == {n \in Node : ~Unhealthy(n)}
Closed == {n \in Node : left[n] + age[Caller] <= 0}

CallsInit == /\ Init
             /\ sound = Node
             /\ shut = Node
             /\ from = 0

(* Caller's next() begins with what holds as it begins, and then learns.   *)
Begins == /\ \E s \in 0 .. RingLen - 1 : NextCall(Caller, s) /\ from' = s
          /\ sound' = Below
          /\ shut' = Closed

(* Every other step teaches the call under way what it changed.            *)
Learn == /\ sound' = IF Walking(Caller) THEN sound \cap Below' ELSE sound
         /\ shut' = IF Walking(Caller) THEN shut \cap Closed' ELSE shut
         /\ UNCHANGED from

Calls(t) == \/ t # Caller /\ \E s \in 0 .. RingLen - 1 : NextCall(t, s)
            \/ \E n \in Node : OnSuccess(t, n) \/ OnFailure(t, n)

CallsNext == \/ Begins
             \/ \E t \in Thread : (Calls(t) \/ Step(t)) /\ Learn
             \/ Tick /\ Learn

CallsSpec == CallsInit /\ [][CallsNext]_callVars

-----------------------------------------------------------------------------
(* However reports, recoveries and the walks of other threads interleave,  *)
(* a peer that was below the failure limit, or whose window was closed,    *)
(* all through a call of next() is never passed over by it for one further *)
(* along the ring, nor for the all-unhealthy fallback (ip_hash.rs:110-142):*)
(* a client keeps its peer while that peer is well.  The two halves stand  *)
(* apart: a peer that is never excluded, but fails both tests at different *)
(* moments of one call, is passed over (ip_hash.rs:119-122, two loads).    *)
Affinity ==
  pc[Caller] = "idle" /\ pick[Caller] # NoPick =>
    \A d \in 0 .. RingLen - 1 :
      Ring[(from + d) % RingLen] \in sound \cup shut =>
        \E e \in 0 .. d : Ring[(from + e) % RingLen] = pick[Caller]
==============================================================================
