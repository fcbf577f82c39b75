---------------------------- MODULE IpHashProofs ----------------------------
(***************************************************************************)
(* What the consistent-hash balancer promises its callers, for any ring,   *)
(* any number of peers and threads, and calls of any length.               *)
(***************************************************************************)
EXTENDS IpHashCalls, TLAPS

USE HealthAssumption DEF Past, NoPick

\* The virtual node d places clockwise from where Caller's walk started.
Spot(d) == Ring[(from + d) % RingLen]

\* The peers that are well all through Caller's call.
Well == sound \cup shut

CallTypeOK == from \in 0 .. RingLen - 1 /\ sound \subseteq Node /\ shut \subseteq Node

\* What the history says is so, and the walk has passed over nobody well.
Walks == Walking(Caller) =>
  /\ HealthCheck
  /\ start[Caller] = from
  /\ sound \subseteq Below /\ shut \subseteq Closed
  /\ \A d \in 0 .. RingLen - 1 : d < off[Caller] => Spot(d) \notin Well
  /\ pc[Caller] = "load_checked" => At(Caller) \notin sound

\* The last answer was the first peer that was well, or one before it.  The next
\* walk starts afresh.
Nearest ==
  \A d \in 0 .. RingLen - 1 : Spot(d) \in Well => \E e \in 0 .. d : Spot(e) = pick[Caller]

Answered == ~Walking(Caller) => /\ off[Caller] = 0
                                /\ pick[Caller] # NoPick => Nearest

CallInv == TypeOK /\ CallTypeOK /\ Walks /\ Answered

-----------------------------------------------------------------------------
LEMMA OnTheRing ==
  /\ \A k \in Nat : k % RingLen \in 0 .. RingLen - 1
  /\ \A k \in 0 .. RingLen - 1 : k % RingLen = k
  /\ RingLen \in Nat /\ RingLen > 0
  BY RingAssumption

LEMMA Tokens == 0 \in Node /\ \A d \in 0 .. RingLen - 1 : Ring[d] \in Node
  BY RingAssumption DEF Node

LEMMA Places ==
  ASSUME TypeOK, NEW t \in Thread
  PROVE  At(t) \in Node
<1>1. start[t] + off[t] \in Nat
  BY DEF TypeOK
<1>2. QED
  BY <1>1, OnTheRing, Tokens DEF At

-----------------------------------------------------------------------------
LEMMA StepTypes ==
  ASSUME TypeOK, NEW t \in Thread, Step(t)
  PROVE  TypeOK'
<1>1. At(t) \in Node
  BY Places
<1>2. CASE LoadFails(t)
  BY <1>1, <1>2, OnTheRing DEF LoadFails, Return, GoTo, TypeOK, backends, walk
<1>3. CASE LoadChecked(t)
  <2>1. Ring[start[t]] \in Node
    BY Tokens DEF TypeOK
  <2>2. QED
    BY <1>3, <2>1, OnTheRing DEF LoadChecked, Return, GoTo, TypeOK, backends, walk
<1>4. CASE ClearFails(t)
  BY <1>1, <1>4 DEF ClearFails, GoTo, TypeOK, walk
<1>5. CASE ClearChecked(t)
  BY <1>1, <1>5, OnTheRing DEF ClearChecked, Return, GoTo, TypeOK
<1>6. CASE ForgetWindow(t)
  BY <1>6, Tokens DEF ForgetWindow, GoTo, TypeOK, walk
<1>7. CASE OpenWindow(t)
  BY <1>7, Tokens DEF OpenWindow, GoTo, TypeOK, walk
<1>8. QED
  BY <1>2, <1>3, <1>4, <1>5, <1>6, <1>7 DEF Step

LEMMA CallTypes ==
  ASSUME TypeOK, NEW t \in Thread, Call(t)
  PROVE  TypeOK'
<1>1. ASSUME NEW s \in 0 .. RingLen - 1, NextCall(t, s)
      PROVE  TypeOK'
  <2>1. Ring[s] \in Node
    BY Tokens
  <2>2. QED
    BY <1>1, <2>1, OnTheRing DEF NextCall, Return, GoTo, TypeOK, backends
<1>2. ASSUME NEW n \in Node, OnSuccess(t, n)
      PROVE  TypeOK'
  BY <1>2 DEF OnSuccess, GoTo, TypeOK, walk
<1>3. ASSUME NEW n \in Node, OnFailure(t, n)
      PROVE  TypeOK'
  BY <1>3 DEF OnFailure, GoTo, TypeOK, walk
<1>4. QED
  BY <1>1, <1>2, <1>3 DEF Call

LEMMA TickTypes ==
  ASSUME TypeOK, Tick
  PROVE  TypeOK'
<1>1. left' \in [Node -> Past .. FailTimeout]
  BY DEF Tick, TypeOK
<1>2. age' \in [Thread -> 0 .. MaxAge]
  BY DEF Tick, TypeOK
<1>3. QED
  BY <1>1, <1>2 DEF Tick, TypeOK

-----------------------------------------------------------------------------
\* What Caller's own step finds: Walks where it stands, and a history that the
\* step can only shorten.
LEMMA Standing ==
  ASSUME CallInv, Learn
  PROVE  /\ TypeOK /\ CallTypeOK /\ CallTypeOK' /\ from' = from /\ Well' \subseteq Well
         /\ Walking(Caller) => /\ HealthCheck
                               /\ start[Caller] = from
                               /\ At(Caller) = Spot(off[Caller])
                               /\ sound' \subseteq Below' /\ shut' \subseteq Closed'
                               /\ \A d \in 0 .. RingLen - 1 :
                                    d < off[Caller] => Spot(d) \notin Well
         /\ \A d : Spot(d)' = Spot(d)
<1>1. from' = from /\ \A d : Spot(d)' = Spot(d)
  BY DEF Learn, Spot
<1>2. sound' \subseteq sound /\ shut' \subseteq shut
  BY DEF Learn
<1>3. Walking(Caller) => /\ HealthCheck
                         /\ start[Caller] = from
                         /\ At(Caller) = Spot(off[Caller])
                         /\ sound' \subseteq Below' /\ shut' \subseteq Closed'
                         /\ \A d \in 0 .. RingLen - 1 : d < off[Caller] => Spot(d) \notin Well
  BY DEF CallInv, Walks, Learn, At, Spot
<1>4. QED
  BY <1>1, <1>2, <1>3 DEF CallInv, CallTypeOK, Well

\* Steps that leave Caller where it is, whatever they do to the peers.
LEMMA Watches ==
  ASSUME CallInv, Learn, pc'[Caller] = pc[Caller], start'[Caller] = start[Caller],
         off'[Caller] = off[Caller], pick'[Caller] = pick[Caller]
  PROVE  CallTypeOK' /\ Walks' /\ Answered'
<1>1. Walking(Caller)' <=> Walking(Caller)
  BY DEF Walking
<1>2. Walks'
  <2>1. SUFFICES ASSUME Walking(Caller)
                 PROVE  Walks'
    BY <1>1 DEF Walks
  <2>2. At(Caller)' = At(Caller)
    BY DEF At
  <2>3. sound' \subseteq sound
    BY DEF Learn
  <2>4. QED
    BY <2>1, <2>2, <2>3, Standing DEF Walks, CallInv
<1>3. Answered'
  <2>1. CASE Walking(Caller)
    BY <1>1, <2>1 DEF Answered
  <2>2. CASE ~Walking(Caller)
    <3>1. Well' = Well
      BY <2>2 DEF Learn, Well
    <3>2. Answered
      BY DEF CallInv
    <3>3. QED
      BY <1>1, <2>2, <3>1, <3>2, Standing DEF Answered, Nearest
  <2>3. QED
    BY <2>1, <2>2
<1>4. QED
  BY <1>2, <1>3, Standing

\* Caller returns the peer its walk has come to, or falls back at its end.
LEMMA Returns ==
  ASSUME CallInv, Learn, Walking(Caller), NEW n, Return(Caller, n),
         \/ n = At(Caller)
         \/ \A d \in 0 .. RingLen - 1 : Spot(d) \notin Well
  PROVE  CallTypeOK' /\ Walks' /\ Answered'
<1>1. pc'[Caller] = "idle" /\ pick'[Caller] = n /\ off'[Caller] = 0
  BY CallerAssumption, Standing DEF Return, GoTo, TypeOK
<1>2. ~Walking(Caller)'
  BY <1>1 DEF Walking
<1>3. Nearest'
  <2>1. off[Caller] \in 0 .. RingLen - 1
    BY CallerAssumption, Standing DEF TypeOK
  <2>2. ASSUME NEW d \in 0 .. RingLen - 1, Spot(d) \in Well, n = At(Caller)
        PROVE  \E e \in 0 .. d : Spot(e) = n
    <3>1. ~(d < off[Caller])
      BY <2>2, Standing
    <3>2. off[Caller] \in 0 .. d /\ Spot(off[Caller]) = n
      BY <2>1, <2>2, <3>1, Standing
    <3>3. QED
      BY <3>2
  <2>3. QED
    BY <1>1, <2>2, Standing DEF Nearest
<1>4. QED
  BY <1>1, <1>2, <1>3, Standing DEF Walks, Answered

-----------------------------------------------------------------------------
\* The steps of Caller's own calls.
LEMMA CallerLoads ==
  ASSUME CallInv, Learn, LoadFails(Caller)
  PROVE  CallTypeOK' /\ Walks' /\ Answered'
<1>1. Walking(Caller) /\ pc[Caller] = "load_fails"
  BY DEF LoadFails, Walking
<1>2. CASE fails[At(Caller)] < MaxFails
  <2>1. Return(Caller, At(Caller))
    BY <1>2, Places, CallerAssumption, Standing DEF LoadFails, TypeOK
  <2>2. QED
    BY <1>1, <2>1, Returns
<1>3. CASE fails[At(Caller)] >= MaxFails /\ GoTo(Caller, "load_checked") /\ UNCHANGED <<walk, pick>>
  <2>1. pc'[Caller] = "load_checked" /\ At(Caller)' = At(Caller) /\ fails' = fails
    BY <1>3, CallerAssumption, Standing DEF GoTo, TypeOK, At, walk, LoadFails, backends
  <2>2. At(Caller) \notin Below'
    <3>1. HealthCheck /\ fails[At(Caller)] >= MaxFails
      BY <1>1, <1>3, Standing
    <3>2. QED
      BY <2>1, <3>1 DEF Below, Unhealthy
  <2>3. Walks'
    BY <1>1, <1>3, <2>1, <2>2, Standing DEF Walks, walk
  <2>4. Walking(Caller)'
    BY <2>1 DEF Walking
  <2>5. QED
    BY <2>3, <2>4, Standing DEF Answered
<1>4. QED
  BY <1>2, <1>3 DEF LoadFails

LEMMA CallerChecks ==
  ASSUME CallInv, Learn, LoadChecked(Caller)
  PROVE  CallTypeOK' /\ Walks' /\ Answered'
<1>1. Walking(Caller) /\ pc[Caller] = "load_checked" /\ Caller \in Thread
  BY CallerAssumption DEF LoadChecked, Walking
<1>2. At(Caller) \notin sound /\ shut \subseteq Closed
  BY <1>1 DEF CallInv, Walks
<1>3. off[Caller] \in 0 .. RingLen - 1
  BY <1>1, Standing DEF TypeOK
\* The window is open: the peer here is not well, and nor was any before.
<1>4. ASSUME left[At(Caller)] + age[Caller] > 0
      PROVE  \A d \in 0 .. RingLen - 1 : d <= off[Caller] => Spot(d) \notin Well
  <2>1. At(Caller) \notin Closed
    BY <1>1, <1>4, Places, Standing DEF Closed, TypeOK
  <2>2. Spot(off[Caller]) \notin Well
    BY <1>1, <1>2, <2>1, Standing DEF Well
  <2>3. ASSUME NEW d \in 0 .. RingLen - 1, d <= off[Caller]
        PROVE  d < off[Caller] \/ d = off[Caller]
    BY <1>3, <2>3
  <2>4. QED
    BY <1>1, <2>2, <2>3, Standing
<1>5. CASE /\ left[At(Caller)] + age[Caller] > 0
           /\ off[Caller] + 1 < RingLen
           /\ off' = [off EXCEPT ![Caller] = @ + 1]
           /\ GoTo(Caller, "load_fails")
           /\ UNCHANGED <<start, age, pick>>
  <2>1. pc'[Caller] = "load_fails" /\ off'[Caller] = off[Caller] + 1
    BY <1>1, <1>5, Standing DEF GoTo, TypeOK
  <2>2. \A d \in 0 .. RingLen - 1 : d < off'[Caller] => Spot(d) \notin Well
    <3>1. ASSUME NEW d \in 0 .. RingLen - 1, d < off'[Caller]
          PROVE  d <= off[Caller]
      BY <1>3, <2>1, <3>1
    <3>2. QED
      BY <1>4, <1>5, <3>1
  <2>3. Walks'
    BY <1>1, <1>5, <2>1, <2>2, Standing DEF Walks
  <2>4. Walking(Caller)'
    BY <2>1 DEF Walking
  <2>5. QED
    BY <2>3, <2>4, Standing DEF Answered
<1>6. CASE /\ left[At(Caller)] + age[Caller] > 0
           /\ off[Caller] + 1 = RingLen
           /\ Return(Caller, Ring[start[Caller]])
  <2>1. ASSUME NEW d \in 0 .. RingLen - 1
        PROVE  d <= off[Caller]
    BY <1>3, <1>6, OnTheRing
  <2>2. QED
    BY <1>1, <1>4, <1>6, <2>1, Returns
<1>7. CASE GoTo(Caller, "clear_fails") /\ UNCHANGED <<walk, pick>>
  <2>1. pc'[Caller] = "clear_fails"
    BY <1>1, <1>7, Standing DEF GoTo, TypeOK
  <2>2. Walks'
    BY <1>1, <1>7, <2>1, Standing DEF Walks, walk
  <2>3. Walking(Caller)'
    BY <2>1 DEF Walking
  <2>4. QED
    BY <2>2, <2>3, Standing DEF Answered
<1>8. QED
  BY <1>5, <1>6, <1>7 DEF LoadChecked

LEMMA CallerClears ==
  ASSUME CallInv, Learn, ClearFails(Caller) \/ ClearChecked(Caller)
  PROVE  CallTypeOK' /\ Walks' /\ Answered'
<1>1. Walking(Caller) /\ Caller \in Thread
  BY CallerAssumption DEF ClearFails, ClearChecked, Walking
<1>2. CASE ClearFails(Caller)
  <2>1. pc'[Caller] = "clear_checked" /\ UNCHANGED walk
    BY <1>1, <1>2, Standing DEF ClearFails, GoTo, TypeOK
  <2>2. Walks'
    BY <1>1, <2>1, Standing DEF Walks, walk
  <2>3. Walking(Caller)'
    BY <2>1 DEF Walking
  <2>4. QED
    BY <2>2, <2>3, Standing DEF Answered
<1>3. CASE ClearChecked(Caller)
  BY <1>1, <1>3, Returns DEF ClearChecked
<1>4. QED
  BY <1>2, <1>3

\* Reports of Caller's own change no walk: its pick stands.
LEMMA CallerReports ==
  ASSUME CallInv, Learn,
         \/ \E n \in Node : OnSuccess(Caller, n) \/ OnFailure(Caller, n)
         \/ ForgetWindow(Caller) \/ OpenWindow(Caller)
  PROVE  CallTypeOK' /\ Walks' /\ Answered'
<1>1. ~Walking(Caller) /\ UNCHANGED <<pick, off>>
  BY DEF Walking, OnSuccess, OnFailure, ForgetWindow, OpenWindow, walk
<1>2. ~Walking(Caller)'
  <2>1. pc' = pc \/ \E l \in {"idle", "forget_window", "open_window"} : pc' = [pc EXCEPT ![Caller] = l]
    BY DEF OnSuccess, OnFailure, ForgetWindow, OpenWindow, GoTo
  <2>2. CASE pc' = pc
    BY <1>1, <2>2 DEF Walking
  <2>3. ASSUME NEW l \in {"idle", "forget_window", "open_window"}, pc' = [pc EXCEPT ![Caller] = l]
        PROVE  ~Walking(Caller)'
    <3>1. pc'[Caller] = l
      BY <2>3, CallerAssumption, Standing DEF TypeOK
    <3>2. QED
      BY <3>1 DEF Walking
  <2>4. QED
    BY <2>1, <2>2, <2>3
<1>3. Well' = Well
  BY <1>1 DEF Learn, Well
<1>4. Answered'
  BY <1>1, <1>2, <1>3, Standing DEF Answered, Nearest, CallInv
<1>5. QED
  BY <1>2, <1>4, Standing DEF Walks

LEMMA CallerBegins ==
  ASSUME CallInv, Begins
  PROVE  CallTypeOK' /\ Walks' /\ Answered'
<1>1. PICK s \in 0 .. RingLen - 1 : NextCall(Caller, s) /\ from' = s
  BY DEF Begins
<1>2. CallTypeOK'
  BY <1>1 DEF Begins, CallTypeOK, Below, Closed
<1>3. TypeOK /\ Caller \in Thread
  BY CallerAssumption DEF CallInv
<1>4. CASE /\ HealthCheck
           /\ start' = [start EXCEPT ![Caller] = s]
           /\ GoTo(Caller, "load_fails")
           /\ UNCHANGED <<off, age, pick>>
  <2>1. pc'[Caller] = "load_fails"
    BY <1>3, <1>4 DEF GoTo, TypeOK
  <2>2. ~Walking(Caller) /\ Walking(Caller)'
    BY <1>1, <2>1 DEF Walking, NextCall
  <2>3. start'[Caller] = s /\ off'[Caller] = 0 /\ UNCHANGED <<backends, age>>
    BY <1>1, <1>3, <1>4, <2>2 DEF NextCall, TypeOK, CallInv, Answered
  <2>4. Below' = Below /\ Closed' = Closed
    BY <2>3 DEF Below, Closed, Unhealthy, backends
  <2>5. Walks'
    BY <1>1, <1>4, <2>1, <2>3, <2>4 DEF Walks, Begins
  <2>6. QED
    BY <1>2, <2>2, <2>5 DEF Answered
<1>5. CASE ~HealthCheck
  <2>1. Return(Caller, Ring[s])
    BY <1>1, <1>5 DEF NextCall
  <2>2. pc'[Caller] = "idle" /\ pick'[Caller] = Ring[s] /\ off'[Caller] = 0
    BY <1>3, <2>1 DEF Return, GoTo, TypeOK
  <2>3. ~Walking(Caller)'
    BY <2>2 DEF Walking
  <2>4. Nearest'
    <3>1. Spot(0)' = Ring[s]
      BY <1>1, OnTheRing DEF Spot
    <3>2. QED
      BY <2>2, <3>1 DEF Nearest
  <2>5. QED
    BY <1>2, <2>2, <2>3, <2>4 DEF Walks, Answered
<1>6. QED
  BY <1>1, <1>4, <1>5 DEF NextCall

-----------------------------------------------------------------------------
\* A step of another thread, or of the clock, leaves Caller where it is.
LEMMA OthersSteps ==
  ASSUME CallInv, NEW t \in Thread \ {Caller}, Call(t) \/ Step(t)
  PROVE  /\ pc'[Caller] = pc[Caller] /\ start'[Caller] = start[Caller]
         /\ off'[Caller] = off[Caller] /\ pick'[Caller] = pick[Caller]
<1> USE CallerAssumption DEF CallInv, TypeOK, GoTo, Return, backends, walk
<1>1. ASSUME NEW s \in 0 .. RingLen - 1, NextCall(t, s)
      PROVE  UNCHANGED <<pc[Caller], start[Caller], off[Caller], pick[Caller]>>
  BY <1>1 DEF NextCall
<1>2. ASSUME NEW n \in Node, OnSuccess(t, n) \/ OnFailure(t, n)
      PROVE  UNCHANGED <<pc[Caller], start[Caller], off[Caller], pick[Caller]>>
  BY <1>2 DEF OnSuccess, OnFailure
<1>3. ASSUME LoadFails(t) \/ LoadChecked(t)
      PROVE  UNCHANGED <<pc[Caller], start[Caller], off[Caller], pick[Caller]>>
  BY <1>3 DEF LoadFails, LoadChecked
<1>4. ASSUME ClearFails(t) \/ ClearChecked(t) \/ ForgetWindow(t) \/ OpenWindow(t)
      PROVE  UNCHANGED <<pc[Caller], start[Caller], off[Caller], pick[Caller]>>
  BY <1>4 DEF ClearFails, ClearChecked, ForgetWindow, OpenWindow
<1>5. QED
  BY <1>1, <1>2, <1>3, <1>4 DEF Call, Step

LEMMA CallsKeep ==
  ASSUME CallInv, CallsNext
  PROVE  CallInv'
<1>1. CASE Begins
  <2>1. Call(Caller)
    BY <1>1 DEF Begins, Call
  <2>2. TypeOK'
    BY <2>1, CallTypes, CallerAssumption DEF CallInv
  <2>3. QED
    BY <1>1, <2>2, CallerBegins DEF CallInv
<1>2. ASSUME NEW t \in Thread, Calls(t) \/ Step(t), Learn
      PROVE  CallInv'
  <2>1. Call(t) \/ Step(t)
    BY <1>2 DEF Calls, Call
  <2>2. TypeOK'
    BY <2>1, CallTypes, StepTypes DEF CallInv
  <2>3. CASE t # Caller
    <3>1. QED
      BY <1>2, <2>1, <2>2, <2>3, OthersSteps, Watches DEF CallInv
  <2>4. CASE t = Caller
    BY <1>2, <2>2, <2>4, CallerLoads, CallerChecks, CallerClears, CallerReports
    DEF Calls, Step, CallInv
  <2>5. QED
    BY <2>3, <2>4
<1>3. CASE Tick /\ Learn
  <2>1. TypeOK'
    BY <1>3, TickTypes DEF CallInv
  <2>2. QED
    BY <1>3, <2>1, Watches DEF Tick, CallInv
<1>4. QED
  BY <1>1, <1>2, <1>3 DEF CallsNext

LEMMA CallsStart ==
  ASSUME CallsInit
  PROVE  CallInv
<1>1. TypeOK
  BY OnTheRing, Tokens DEF CallsInit, Init, TypeOK
<1>2. ~Walking(Caller) /\ off[Caller] = 0 /\ pick[Caller] = NoPick
  BY CallerAssumption DEF CallsInit, Init, Walking
<1>3. QED
  BY <1>1, <1>2, OnTheRing DEF CallsInit, CallInv, CallTypeOK, Walks, Answered

LEMMA CallsInvariant == CallsSpec => []CallInv
<1>1. CallInv /\ UNCHANGED callVars => CallInv'
  BY DEF callVars, vars, CallInv, TypeOK, CallTypeOK, Walks, Walking, At, Below, Closed, Unhealthy,
         Well, Spot, Answered, Nearest
<1>2. QED
  BY <1>1, CallsStart, CallsKeep, PTL DEF CallsSpec

-----------------------------------------------------------------------------
(* The consistent-hash balancer keeps its variables in range, however the  *)
(* atomic accesses of its calls interleave (ip_hash.rs:106-171).           *)
THEOREM HashTypes == CallsSpec => []TypeOK
<1>1. CallInv => TypeOK
  BY DEF CallInv
<1>2. QED
  BY <1>1, CallsInvariant, PTL

(* For any ring and any number of threads, next() never passes over a peer *)
(* that was below the limit, or out of its window, all through the call    *)
(* (ip_hash.rs:110-142).                                                   *)
THEOREM ClientsKeepPeer == CallsSpec => []Affinity
<1>1. CallInv => Affinity
  BY DEF CallInv, Answered, Affinity, Nearest, Walking, Spot, Well
<1>2. QED
  BY <1>1, CallsInvariant, PTL
=============================================================================
