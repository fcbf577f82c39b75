---------------------------- MODULE TcpEndpoint ----------------------------
(***************************************************************************)
(* One TCP endpoint (bytehub_core/src/tcp/mod.rs): the accept loop of      *)
(* run_tcp, the tasks it spawns, and the pool of idle connections with its *)
(* warm-up task (tcp/pool.rs).  A task takes a connection out of the pool  *)
(* or dials, address by address (tcp/socket.rs); the warm-up task counts,  *)
(* dials and pushes, and holds the pool's lock only to count and to push.  *)
(*                                                                         *)
(* The pool belongs to everybody (an Arc); the endpoint's addresses and    *)
(* options belong to run_tcp's frame, and the tasks hold raw pointers.     *)
(***************************************************************************)
EXTENDS Integers, Sequences, SequencesExt

CONSTANTS Conn,         \* concurrent connections of clients
          Extras,       \* extra_raddrs.len()
          Tokens,       \* what the balancer may hand out
          Addrs,        \* the addresses each peer's name resolves to
          PoolSize, IdleTimeout, Interval,
          MinIdles      \* the values of pool_min_idle to start with

Peers == 0 .. Extras

Warmup == "warm-up"
Dialer == Conn \cup {Warmup}

ASSUME EndpointAssumption == /\ Extras \in Nat /\ PoolSize \in Nat \ {0}
                             /\ IdleTimeout \in Nat /\ Interval \in Nat
                             /\ MinIdles \subseteq Nat /\ Tokens \subseteq Nat
                             /\ Warmup \notin Conn
                             /\ \A p \in Peers : Addrs[p] \in Seq(STRING) \ {<<>>}

VARIABLES run,     \* run_tcp: "start", "accepting", "returned" or "panicked"
          pc,      \* what each dialer does next
          tok,     \* the token it works for
          addr,    \* which of the peer's addresses it dials
          idle,    \* per peer the ages of its idle connections, newest last
          minIdle,
          needed,  \* connections the warm-up task still wants for its peer
          timer,   \* seconds it still sleeps
          up       \* addresses that accept; "local" if DNS and sockets work

poolVars == <<idle, minIdle, needed, timer>>
vars     == <<run, pc, tok, addr, poolVars, up>>

Local == "local"

Environment == {Local} \cup UNION {Range(Addrs[p]) : p \in Peers}

Init == /\ run = "start"
        /\ pc = [d \in Dialer |-> "none"]
        /\ tok = [d \in Dialer |-> 0]
        /\ addr = [d \in Dialer |-> 1]
        /\ idle = [p \in Peers |-> <<>>]
        /\ minIdle \in MinIdles
        /\ needed = 0
        /\ timer = Interval
        /\ up = Environment

GoTo(d, label) == pc' = [pc EXCEPT ![d] = label]

PeerOf(t) == IF t \in Peers THEN t ELSE 0

-----------------------------------------------------------------------------
(* run_tcp(): the warm-up task is spawned before the listener is bound.    *)
Start == /\ run = "start"
         /\ run' \in {"accepting", "panicked"}
         /\ GoTo(Warmup, "sleep")
         /\ UNCHANGED <<tok, addr, poolVars, up>>

Accept(c) == /\ run = "accepting"
             /\ pc[c] = "none"
             /\ GoTo(c, "select")
             /\ UNCHANGED <<run, tok, addr, poolVars, up>>

(* accept() fails for good, or setting keepalive on the new connection     *)
(* does.  Dropping `cancel' cancels nothing, whatever the comment at       *)
(* mod.rs:131 says: the warm-up task goes on.                              *)
Return == /\ run = "accepting"
          /\ run' = "returned"
          /\ UNCHANGED <<pc, tok, addr, poolVars, up>>

-----------------------------------------------------------------------------
(* socket::connect(): the addresses in turn; a local error ends it all.    *)
Answers(d) == {Local, Addrs[PeerOf(tok[d])][addr[d]]} \subseteq up

MoreAddrs(d) == Local \in up /\ addr[d] < Len(Addrs[PeerOf(tok[d])])

Connect(d, made, failed) ==
  /\ pc[d] = "dial"
  /\ \/ /\ Answers(d)
        /\ GoTo(d, made)
        /\ addr' = [addr EXCEPT ![d] = 1]
     \/ /\ ~Answers(d) /\ MoreAddrs(d)        \* refused or timed out
        /\ addr' = [addr EXCEPT ![d] = @ + 1]
        /\ UNCHANGED pc
     \/ /\ ~Answers(d) /\ ~MoreAddrs(d)
        /\ GoTo(d, failed)
        /\ addr' = [addr EXCEPT ![d] = 1]

-----------------------------------------------------------------------------
(* The pool.  A connection the peer has closed, or sent something on that  *)
(* nobody asked for, is dropped like one past its time: it counts as old.  *)
Old == IdleTimeout + 1

Healthy(age) == age < Old

(* A mutant of PopHealthy: only the newest connection is looked at. *)
PopNewest(s) == {i \in DOMAIN s : i = Len(s) /\ Healthy(s[i])}

(* The index of the newest healthy connection, if there is one; those      *)
(* after it are dropped with it.                                           *)
PopHealthy(s) ==
  {i \in DOMAIN s : Healthy(s[i]) /\ \A j \in i + 1 .. Len(s) : ~Healthy(s[j])}

(* A mutant of Push: no limit. *)
PushAlways(s) == Append(s, 0)

Push(s) == IF Len(s) < PoolSize THEN Append(s, 0) ELSE s

(* A connection's task, as far as the pool is concerned. *)
Select(c) == /\ pc[c] = "select"
             /\ \E t \in Tokens : tok' = [tok EXCEPT ![c] = t]
             /\ GoTo(c, "pop")
             /\ UNCHANGED <<run, addr, poolVars, up>>

PopIdle(c) ==
  /\ pc[c] = "pop"
  /\ \/ \E p \in Peers \cap {tok[c]} : \E i \in PopHealthy(idle[p]) :
          /\ idle' = [idle EXCEPT ![p] = SubSeq(@, 1, i - 1)]
          /\ GoTo(c, "relay")
     \/ \E p \in Peers \cap {tok[c]} :
          /\ PopHealthy(idle[p]) = {}
          /\ idle' = [idle EXCEPT ![p] = <<>>]
          /\ GoTo(c, "dial")
     \/ /\ tok[c] \notin Peers
        /\ GoTo(c, "dial")
        /\ UNCHANGED idle
  /\ UNCHANGED <<run, tok, addr, minIdle, needed, timer, up>>

Dial(c) == /\ Connect(c, "relay", "retry")
           /\ UNCHANGED <<run, tok, poolVars, up>>

(* Another token, or none is left. *)
Retry(c) == /\ pc[c] = "retry"
            /\ GoTo(c, "select") \/ GoTo(c, "none")
            /\ UNCHANGED <<run, tok, addr, poolVars, up>>

RelayEnds(c) == /\ pc[c] = "relay"
                /\ GoTo(c, "none")
                /\ UNCHANGED <<run, tok, addr, poolVars, up>>

-----------------------------------------------------------------------------
(* The warm-up task. *)
WarmWakes == /\ pc[Warmup] = "sleep"
             /\ timer = 0
             /\ GoTo(Warmup, "count")
             /\ tok' = [tok EXCEPT ![Warmup] = 0]
             /\ UNCHANGED <<run, addr, poolVars, up>>

WarmCounts ==
  /\ pc[Warmup] = "count"
  /\ needed' = IF Len(idle[tok[Warmup]]) < minIdle THEN minIdle - Len(idle[tok[Warmup]]) ELSE 0
  /\ GoTo(Warmup, IF needed' = 0 THEN "next" ELSE "dial")
  /\ UNCHANGED <<run, tok, addr, idle, minIdle, timer, up>>

(* A mutant of WarmDials: a peer that is down ends the whole cycle.        *)
WarmDialsOrSleeps ==
  /\ Connect(Warmup, "push", "sleep")
  /\ timer' = IF pc'[Warmup] = "sleep" THEN Interval ELSE timer
  /\ UNCHANGED <<run, tok, idle, minIdle, needed, up>>

WarmDials == /\ Connect(Warmup, "push", "next")
             /\ UNCHANGED <<run, tok, poolVars, up>>

WarmPushes ==
  /\ pc[Warmup] = "push"
  /\ idle' = [idle EXCEPT ![tok[Warmup]] = Push(@)]
  /\ needed' = needed - 1
  /\ GoTo(Warmup, IF needed' = 0 THEN "next" ELSE "dial")
  /\ UNCHANGED <<run, tok, addr, minIdle, timer, up>>

WarmMoves ==
  /\ pc[Warmup] = "next"
  /\ \/ /\ tok[Warmup] < Extras
        /\ tok' = [tok EXCEPT ![Warmup] = @ + 1]
        /\ GoTo(Warmup, "count")
        /\ UNCHANGED timer
     \/ /\ tok[Warmup] = Extras
        /\ timer' = Interval
        /\ GoTo(Warmup, "sleep")
        /\ UNCHANGED tok
  /\ needed' = 0
  /\ UNCHANGED <<run, addr, idle, minIdle, up>>

-----------------------------------------------------------------------------
(* The peers, the network and time. *)
PeerCloses(p, i) == /\ Healthy(idle[p][i])
                    /\ idle' = [idle EXCEPT ![p][i] = Old]
                    /\ UNCHANGED <<run, pc, tok, addr, minIdle, needed, timer, up>>

Changes(a) == /\ up' = IF a \in up THEN up \ {a} ELSE up \cup {a}
              /\ UNCHANGED <<run, pc, tok, addr, poolVars>>

Tick == /\ idle' = [p \in Peers |-> 
                       [i \in DOMAIN idle[p] |-> IF Healthy(idle[p][i]) THEN idle[p][i] + 1 ELSE Old]]
        /\ timer' = IF timer > 0 THEN timer - 1 ELSE 0
        /\ UNCHANGED <<run, pc, tok, addr, minIdle, needed, up>>

Task(c) == Select(c) \/ PopIdle(c) \/ Dial(c) \/ Retry(c) \/ RelayEnds(c)

WarmStep == WarmWakes \/ WarmCounts \/ WarmDials \/ WarmPushes \/ WarmMoves

Next == \/ Start \/ Return
        \/ \E c \in Conn : Accept(c) \/ Task(c)
        \/ WarmStep
        \/ \E p \in Peers : \E i \in DOMAIN idle[p] : PeerCloses(p, i)
        \/ \E a \in Environment : Changes(a)
        \/ Tick

Spec == Init /\ [][Next]_vars

(* A spawned task is polled when it can go on, dials end by their time-out *)
(* at the latest, and time passes.                                         *)
FairSpec == Spec /\ WF_vars(Start) /\ WF_vars(WarmStep) /\ WF_vars(Tick)

-----------------------------------------------------------------------------
EndpointTypeOK ==
  /\ run \in {"start", "accepting", "returned", "panicked"}
  /\ pc \in [Dialer -> {"none", "select", "pop", "dial", "retry", "relay",
                        "sleep", "count", "push", "next"}]
  /\ tok \in [Dialer -> Peers \cup Tokens]
  /\ addr \in [Dialer -> Nat]
  /\ \A d \in Dialer : addr[d] \in 1 .. Len(Addrs[PeerOf(tok[d])])
  /\ idle \in [Peers -> Seq(0 .. Old)]
  /\ minIdle \in MinIdles
  /\ needed \in 0 .. minIdle
  /\ timer \in 0 .. Interval
  /\ up \subseteq Environment

(* However the warm-up task's counts, dials and pushes interleave with the *)
(* tasks that pop, and whatever pool_min_idle is, no peer has more idle    *)
(* connections than the pool's size (pool.rs:103-108, :338-361).           *)
PoolBounded == \A p \in Peers : Len(idle[p]) <= PoolSize

(* A task goes to dial a peer that has a pool only if the pool held no     *)
(* healthy connection, and then leaves no dead one behind; a connection it *)
(* takes is the newest healthy one (pool.rs:88-101, :163-169).             *)
PopHonest ==
  [][\A c \in Conn : pc[c] = "pop" /\ pc'[c] # "pop" /\ tok[c] \in Peers =>
       LET s == idle[tok[c]]
           h == {i \in DOMAIN s : Healthy(s[i])}
       IN  IF h = {} THEN pc'[c] = "dial" /\ idle'[tok[c]] = <<>>
           ELSE /\ pc'[c] = "relay"
                /\ Healthy(s[Len(idle'[tok[c]]) + 1])
                /\ \A i \in h : i <= Len(idle'[tok[c]]) + 1]_vars

(* While run_tcp goes on accepting, a peer that keeps accepting at one of  *)
(* its addresses, and whose pool the tasks leave alone, ends up with       *)
(* min_idle connections in it (as many as fit), whatever happens to its    *)
(* other addresses and the other peers.  Connections that have died in the *)
(* pool count, as they do for the warm-up task (pool.rs:322-368,           *)
(* socket.rs:71-108).                                                      *)
Refilled ==
  \A p \in Peers : \A i \in DOMAIN Addrs[p] :
    <>[](/\ run = "accepting"
         /\ {Local, Addrs[p][i]} \subseteq up
         /\ \A c \in Conn : pc[c] = "pop" => tok[c] # p)
      => <>[](Len(idle[p]) >= minIdle \/ Len(idle[p]) = PoolSize)

(* What the tasks' raw pointers need (trick.rs:11): a task that has still  *)
(* to choose and dial its peer finds run_tcp's frame alive.                *)
RefsValid == run = "returned" => \A c \in Conn : pc[c] \notin {"select", "pop", "dial", "retry"}
=============================================================================
