------------------------------ MODULE Failover ------------------------------
(***************************************************************************)
(* The life of a relayed TCP connection in bytehub_core/src/tcp/middle.rs, *)
(* as far as the balancer can tell: connect_and_relay asks for a token,    *)
(* dials that peer, on failure (or too slow a success) tries another until *)
(* every token has been tried, relays, and reports the outcome.            *)
(*                                                                         *)
(* The balancer itself is not here: BalancedFailover conjoins these        *)
(* actions with the balancers'.  Whether a dial succeeds is the peer's     *)
(* doing, its `speed' at that moment.                                      *)
(***************************************************************************)
EXTENDS Integers, FiniteSets, FiniteSetsExt

CONSTANTS Conn,        \* concurrent connections of one endpoint
          N,           \* the number of weights, so of tokens
          Extras,      \* extra_raddrs.len()
          UseLatency,  \* is max_latency_ms configured?
          SlowMs,      \* connect times above max_latency_ms
          Pooling      \* is there a RemotePool?

Peers == 0 .. Extras   \* peer 0 is raddr

ASSUME FailoverAssumption == /\ N \in Nat /\ Extras \in Nat
                             /\ UseLatency \in BOOLEAN /\ Pooling \in BOOLEAN
                             /\ SlowMs \subseteq Nat

VARIABLES strategy,  \* of the endpoint's Balancer, fixed at the start
          pc,        \* where the connection's task is
          token,     \* the token it works with
          stream,    \* the peer its stream leads to
          tried,     \* tokens that failed or were slow
          fallback,  \* the slow stream kept in reserve, at most one
          speed,     \* of each peer: "fast", "slow" or "down"
          steady,    \* history: peers fast ever since the attempt began
          slow       \* history: connect times of the attempt's slow dials

connVars == <<pc, token, stream, tried, fallback, speed, steady, slow>>

NoToken == -1
NoPeer  == -1

(* Balancer::total() and health_config(): an absent balancer has neither   *)
(* tokens nor a health configuration, hence no latency limit.              *)
Total   == IF strategy = "off" THEN 0 ELSE N
Limited == UseLatency /\ strategy # "off"

(* Token 0 is raddr, token i the i-th extra remote, any other raddr again. *)
Peer(t) == IF t > 0 /\ t - 1 < Extras THEN t ELSE 0

ConnInit == /\ pc = [c \in Conn |-> "idle"]
            /\ token = [c \in Conn |-> NoToken]
            /\ stream = [c \in Conn |-> NoPeer]
            /\ tried = [c \in Conn |-> {}]
            /\ fallback = [c \in Conn |-> {}]
            /\ speed \in [Peers -> {"fast", "slow", "down"}]
            /\ steady = [c \in Conn |-> {}]
            /\ slow = [c \in Conn |-> {}]

-----------------------------------------------------------------------------
Accept(c) ==
  /\ pc[c] = "idle"
  /\ pc' = [pc EXCEPT ![c] = "select"]
  /\ steady' = [steady EXCEPT ![c] = {p \in Peers : speed[p] = "fast"}]
  /\ UNCHANGED <<token, stream, tried, fallback, speed, slow>>

(* balancer.next() returned t. *)
Choose(c, t) ==
  /\ pc[c] = "select"
  /\ pc' = [pc EXCEPT ![c] = "connect"]
  /\ token' = [token EXCEPT ![c] = t]
  /\ UNCHANGED <<stream, tried, fallback, speed, steady, slow>>

(* try_connect_with_fallback returns, and with it go the tokens tried. *)
Relay(c, t, p) ==
  /\ pc' = [pc EXCEPT ![c] = "relay"]
  /\ token' = [token EXCEPT ![c] = t]
  /\ stream' = [stream EXCEPT ![c] = p]
  /\ tried' = [tried EXCEPT ![c] = {}]
  /\ steady' = [steady EXCEPT ![c] = {}]

(* A fresh connection in time, or an idle one out of the pool, which the  *)
(* peer may have abandoned long ago.                                      *)
Reached(c) == \/ Pooling
              \/ speed[Peer(token[c])] = "fast"
              \/ ~Limited /\ speed[Peer(token[c])] = "slow"

(* A slow stream kept in reserve is dropped. *)
NoReserve(c) == /\ fallback' = [fallback EXCEPT ![c] = {}]
                /\ slow' = [slow EXCEPT ![c] = {}]

Connected(c) ==
  /\ pc[c] = "connect"
  /\ Reached(c)
  /\ Relay(c, token[c], Peer(token[c]))
  /\ NoReserve(c)
  /\ UNCHANGED speed

(* The peer has already reset the stream it was reached by, an idle one or *)
(* a fresh one.  stream.peer_addr()? (middle.rs:195, evaluated where info  *)
(* is logged) then returns past the report, the other peers and the reserve.*)
PeerReset(c) ==
  /\ pc[c] = "connect"
  /\ Reached(c)
  /\ pc' = [pc EXCEPT ![c] = "reset"]
  /\ stream' = [stream EXCEPT ![c] = Peer(token[c])]
  /\ tried' = [tried EXCEPT ![c] = {}]
  /\ NoReserve(c)
  /\ UNCHANGED <<token, speed, steady>>

TryNext(c, failed) == /\ pc' = [pc EXCEPT ![c] = "select"]
                      /\ tried' = [tried EXCEPT ![c] = failed]
                      /\ UNCHANGED <<token, stream, steady>>

GiveUp(c) == /\ pc' = [pc EXCEPT ![c] = "failed"]
             /\ tried' = [tried EXCEPT ![c] = {}]
             /\ UNCHANGED <<token, stream, steady>>

(* Mutants of NextPeerOrGiveUp: giving up one peer early, ... *)
GivesUpEarly(c, failed, reserve) ==
  LET exhausted == Total = 0 \/ Cardinality(failed) + 1 >= Total
  IN  \/ ~exhausted /\ TryNext(c, failed)
      \/ exhausted /\ \E f \in reserve : Relay(c, f.token, f.peer)
      \/ exhausted /\ reserve = {} /\ GiveUp(c)

(* ... returning the reserve with the last token, ... *)
KeepsLastToken(c, failed, reserve) ==
  LET exhausted == Total = 0 \/ Cardinality(failed) >= Total
  IN  \/ ~exhausted /\ TryNext(c, failed)
      \/ exhausted /\ \E f \in reserve : Relay(c, token[c], f.peer)
      \/ exhausted /\ reserve = {} /\ GiveUp(c)

(* ... or trying for ever. *)
NeverGivesUp(c, failed, reserve) == TryNext(c, failed)

(* What follows a failed attempt: the next peer while there are untried   *)
(* tokens, then the reserve, then an error.                               *)
NextPeerOrGiveUp(c, failed, reserve) ==
  LET exhausted == Total = 0 \/ Cardinality(failed) >= Total
  IN  \/ ~exhausted /\ TryNext(c, failed)
      \/ exhausted /\ \E f \in reserve : Relay(c, f.token, f.peer)
      \/ exhausted /\ reserve = {} /\ GiveUp(c)

(* on_failure is reported along with this step. *)
Refused(c) ==
  /\ pc[c] = "connect"
  /\ speed[Peer(token[c])] = "down"
  /\ NextPeerOrGiveUp(c, tried[c] \cup {token[c]}, fallback[c])
  /\ UNCHANGED <<fallback, speed, slow>>

(* A mutant of TooSlow: the last slow stream is kept, not the fastest. *)
TooSlowKeepsLast(c, ms) ==
  /\ Limited
  /\ pc[c] = "connect"
  /\ speed[Peer(token[c])] = "slow"
  /\ fallback' = [fallback EXCEPT ![c] =
                    {[token |-> token[c], peer |-> Peer(token[c]), ms |-> ms]}]
  /\ NextPeerOrGiveUp(c, tried[c] \cup {token[c]}, fallback'[c])
  /\ slow' = [slow EXCEPT ![c] = @ \cup {ms}]
  /\ UNCHANGED speed

(* ... and with this one. *)
TooSlow(c, ms) ==
  /\ Limited
  /\ pc[c] = "connect"
  /\ speed[Peer(token[c])] = "slow"
  /\ fallback' = [fallback EXCEPT ![c] =
                    IF \A f \in @ : ms < f.ms
                      THEN {[token |-> token[c], peer |-> Peer(token[c]), ms |-> ms]}
                      ELSE @]
  /\ NextPeerOrGiveUp(c, tried[c] \cup {token[c]}, fallback'[c])
  /\ slow' = [slow EXCEPT ![c] = @ \cup {ms}]
  /\ UNCHANGED speed

(* The task ends: the relay is over, or the error has been logged.         *)
End(c) ==
  /\ pc' = [pc EXCEPT ![c] = "idle"]
  /\ token' = [token EXCEPT ![c] = NoToken]
  /\ stream' = [stream EXCEPT ![c] = NoPeer]
  /\ tried' = [tried EXCEPT ![c] = {}]
  /\ fallback' = [fallback EXCEPT ![c] = {}]
  /\ steady' = [steady EXCEPT ![c] = {}]
  /\ slow' = [slow EXCEPT ![c] = {}]
  /\ UNCHANGED speed

RelayEnds(c)  == pc[c] = "relay" /\ End(c)
GivesUp(c)    == pc[c] \in {"failed", "reset"} /\ End(c)

(* handle_proxy()? before the relay: its errors are reported to nobody.    *)
ProxyFails(c) == pc[c] = "relay" /\ End(c)

(* local.peer_addr()?: the client has reset its connection by the time its *)
(* address is asked for, before the first pick or when the peer is there.  *)
ClientGone(c) == /\ \/ pc[c] = "select" /\ token[c] = NoToken
                    \/ pc[c] = "connect" /\ Reached(c)
                 /\ End(c)

(* A peer speeds up, slows down, dies or comes back. *)
PeerChanges(p, s) ==
  /\ speed[p] # s
  /\ speed' = [speed EXCEPT ![p] = s]
  /\ steady' = [c \in Conn |-> steady[c] \ {p}]
  /\ UNCHANGED <<pc, token, stream, tried, fallback, slow>>

-----------------------------------------------------------------------------
(* The tokens next() can hand out: token 0 alone when the balancer is off. *)
Tokens == 0 .. (IF Total > 1 THEN Total - 1 ELSE 0)

ConnTypeOK ==
  /\ pc \in [Conn -> {"idle", "select", "connect", "relay", "failed", "reset"}]
  /\ token \in [Conn -> Tokens \cup {NoToken}]
  /\ stream \in [Conn -> Peers \cup {NoPeer}]
  /\ tried \in [Conn -> SUBSET Tokens]
  /\ fallback \in [Conn -> SUBSET [token : Tokens, peer : Peers, ms : SlowMs]]
  /\ speed \in [Peers -> {"fast", "slow", "down"}]
  /\ steady \in [Conn -> SUBSET Peers]
  /\ slow \in [Conn -> SUBSET SlowMs]

(* A client is turned away without a stream in hand only if, of the peers  *)
(* its balancer hands out, none was reached even slowly during the attempt *)
(* and none was up all along (middle.rs:204-213).  With a stream in hand,  *)
(* one whose peer has reset it at once, the client is turned away although *)
(* others may be up or in reserve: middle.rs:195 is the exception.         *)
NoNeedlessFailure ==
  \A c \in Conn :
    pc[c] \in {"failed", "reset"} /\ stream[c] = NoPeer =>
      slow[c] = {} /\ \A t \in Tokens : Peer(t) \notin steady[c]

(* The peer that is praised or blamed for a relay is the one the stream    *)
(* leads to, also when the stream is the reserve (middle.rs:184-187,210).  *)
BlameFollowsStream ==
  \A c \in Conn : pc[c] = "relay" => stream[c] = Peer(token[c])

(* The reserve is the fastest of the slow streams (middle.rs:182-187).     *)
ReserveIsFastest ==
  \A c \in Conn : slow[c] # {} => \E f \in fallback[c] : f.ms = Min(slow[c])

(* A connection attempt comes to an end, in a relay or an error, provided  *)
(* no other goes on for ever beside it, whose picks could leave it with the*)
(* same peer each time (middle.rs:134-217).  The hash balancer need not    *)
(* come round to another peer: its windows may end between two dials.      *)
AttemptEnds ==
  strategy # "iphash" =>
    \A c \in Conn :
      <>[](\A d \in Conn \ {c} : pc[d] \notin {"select", "connect"})
        => (pc[c] = "select" ~> pc[c] \notin {"select", "connect"})

(* An attempt does not go on for ever while some peer stays up: a failed   *)
(* token is marked and the loop picks the next healthy peer                *)
(* (middle.rs:153-155).                                                    *)
FindsHealthyPeer ==
  (\E p \in Peers : <>[](speed[p] = "fast" /\ \E t \in Tokens : Peer(t) = p)) =>
    \A c \in Conn : pc[c] = "select" ~> pc[c] \in {"relay", "idle", "failed", "reset"}
=============================================================================
