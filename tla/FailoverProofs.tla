--------------------------- MODULE FailoverProofs ---------------------------
(***************************************************************************)
(* What failover promises for any number of connections, peers and tokens, *)
(* whichever balancer hands out the tokens.                                *)
(***************************************************************************)
EXTENDS BalancedFailover, FiniteSetTheorems, TLAPS

USE FailoverAssumption, BalancersAssumption DEF NoToken, NoPeer

\* The reserve leads where its token says and is the fastest slow stream.
Reserve == \A c \in Conn : /\ fallback[c] = {} <=> slow[c] = {}
                           /\ \A f \in fallback[c] : /\ f.peer = Peer(f.token)
                                                     /\ f.ms \in slow[c]
                                                     /\ \A ms \in slow[c] : f.ms <= ms

\* A peer that was up all along is up now, and was not found down or slow.
\* An attempt begins with nothing tried.
Steady == \A c \in Conn : /\ \A p \in steady[c] : speed[p] = "fast"
                          /\ \A t \in tried[c] : Peer(t) \notin steady[c]
                          /\ pc[c] = "idle" => tried[c] = {}

\* A task that dials or relays has a token to report on.
Armed == \A c \in Conn : pc[c] \in {"connect", "relay"} => token[c] \in Tokens

ConnInv == /\ ConnTypeOK /\ Reserve /\ Steady /\ Armed
           /\ NoNeedlessFailure /\ BlameFollowsStream

\* The steps of connections and peers, with any token for an answer.
Ends(c) == RelayEnds(c) \/ GivesUp(c) \/ ProxyFails(c) \/ ClientGone(c)

ConnStep == \/ \E c \in Conn : \/ Accept(c)
                               \/ \E t \in Tokens : Choose(c, t)
                               \/ Connected(c) \/ PeerReset(c) \/ Refused(c)
                               \/ \E ms \in SlowMs : TooSlow(c, ms)
                               \/ Ends(c)
            \/ \E p \in Peers, s \in {"fast", "slow", "down"} : PeerChanges(p, s)

-----------------------------------------------------------------------------
\* Tokens are finitely many, and each has its peer.
LEMMA TokenFacts ==
  /\ \A t \in Tokens : t \in Nat /\ Peer(t) \in Peers
  /\ IsFiniteSet(Tokens)
  /\ Total \in Nat /\ Cardinality(Tokens) = IF Total = 0 THEN 1 ELSE Total
  /\ Total = 0 => Tokens = {0}
<1>1. Total \in Nat
  BY DEF Total
<1>2. CASE Total > 1
  <2>1. Tokens = 0 .. Total - 1
    BY <1>2 DEF Tokens
  <2>2. IsFiniteSet(0 .. Total - 1) /\ Cardinality(0 .. Total - 1) = Total
    <3>1. Total - 1 \in Int /\ 0 \in Int
      BY <1>1
    <3>2. /\ IsFiniteSet(0 .. Total - 1)
          /\ Cardinality(0 .. Total - 1) = IF 0 > Total - 1 THEN 0 ELSE Total - 1 - 0 + 1
      BY <3>1, FS_Interval, Zenon
    <3>3. QED
      BY <1>1, <1>2, <3>2
  <2>3. QED
    BY <1>1, <1>2, <2>1, <2>2 DEF Peer, Peers
<1>3. CASE ~(Total > 1)
  <2>1. Tokens = 0 .. 0 /\ Tokens = {0}
    BY <1>3 DEF Tokens
  <2>2. IsFiniteSet({0}) /\ Cardinality({0}) = 1
    BY FS_Singleton, Zenon
  <2>3. QED
    BY <1>1, <1>3, <2>1, <2>2 DEF Peer, Peers
<1>4. QED
  BY <1>2, <1>3

\* When as many tokens have failed as there are, all have.
LEMMA Exhausted ==
  ASSUME NEW failed \in SUBSET Tokens, NEW t \in failed,
         Total = 0 \/ Cardinality(failed) >= Total
  PROVE  failed = Tokens
<1>1. CASE Total = 0
  BY <1>1, TokenFacts
<1>2. CASE Total # 0
  <2>1. /\ IsFiniteSet(failed) /\ Cardinality(failed) <= Cardinality(Tokens)
        /\ Cardinality(Tokens) = Cardinality(failed) => Tokens = failed
    BY TokenFacts, FS_Subset
  <2>2. Cardinality(failed) \in Nat
    BY <2>1, FS_CardinalityType
  <2>3. QED
    BY <1>2, <2>1, <2>2, TokenFacts
<1>3. QED
  BY <1>1, <1>2

-----------------------------------------------------------------------------
\* A dial that did not do, and what follows it.
LEMMA NextPeerKeeps ==
  ASSUME ConnInv, strategy' = strategy, NEW c \in Conn, pc[c] = "connect",
         Peer(token[c]) \notin steady[c],
         NextPeerOrGiveUp(c, tried[c] \cup {token[c]}, fallback'[c]),
         speed' = speed, \A d \in Conn : d # c => slow'[d] = slow[d],
         ConnTypeOK', Reserve'
  PROVE  ConnInv'
<1> DEFINE failed == tried[c] \cup {token[c]}
<1>1. ConnTypeOK /\ Reserve /\ Steady /\ Armed /\ NoNeedlessFailure /\ BlameFollowsStream
  BY DEF ConnInv
<1>2. failed \in SUBSET Tokens /\ \A t \in failed : Peer(t) \notin steady[c]
  BY <1>1 DEF ConnTypeOK, Steady, Armed
<1>3. Tokens' = Tokens
  BY DEF Tokens, Total
<1>4. CASE TryNext(c, failed)
  <2>1. Steady'
    BY <1>1, <1>2, <1>4 DEF TryNext, Steady, ConnTypeOK
  <2>2. Armed'
    BY <1>1, <1>3, <1>4 DEF TryNext, Armed, ConnTypeOK
  <2>3. NoNeedlessFailure' /\ BlameFollowsStream'
    BY <1>1, <1>3, <1>4 DEF TryNext, NoNeedlessFailure, BlameFollowsStream, ConnTypeOK
  <2>4. QED
    BY <2>1, <2>2, <2>3 DEF ConnInv
<1>5. ASSUME NEW f \in fallback'[c], Relay(c, f.token, f.peer)
      PROVE  ConnInv'
  <2>1. f.peer = Peer(f.token)
    BY DEF Reserve
  <2>2. Steady' /\ Armed'
    <3>1. fallback'[c] \in SUBSET [token : Tokens', peer : Peers, ms : SlowMs]
      BY DEF ConnTypeOK
    <3>2. f.token \in Tokens'
      BY <3>1
    <3>3. Armed'
      BY <1>1, <1>3, <1>5, <3>2 DEF Relay, Armed, ConnTypeOK
    <3>4. QED
      BY <1>1, <1>3, <1>5, <3>3 DEF Relay, Steady, ConnTypeOK
  <2>3. NoNeedlessFailure' /\ BlameFollowsStream'
    BY <1>1, <1>3, <1>5, <2>1 DEF Relay, NoNeedlessFailure, BlameFollowsStream, ConnTypeOK
  <2>4. QED
    BY <2>2, <2>3 DEF ConnInv
<1>6. CASE /\ Total = 0 \/ Cardinality(failed) >= Total
           /\ fallback'[c] = {}
           /\ GiveUp(c)
  <2>1. failed = Tokens
    <3>1. failed \in SUBSET Tokens /\ token[c] \in failed
      BY <1>2
    <3> HIDE DEF failed
    <3>2. QED
      BY <1>6, <3>1, Exhausted
  <2>2. \A t \in Tokens : Peer(t) \notin steady'[c]
    BY <1>2, <1>6, <2>1 DEF GiveUp
  <2>3. slow'[c] = {}
    BY <1>6 DEF Reserve
  <2>4. NoNeedlessFailure'
    BY <1>1, <1>3, <1>6, <2>2, <2>3 DEF GiveUp, NoNeedlessFailure, ConnTypeOK
  <2>5. Steady' /\ Armed' /\ BlameFollowsStream'
    BY <1>1, <1>3, <1>6 DEF GiveUp, Steady, Armed, BlameFollowsStream, ConnTypeOK
  <2>6. QED
    BY <2>4, <2>5 DEF ConnInv
<1>7. QED
  BY <1>4, <1>5, <1>6 DEF NextPeerOrGiveUp

\* What a dial that did not do leaves in the task's variables has the right types.
LEMMA NextPeerTypes ==
  ASSUME ConnTypeOK, strategy' = strategy, NEW c \in Conn,
         NEW failed \in SUBSET Tokens,
         fallback' \in [Conn -> SUBSET [token : Tokens, peer : Peers, ms : SlowMs]],
         slow' \in [Conn -> SUBSET SlowMs], speed' = speed,
         NextPeerOrGiveUp(c, failed, fallback'[c])
  PROVE  ConnTypeOK'
<1>1. Tokens' = Tokens
  BY DEF Tokens, Total
<1>2. CASE TryNext(c, failed)
  BY <1>1, <1>2 DEF TryNext, ConnTypeOK
<1>3. CASE \E f \in fallback'[c] : Relay(c, f.token, f.peer)
  <2>1. PICK f \in fallback'[c] : Relay(c, f.token, f.peer)
    BY <1>3
  <2>2. f \in [token : Tokens, peer : Peers, ms : SlowMs]
    OBVIOUS
  <2>3. f.token \in Tokens /\ f.peer \in Peers
    BY <2>2
  <2>4. QED
    BY <1>1, <2>1, <2>3 DEF Relay, ConnTypeOK
<1>4. CASE GiveUp(c)
  BY <1>1, <1>4 DEF GiveUp, ConnTypeOK
<1>5. QED
  BY <1>2, <1>3, <1>4 DEF NextPeerOrGiveUp

-----------------------------------------------------------------------------
LEMMA ConnInvInit == BalancedInit => ConnInv
<1> SUFFICES ASSUME ConnInit PROVE ConnInv
  BY DEF BalancedInit
<1>1. ConnTypeOK
  BY DEF ConnInit, ConnTypeOK
<1>2. QED
  BY <1>1 DEF ConnInit, ConnInv, Reserve, Steady, Armed, NoNeedlessFailure, BlameFollowsStream

LEMMA ConnInvKept ==
  ASSUME ConnInv, strategy' = strategy, ConnStep \/ UNCHANGED connVars
  PROVE  ConnInv'
<1>1. ConnTypeOK /\ Reserve /\ Steady /\ Armed /\ NoNeedlessFailure /\ BlameFollowsStream
  BY DEF ConnInv
<1>2. Tokens' = Tokens
  BY DEF Tokens, Total
<1>3. ASSUME NEW c \in Conn, Accept(c)
      PROVE  ConnInv'
  <2>1. steady' \in [Conn -> SUBSET Peers] /\ \A p \in steady'[c] : speed'[p] = "fast"
    BY <1>1, <1>3 DEF Accept, ConnTypeOK
  <2>2. tried[c] = {}
    BY <1>1, <1>3 DEF Accept, Steady
  <2>3. ConnTypeOK' /\ Steady'
    BY <1>1, <1>2, <1>3, <2>1, <2>2 DEF Accept, ConnTypeOK, Steady
  <2>4. Reserve' /\ Armed' /\ NoNeedlessFailure' /\ BlameFollowsStream'
    BY <1>1, <1>2, <1>3 DEF Accept, ConnTypeOK, Reserve, Armed, NoNeedlessFailure, BlameFollowsStream
  <2>5. QED
    BY <2>3, <2>4 DEF ConnInv
<1>4. ASSUME NEW c \in Conn, NEW t \in Tokens, Choose(c, t)
      PROVE  ConnInv'
  <2>1. ConnTypeOK'
    BY <1>1, <1>2, <1>4 DEF Choose, ConnTypeOK
  <2>2. Reserve' /\ Steady' /\ Armed' /\ NoNeedlessFailure' /\ BlameFollowsStream'
    BY <1>1, <1>2, <1>4 DEF Choose, ConnTypeOK, Reserve, Steady, Armed, NoNeedlessFailure, BlameFollowsStream
  <2>3. QED
    BY <2>1, <2>2 DEF ConnInv
<1>5. ASSUME NEW c \in Conn, Connected(c)
      PROVE  ConnInv'
  <2>1. token[c] \in Tokens /\ Peer(token[c]) \in Peers
    BY <1>1, <1>5, TokenFacts DEF Connected, Armed
  <2>2. ConnTypeOK'
    BY <1>1, <1>2, <1>5, <2>1 DEF Connected, Relay, NoReserve, ConnTypeOK
  <2>3. Reserve' /\ Steady' /\ Armed'
    BY <1>1, <1>2, <1>5 DEF Connected, Relay, NoReserve, ConnTypeOK, Reserve, Steady, Armed
  <2>4. NoNeedlessFailure' /\ BlameFollowsStream'
    BY <1>1, <1>2, <1>5 DEF Connected, Relay, NoReserve, ConnTypeOK, NoNeedlessFailure, BlameFollowsStream
  <2>5. QED
    BY <2>2, <2>3, <2>4 DEF ConnInv
<1>6. ASSUME NEW c \in Conn, Refused(c)
      PROVE  ConnInv'
  <2>1. /\ token[c] \in Tokens /\ Peer(token[c]) \notin steady[c]
        /\ tried[c] \cup {token[c]} \in SUBSET Tokens
    BY <1>1, <1>6 DEF Refused, Armed, Steady, ConnTypeOK
  <2>2. ConnTypeOK'
    BY <1>1, <1>6, <2>1, NextPeerTypes DEF Refused, ConnTypeOK
  <2>3. Reserve'
    BY <1>1, <1>6 DEF Refused, Reserve
  <2>4. QED
    BY <1>6, <2>1, <2>2, <2>3, NextPeerKeeps DEF Refused
<1>7. ASSUME NEW c \in Conn, NEW ms \in SlowMs, TooSlow(c, ms)
      PROVE  ConnInv'
  <2> DEFINE r == [token |-> token[c], peer |-> Peer(token[c]), ms |-> ms]
  <2>1. /\ token[c] \in Tokens /\ Peer(token[c]) \in Peers /\ Peer(token[c]) \notin steady[c]
        /\ tried[c] \cup {token[c]} \in SUBSET Tokens
    BY <1>1, <1>7, TokenFacts DEF TooSlow, Armed, Steady, ConnTypeOK
  <2>2. r \in [token : Tokens, peer : Peers, ms : SlowMs]
    BY <2>1
  <2>3. r.peer = Peer(r.token) /\ r.ms = ms
    OBVIOUS
  <2> HIDE DEF r
  <2>4. /\ fallback' = [fallback EXCEPT ![c] = IF \A f \in @ : ms < f.ms THEN {r} ELSE @]
        /\ slow' = [slow EXCEPT ![c] = @ \cup {ms}]
        /\ NextPeerOrGiveUp(c, tried[c] \cup {token[c]}, fallback'[c])
        /\ speed' = speed /\ pc[c] = "connect"
    BY <1>7 DEF TooSlow, r
  <2>5. /\ fallback' \in [Conn -> SUBSET [token : Tokens, peer : Peers, ms : SlowMs]]
        /\ slow' \in [Conn -> SUBSET SlowMs]
        /\ slow'[c] = slow[c] \cup {ms}
        /\ \A d \in Conn : d # c => slow'[d] = slow[d] /\ fallback'[d] = fallback[d]
    BY <1>1, <2>2, <2>4 DEF ConnTypeOK
  <2>6. ConnTypeOK'
    BY <1>1, <2>1, <2>4, <2>5, NextPeerTypes
  <2>7. /\ fallback'[c] # {}
        /\ \A f \in fallback'[c] : /\ f.peer = Peer(f.token)
                                   /\ f.ms \in slow'[c]
                                   /\ \A m \in slow'[c] : f.ms <= m
    <3>1. slow[c] \subseteq Nat /\ ms \in Nat
      BY <1>1 DEF ConnTypeOK
    <3>2. CASE \A f \in fallback[c] : ms < f.ms
      <4>1. fallback'[c] = {r}
        BY <1>1, <2>4, <3>2 DEF ConnTypeOK
      <4>2. \A m \in slow[c] : ms <= m
        BY <1>1, <3>1, <3>2 DEF Reserve
      <4>3. QED
        BY <2>3, <2>5, <3>1, <4>1, <4>2
    <3>3. CASE ~ \A f \in fallback[c] : ms < f.ms
      <4>1. fallback'[c] = fallback[c]
        BY <1>1, <2>4, <3>3 DEF ConnTypeOK
      <4>2. PICK g \in fallback[c] : ~(ms < g.ms)
        BY <3>3
      <4>3. ASSUME NEW f \in fallback[c]
            PROVE  f.ms <= ms
        <5>1. f.ms \in slow[c] /\ g.ms \in slow[c] /\ f.ms <= g.ms
          BY <1>1 DEF Reserve
        <5>2. QED
          BY <3>1, <4>2, <5>1
      <4>4. QED
        BY <1>1, <2>5, <4>1, <4>2, <4>3 DEF Reserve
    <3>4. QED
      BY <3>2, <3>3
  <2>8. Reserve'
    BY <1>1, <2>5, <2>7 DEF Reserve
  <2>9. QED
    BY <2>1, <2>4, <2>5, <2>6, <2>8, NextPeerKeeps
<1>8. ASSUME NEW c \in Conn, Ends(c)
      PROVE  ConnInv'
  <2>1. End(c)
    BY <1>8 DEF Ends, RelayEnds, GivesUp, ProxyFails, ClientGone
  <2>2. ConnTypeOK'
    BY <1>1, <1>2, <2>1 DEF End, ConnTypeOK
  <2>3. Reserve' /\ Steady' /\ Armed'
    BY <1>1, <1>2, <2>1 DEF End, ConnTypeOK, Reserve, Steady, Armed
  <2>4. NoNeedlessFailure'
    BY <1>1, <1>2, <2>1 DEF End, ConnTypeOK, NoNeedlessFailure
  <2>5. BlameFollowsStream'
    BY <1>1, <1>2, <2>1 DEF End, ConnTypeOK, BlameFollowsStream
  <2>6. QED
    BY <2>2, <2>3, <2>4, <2>5 DEF ConnInv
<1>9. ASSUME NEW p \in Peers, NEW s \in {"fast", "slow", "down"}, PeerChanges(p, s)
      PROVE  ConnInv'
  <2>1. /\ \A c \in Conn : steady'[c] = steady[c] \ {p}
        /\ \A q \in Peers : q # p => speed'[q] = speed[q]
    BY <1>1, <1>9 DEF PeerChanges, ConnTypeOK
  <2>2. ConnTypeOK'
    BY <1>1, <1>2, <1>9 DEF PeerChanges, ConnTypeOK
  <2>3. Steady'
    BY <1>1, <1>9, <2>1 DEF PeerChanges, ConnTypeOK, Steady
  <2>4. Reserve' /\ Armed' /\ NoNeedlessFailure' /\ BlameFollowsStream'
    BY <1>1, <1>2, <1>9, <2>1 DEF PeerChanges, Reserve, Armed, NoNeedlessFailure, BlameFollowsStream
  <2>5. QED
    BY <2>2, <2>3, <2>4 DEF ConnInv
<1>10. CASE UNCHANGED connVars
  <2>1. ConnTypeOK'
    BY <1>1, <1>2, <1>10 DEF connVars, ConnTypeOK
  <2>2. QED
    BY <1>1, <1>2, <1>10, <2>1 DEF connVars, ConnInv, Reserve, Steady, Armed, NoNeedlessFailure, BlameFollowsStream
<1>11. ASSUME NEW c \in Conn, PeerReset(c)
       PROVE  ConnInv'
  <2>1. token[c] \in Tokens /\ Peer(token[c]) \in Peers
    BY <1>1, <1>11, TokenFacts DEF PeerReset, Armed
  <2>2. ConnTypeOK'
    BY <1>1, <1>2, <1>11, <2>1 DEF PeerReset, NoReserve, ConnTypeOK
  <2>3. Reserve' /\ Steady' /\ Armed'
    BY <1>1, <1>2, <1>11 DEF PeerReset, NoReserve, ConnTypeOK, Reserve, Steady, Armed
  <2>4. stream'[c] # NoPeer
    BY <1>1, <1>11, <2>1 DEF PeerReset, ConnTypeOK, Peers
  <2>5. NoNeedlessFailure' /\ BlameFollowsStream'
    BY <1>1, <1>2, <1>11, <2>4 DEF PeerReset, NoReserve, ConnTypeOK, NoNeedlessFailure, BlameFollowsStream
  <2>6. QED
    BY <2>2, <2>3, <2>5 DEF ConnInv
<1>12. QED
  BY <1>3, <1>4, <1>5, <1>6, <1>7, <1>8, <1>9, <1>10, <1>11 DEF ConnStep

-----------------------------------------------------------------------------
\* What the balancers need for their answers to be tokens: every walk is on
\* the ring.
WalkInv == /\ strategy \in Strategies
           /\ home \in [Conn -> 0 .. RingLen - 1]
           /\ start \in [Conn -> 0 .. RingLen - 1]
           /\ off \in [Conn -> 0 .. RingLen - 1]
           /\ lbpc \in [Conn -> {"idle", "load_fails", "load_checked", "clear_fails",
                                 "clear_checked", "forget_window", "open_window"}]
           /\ strategy # "iphash" => \A c \in Conn : lbpc[c] = "idle"
           /\ DOMAIN pick = Conn

\* The token of a virtual node.
LEMMA OnRing ==
  ASSUME WalkInv, NEW c \in Conn
  PROVE  LB!At(c) \in 0 .. N - 1
<1>1. start[c] \in 0 .. RingLen - 1 /\ off[c] \in 0 .. RingLen - 1
  BY DEF WalkInv
<1>2. (start[c] + off[c]) % RingLen \in 0 .. RingLen - 1
  BY <1>1
<1>3. QED
  BY <1>2 DEF LB!At

\* What a call that returns leaves behind.
LEMMA Returned ==
  ASSUME WalkInv, NEW c \in Conn, NEW n \in 0 .. N - 1, LB!Return(c, n),
         UNCHANGED <<strategy, home>>
  PROVE  WalkInv' /\ pick'[c] = n
<1>1. 0 \in 0 .. RingLen - 1
  OBVIOUS
<1>2. QED
  BY <1>1 DEF WalkInv, LB!Return, LB!GoTo

\* Steps of the hash balancer's calls keep to the ring, and next() answers
\* with a token.
LEMMA NextCalled ==
  ASSUME WalkInv, NEW c \in Conn, strategy = "iphash", LB!NextCall(c, home[c]),
         UNCHANGED <<strategy, home>>
  PROVE  WalkInv' /\ (lbpc'[c] = "idle" => pick'[c] \in 0 .. N - 1)
<1>1. home[c] \in 0 .. RingLen - 1 /\ Ring[home[c]] \in 0 .. N - 1
  BY DEF WalkInv
<1>2. CASE LB!Return(c, Ring[home[c]])
  BY <1>1, <1>2, Returned
<1>3. CASE /\ start' = [start EXCEPT ![c] = home[c]]
           /\ LB!GoTo(c, "load_fails")
           /\ UNCHANGED <<off, age, pick>>
  BY <1>1, <1>3 DEF WalkInv, LB!GoTo
<1>4. QED
  BY <1>2, <1>3 DEF LB!NextCall

LEMMA Stepped ==
  ASSUME WalkInv, NEW c \in Conn, LB!Step(c), UNCHANGED <<strategy, home>>
  PROVE  /\ WalkInv' /\ strategy = "iphash"
         /\ LB!Walking(c) /\ lbpc'[c] = "idle" => pick'[c] \in 0 .. N - 1
<1>1. strategy = "iphash"
  BY DEF WalkInv, LB!Step, LB!LoadFails, LB!LoadChecked, LB!ClearFails, LB!ClearChecked,
         LB!ForgetWindow, LB!OpenWindow
<1>2. LB!At(c) \in 0 .. N - 1
  BY OnRing
<1>3. CASE LB!Return(c, LB!At(c))
  BY <1>1, <1>2, <1>3, Returned
<1>4. Ring[start[c]] \in 0 .. N - 1
  BY DEF WalkInv
<1>5. CASE LB!Return(c, Ring[start[c]])
  BY <1>1, <1>4, <1>5, Returned
<1>6. CASE /\ off[c] + 1 < RingLen
           /\ off' = [off EXCEPT ![c] = @ + 1]
           /\ LB!GoTo(c, "load_fails")
           /\ UNCHANGED <<start, age, pick>>
  <2>1. off[c] + 1 \in 0 .. RingLen - 1
    <3>1. off[c] \in 0 .. RingLen - 1
      BY DEF WalkInv
    <3>2. off[c] + 1 < RingLen
      BY <1>6
    <3>3. QED
      BY <3>1, <3>2
  <2>2. QED
    BY <1>1, <1>6, <2>1 DEF WalkInv, LB!GoTo
<1>7. ASSUME NEW label \in {"load_checked", "clear_fails", "clear_checked"},
             LB!GoTo(c, label), UNCHANGED <<start, off, pick>>
      PROVE  WalkInv' /\ lbpc'[c] # "idle"
  BY <1>1, <1>7 DEF WalkInv, LB!GoTo
<1>8. CASE LB!ForgetWindow(c) \/ LB!OpenWindow(c)
  <2>1. ~LB!Walking(c)
    BY <1>8 DEF LB!ForgetWindow, LB!OpenWindow, LB!Walking
  <2>2. lbpc' = [lbpc EXCEPT ![c] = "idle"] /\ UNCHANGED <<start, off, pick>>
    BY <1>8 DEF LB!ForgetWindow, LB!OpenWindow, LB!GoTo, LB!walk
  <2>3. QED
    BY <1>1, <2>1, <2>2 DEF WalkInv
<1>9. CASE LB!LoadFails(c)
  BY <1>1, <1>3, <1>7, <1>9 DEF LB!LoadFails, LB!walk
<1>10. CASE LB!LoadChecked(c)
  BY <1>1, <1>5, <1>6, <1>7, <1>10 DEF LB!LoadChecked, LB!walk, LB!GoTo, WalkInv
<1>11. CASE LB!ClearFails(c)
  BY <1>1, <1>7, <1>11 DEF LB!ClearFails, LB!walk
<1>12. CASE LB!ClearChecked(c)
  BY <1>1, <1>3, <1>12 DEF LB!ClearChecked
<1>13. QED
  BY <1>8, <1>9, <1>10, <1>11, <1>12 DEF LB!Step

LEMMA Reported ==
  ASSUME WalkInv, NEW c \in Conn, NEW t, strategy' = strategy,
         home' \in [Conn -> 0 .. RingLen - 1],
         ReportSuccess(c, t) \/ ReportFailure(c, t)
  PROVE  WalkInv'
<1>1. CASE UNCHANGED <<start, off, pick, lbpc>>
  BY <1>1 DEF WalkInv
<1>2. CASE strategy = "iphash" /\ LB!OnSuccess(c, t)
  BY <1>2 DEF WalkInv, LB!OnSuccess, LB!GoTo, LB!walk
<1>3. CASE strategy = "iphash" /\ LB!OnFailure(c, t)
  BY <1>1, <1>3 DEF WalkInv, LB!OnFailure, LB!GoTo, LB!walk
<1>4. QED
  BY <1>1, <1>2, <1>3 DEF ReportSuccess, ReportFailure, Ignored, lbVars, ihVars

-----------------------------------------------------------------------------
LEMMA WalkInvInit == BalancedInit => WalkInv
<1> SUFFICES ASSUME BalancedInit PROVE WalkInv
  OBVIOUS
<1>1. 0 \in 0 .. RingLen - 1
  OBVIOUS
<1>2. QED
  BY <1>1 DEF BalancedInit, LB!Init, WalkInv

\* Every step of the composition is one of the connections' and peers', with a
\* token where the balancer answers, or none of their business.
LEMMA Simulates ==
  ASSUME WalkInv, BalancedNext
  PROVE  WalkInv' /\ strategy' = strategy /\ (ConnStep \/ UNCHANGED connVars)
<1>1. \A t \in 0 .. N - 1 : strategy # "off" => t \in Tokens
  BY DEF Tokens, Total
<1>2. 0 \in Tokens
  BY TokenFacts DEF Tokens
<1>3. ASSUME NEW c \in Conn, AcceptFrom(c)
      PROVE  WalkInv' /\ strategy' = strategy /\ ConnStep
  <2>1. PICK s \in 0 .. RingLen - 1 : home' = [home EXCEPT ![c] = s]
    <3>1. PICK s \in IF strategy = "iphash" THEN 0 .. RingLen - 1 ELSE {0} :
            home' = [home EXCEPT ![c] = s]
      BY <1>3 DEF AcceptFrom
    <3>2. s \in 0 .. RingLen - 1
      OBVIOUS
    <3>3. QED
      BY <3>1, <3>2
  <2>2. WalkInv'
    BY <1>3, <2>1 DEF AcceptFrom, WalkInv, lbVars, ihVars
  <2>3. QED
    BY <1>3, <2>2 DEF AcceptFrom, ConnStep
<1>4. ASSUME NEW c \in Conn, Select(c)
      PROVE  WalkInv' /\ strategy' = strategy /\ (ConnStep \/ UNCHANGED connVars)
  <2>1. CASE strategy = "off" /\ Choose(c, 0) /\ UNCHANGED lbVars
    BY <1>2, <1>4, <2>1 DEF Select, ConnStep, WalkInv, lbVars, ihVars
  <2>2. CASE strategy = "roundrobin" /\ RR!NextCall /\ Choose(c, rrPick') /\ UNCHANGED ihVars
    <3>1. rrPick' \in 0 .. N - 1
      BY <2>2 DEF RR!NextCall, RR!NextPeer, RR!NextFallback, RR!Eligible, RR!Node
    <3>2. rrPick' \in Tokens
      BY <1>1, <2>2, <3>1
    <3>3. QED
      BY <1>4, <2>2, <3>2 DEF Select, ConnStep, WalkInv, ihVars
  <2>3. CASE strategy = "iphash" /\ LB!NextCall(c, home[c]) /\ Returns(c)
    <3>1. WalkInv' /\ (lbpc'[c] = "idle" => pick'[c] \in Tokens)
      BY <1>1, <1>4, <2>3, NextCalled DEF Select
    <3>2. QED
      BY <1>4, <2>3, <3>1 DEF Select, Returns, Idle, ConnStep
  <2>4. QED
    BY <1>4, <2>1, <2>2, <2>3 DEF Select
<1>5. ASSUME NEW c \in Conn, LBStep(c)
      PROVE  WalkInv' /\ strategy' = strategy /\ (ConnStep \/ UNCHANGED connVars)
  <2>1. /\ WalkInv'
        /\ LB!Walking(c) /\ lbpc'[c] = "idle" => pick'[c] \in Tokens
    BY <1>1, <1>5, Stepped DEF LBStep
  <2>2. QED
    BY <1>5, <2>1 DEF LBStep, Returns, Idle, ConnStep
<1>6. ASSUME NEW c \in Conn, Forget(c), home \in [Conn -> 0 .. RingLen - 1]
      PROVE  home' \in [Conn -> 0 .. RingLen - 1]
  <2>1. 0 \in 0 .. RingLen - 1
    OBVIOUS
  <2>2. QED
    BY <1>6, <2>1 DEF Forget
<1>7. ASSUME NEW c \in Conn, Dial(c)
      PROVE  WalkInv' /\ strategy' = strategy /\ ConnStep
  <2>1. home' \in [Conn -> 0 .. RingLen - 1]
    BY <1>6, <1>7 DEF Dial, WalkInv
  <2>2. strategy' = strategy
    BY <1>7 DEF Dial
  <2>3. CASE DialFails(c)
    BY <2>1, <2>2, <2>3, Reported DEF DialFails, ConnStep
  <2>4. CASE (Connected(c) \/ PeerReset(c)) /\ UNCHANGED lbVars
    BY <2>1, <2>2, <2>4 DEF WalkInv, lbVars, ihVars, ConnStep
  <2>5. QED
    BY <1>7, <2>3, <2>4 DEF Dial
<1>8. ASSUME NEW c \in Conn, RelayDone(c)
      PROVE  WalkInv' /\ strategy' = strategy /\ ConnStep
  <2>1. home' \in [Conn -> 0 .. RingLen - 1] /\ strategy' = strategy
    BY <1>8 DEF RelayDone, WalkInv
  <2>2. QED
    BY <1>8, <2>1, Reported DEF RelayDone, Ends, ConnStep
<1>9. ASSUME NEW c \in Conn, Leave(c)
      PROVE  WalkInv' /\ strategy' = strategy /\ ConnStep
  <2>1. home' \in [Conn -> 0 .. RingLen - 1]
    BY <1>6, <1>9 DEF Leave, WalkInv
  <2>2. QED
    BY <1>9, <2>1 DEF Leave, WalkInv, lbVars, ihVars, Ends, ConnStep
<1>10. ASSUME NEW p \in Peers, Change(p)
       PROVE  WalkInv' /\ strategy' = strategy /\ ConnStep
  BY <1>10 DEF Change, WalkInv, lbVars, ihVars, ConnStep
<1>11. CASE Elapse
  <2>1. UNCHANGED <<start, off, pick, lbpc, strategy, home, connVars>>
    BY <1>11 DEF Elapse, LB!Tick, ihVars
  <2>2. QED
    BY <2>1 DEF WalkInv
<1>12. QED
  BY <1>3, <1>4, <1>5, <1>7, <1>8, <1>9, <1>10, <1>11 DEF BalancedNext

-----------------------------------------------------------------------------
LEMMA FailoverInv == BalancedSpec => [](ConnInv /\ WalkInv)
<1>1. BalancedInit => ConnInv /\ WalkInv
  BY ConnInvInit, WalkInvInit
<1>2. ConnInv /\ WalkInv /\ [BalancedNext]_allVars => (ConnInv /\ WalkInv)'
  <2> SUFFICES ASSUME ConnInv, WalkInv, [BalancedNext]_allVars
               PROVE  ConnInv' /\ WalkInv'
    OBVIOUS
  <2>1. CASE BalancedNext
    BY <2>1, Simulates, ConnInvKept
  <2>2. CASE UNCHANGED allVars
    <3>1. strategy' = strategy /\ UNCHANGED connVars
      BY <2>2 DEF allVars
    <3>2. WalkInv'
      BY <2>2 DEF allVars, lbVars, ihVars, WalkInv
    <3>3. QED
      BY <3>1, <3>2, ConnInvKept
  <2>3. QED
    BY <2>1, <2>2
<1>3. QED
  BY <1>1, <1>2, PTL DEF BalancedSpec

(* The types of the connections' state, for any number of them, whichever   *)
(* strategy hands out the tokens (middle.rs:109-229).                       *)
THEOREM ConnTypes == BalancedSpec => []ConnTypeOK
<1>1. ConnInv => ConnTypeOK
  BY DEF ConnInv
<1>2. QED
  BY <1>1, FailoverInv, PTL

(* However many connections, peers and tokens there are, and whatever other *)
(* tasks report meanwhile: a client is turned away without a stream in hand *)
(* only if every peer the balancer hands out was found down or left fast at *)
(* some moment of the attempt, and none was reached even slowly             *)
(* (middle.rs:204-229).  Of a client whose peer resets the stream it has    *)
(* just been reached by, which is turned away at once (:195), it says       *)
(* nothing.                                                                 *)
THEOREM FailureNeverNeedless == BalancedSpec => []NoNeedlessFailure
<1>1. ConnInv => NoNeedlessFailure
  BY DEF ConnInv
<1>2. QED
  BY <1>1, FailoverInv, PTL

(* A relay's outcome is booked on the peer its stream leads to, also when   *)
(* the stream is the reserve (middle.rs:184-187, :210).                     *)
THEOREM BlameOnTheRightPeer == BalancedSpec => []BlameFollowsStream
<1>1. ConnInv => BlameFollowsStream
  BY DEF ConnInv
<1>2. QED
  BY <1>1, FailoverInv, PTL

(* The stream in reserve is the fastest of all the slow ones the attempt    *)
(* has made (middle.rs:182-187).                                            *)
THEOREM ReserveFastest == BalancedSpec => []ReserveIsFastest
<1>1. ConnInv => ReserveIsFastest
  <2> SUFFICES ASSUME ConnInv, NEW c \in Conn, slow[c] # {}
               PROVE  \E f \in fallback[c] : f.ms = Min(slow[c])
    BY DEF ReserveIsFastest
  <2>1. PICK f \in fallback[c] : f.ms \in slow[c] /\ \A ms \in slow[c] : f.ms <= ms
    BY DEF ConnInv, Reserve
  <2>2. slow[c] \subseteq Nat
    BY DEF ConnInv, ConnTypeOK
  <2>3. \A x \in slow[c] : (\A y \in slow[c] : x <= y) => x = f.ms
    BY <2>1, <2>2
  <2>4. Min(slow[c]) = f.ms
    BY <2>1, <2>3 DEF Min
  <2>5. QED
    BY <2>4
<1>2. QED
  BY <1>1, FailoverInv, PTL

-----------------------------------------------------------------------------
(* Either balancer, called by the connections.                             *)

\* What the connections report is about a peer of the balancer.
LEMMA TokensAreNodes ==
  ASSUME ConnInv, strategy # "off", NEW c \in Conn, pc[c] \in {"connect", "relay"}
  PROVE  token[c] \in 0 .. N - 1
<1>1. token[c] \in Tokens
  BY DEF ConnInv, Armed
<1>2. QED
  BY <1>1 DEF Tokens, Total

\* A report is on the token of a dial or a relay.
LEMMA ReportsOn ==
  ASSUME NEW c \in Conn, DialFails(c) \/ RelayDone(c)
  PROVE  /\ pc[c] \in {"connect", "relay"}
         /\ ReportSuccess(c, token[c]) \/ ReportFailure(c, token[c])
BY DEF DialFails, Refused, TooSlow, RelayDone, RelayEnds

LEMMA RoundRobinStep ==
  ASSUME ConnInv, WalkInv, strategy = "roundrobin", [BalancedNext]_allVars
  PROVE  [RR!Next]_(RR!vars)
<1>1. CASE UNCHANGED lbVars \/ UNCHANGED allVars
  BY <1>1 DEF allVars, lbVars, rrVars, RR!vars
<1>2. ASSUME NEW c \in Conn, Select(c)
      PROVE  RR!Next \/ UNCHANGED lbVars
  BY <1>2 DEF Select, RR!Next
<1>3. ASSUME NEW c \in Conn, LBStep(c)
      PROVE  FALSE
  BY <1>3 DEF LBStep, WalkInv, LB!Step, LB!LoadFails, LB!LoadChecked, LB!ClearFails,
              LB!ClearChecked, LB!ForgetWindow, LB!OpenWindow
<1>4. ASSUME NEW c \in Conn, DialFails(c) \/ RelayDone(c)
      PROVE  RR!Next \/ UNCHANGED lbVars
  <2>1. token[c] \in RR!Node
    <3>1. pc[c] \in {"connect", "relay"}
      BY <1>4, ReportsOn
    <3>2. QED
      BY <3>1, TokensAreNodes DEF RR!Node
  <2>2. ReportSuccess(c, token[c]) \/ ReportFailure(c, token[c])
    BY <1>4, ReportsOn
  <2>3. \/ RR!OnSuccess(token[c]) \/ RR!OnFailure(token[c])
        \/ UNCHANGED lbVars
    BY <2>2 DEF ReportSuccess, ReportFailure, Ignored
  <2>4. QED
    BY <2>1, <2>3 DEF RR!Next
<1>5. ASSUME NEW c \in Conn, AcceptFrom(c) \/ Dial(c) \/ Leave(c)
      PROVE  DialFails(c) \/ UNCHANGED lbVars
  BY <1>5 DEF AcceptFrom, Dial, Leave
<1>6. CASE Elapse
  BY <1>6 DEF Elapse, RR!Next
<1>7. ASSUME NEW p \in Peers, Change(p)
      PROVE  UNCHANGED lbVars
  BY <1>7 DEF Change
<1>8. QED
  BY <1>1, <1>2, <1>3, <1>4, <1>5, <1>6, <1>7 DEF BalancedNext

\* The connections of an endpoint, however many, use round robin as
\* RoundRobin says it may be used: each of their steps is one call on a peer
\* it has, a tick, or nothing to it (balancer.rs:46-84).  What is shown of
\* RoundRobin's Spec therefore holds under retries, relays and late reports.
THEOREM RoundRobinServes == BalancedSpec /\ strategy = "roundrobin" => RR!Spec
<1>1. BalancedInit => RR!Init
  BY DEF BalancedInit
<1>2. strategy = "roundrobin" /\ [BalancedNext]_allVars /\ WalkInv => (strategy = "roundrobin")'
  BY Simulates DEF allVars
<1>3. ConnInv /\ WalkInv /\ strategy = "roundrobin" /\ [BalancedNext]_allVars
        => [RR!Next]_(RR!vars)
  BY RoundRobinStep
<1>4. QED
  BY <1>1, <1>2, <1>3, FailoverInv, PTL DEF BalancedSpec, RR!Spec

LEMMA HashStep ==
  ASSUME ConnInv, WalkInv, strategy = "iphash", [BalancedNext]_allVars
  PROVE  [LB!Next]_(LB!vars)
<1>1. CASE UNCHANGED lbVars \/ UNCHANGED allVars
  BY <1>1 DEF allVars, lbVars, ihVars, LB!vars
<1>2. ASSUME NEW c \in Conn, Select(c)
      PROVE  LB!Next
  <2>1. LB!NextCall(c, home[c]) /\ home[c] \in 0 .. RingLen - 1
    BY <1>2 DEF Select, WalkInv
  <2>2. LB!Call(c)
    BY <2>1 DEF LB!Call
  <2>3. QED
    BY <2>2 DEF LB!Next
<1>3. ASSUME NEW c \in Conn, LBStep(c)
      PROVE  LB!Next
  BY <1>3 DEF LBStep, LB!Next
<1>4. ASSUME NEW c \in Conn, DialFails(c) \/ RelayDone(c)
      PROVE  LB!Next \/ UNCHANGED lbVars
  <2>1. token[c] \in LB!Node
    <3>1. pc[c] \in {"connect", "relay"}
      BY <1>4, ReportsOn
    <3>2. QED
      BY <3>1, TokensAreNodes DEF LB!Node
  <2>2. ReportSuccess(c, token[c]) \/ ReportFailure(c, token[c])
    BY <1>4, ReportsOn
  <2>3. \/ LB!OnSuccess(c, token[c]) \/ LB!OnFailure(c, token[c])
        \/ UNCHANGED lbVars
    BY <2>2 DEF ReportSuccess, ReportFailure, Ignored
  <2>4. LB!Call(c) \/ UNCHANGED lbVars
    BY <2>1, <2>3 DEF LB!Call
  <2>5. QED
    BY <2>4 DEF LB!Next
<1>5. ASSUME NEW c \in Conn, AcceptFrom(c) \/ Dial(c) \/ Leave(c)
      PROVE  DialFails(c) \/ UNCHANGED lbVars
  BY <1>5 DEF AcceptFrom, Dial, Leave
<1>6. CASE Elapse
  BY <1>6 DEF Elapse, LB!Next
<1>7. ASSUME NEW p \in Peers, Change(p)
      PROVE  UNCHANGED lbVars
  BY <1>7 DEF Change
<1>8. QED
  BY <1>1, <1>2, <1>3, <1>4, <1>5, <1>6, <1>7 DEF BalancedNext

\* Likewise the hash balancer, with a thread for each connection's task: the
\* walks, reports and ticks of the composition are those of IpHash, and a
\* dial, the end of a relay or a leave of a task comes between its calls.
THEOREM HashServes == BalancedSpec /\ strategy = "iphash" => LB!Spec
<1>1. BalancedInit => LB!Init
  BY DEF BalancedInit
<1>2. strategy = "iphash" /\ [BalancedNext]_allVars /\ WalkInv => (strategy = "iphash")'
  BY Simulates DEF allVars
<1>3. ConnInv /\ WalkInv /\ strategy = "iphash" /\ [BalancedNext]_allVars
        => [LB!Next]_(LB!vars)
  BY HashStep
<1>4. QED
  BY <1>1, <1>2, <1>3, FailoverInv, PTL DEF BalancedSpec, LB!Spec
=============================================================================
