------------------------- MODULE TcpEndpointProofs -------------------------
(***************************************************************************)
(* What holds of the pool for any number of peers, addresses and tasks,    *)
(* and whatever the sizes and times configured.                            *)
(***************************************************************************)
EXTENDS TcpEndpoint, SequenceTheorems, WellFoundedInduction, TLAPS

USE EndpointAssumption

TaskLabels   == {"none", "select", "pop", "dial", "retry", "relay"}
WarmupLabels == {"none", "sleep", "count", "dial", "push", "next"}

\* Each kind of dialer has its own places, and between two dials everybody is
\* back at the first address.
Places == /\ \A c \in Conn : pc[c] \in TaskLabels
          /\ pc[Warmup] \in WarmupLabels
          /\ \A d \in Dialer : pc[d] # "dial" => addr[d] = 1
          /\ run = "start" => pc[Warmup] = "none"

\* The warm-up task is at a peer with a pool, and goes on dialling only while
\* it wants another connection.
WarmInv == /\ tok[Warmup] \in Peers
           /\ pc[Warmup] \in {"dial", "push"} => needed > 0

PoolInv == EndpointTypeOK /\ Places /\ WarmInv /\ PoolBounded

-----------------------------------------------------------------------------
\* Every peer has a first address, and every token has a peer.
LEMMA FirstAddress ==
  ASSUME NEW t \in Peers \cup Tokens
  PROVE  /\ PeerOf(t) \in Peers
         /\ Len(Addrs[PeerOf(t)]) \in Nat
         /\ 1 \in 1 .. Len(Addrs[PeerOf(t)])
<1>1. PeerOf(t) \in Peers
  BY DEF PeerOf, Peers
<1>2. Addrs[PeerOf(t)] \in Seq(STRING) /\ Addrs[PeerOf(t)] # <<>>
  BY <1>1
<1>3. Len(Addrs[PeerOf(t)]) \in Nat \ {0}
  BY <1>2, EmptySeq
<1>4. QED
  BY <1>1, <1>3

\* What is left of a pool's connections when the newest ones are dropped.
LEMMA Shortened ==
  ASSUME NEW S, NEW s \in Seq(S), NEW i \in 1 .. Len(s)
  PROVE  /\ SubSeq(s, 1, i - 1) \in Seq(S)
         /\ Len(SubSeq(s, 1, i - 1)) = i - 1
<1>1. Len(s) \in Nat /\ \A j \in 1 .. i - 1 : s[j] \in S
  BY LenProperties, ElementOfSeq
<1>2. i \in Int /\ i - 1 \in Int
  BY <1>1
<1>3. /\ SubSeq(s, 1, i - 1) \in Seq(S)
      /\ Len(SubSeq(s, 1, i - 1)) = IF 1 <= i - 1 THEN (i - 1) - 1 + 1 ELSE 0
  BY <1>1, <1>2, SubSeqProperties
<1>4. QED
  BY <1>1, <1>2, <1>3

\* A change of every element, in place.
LEMMA Elements ==
  ASSUME NEW S, NEW s \in Seq(S)
  PROVE  \A i \in DOMAIN s : s[i] \in S
<1>1. DOMAIN s = 1 .. Len(s)
  BY LenProperties
<1>2. QED
  BY <1>1, ElementOfSeq

LEMMA Mapped ==
  ASSUME NEW S, NEW s \in Seq(S), NEW f \in [DOMAIN s -> S]
  PROVE  f \in Seq(S) /\ Len(f) = Len(s)
BY LenProperties

\* What push does to one pool.
LEMMA Pushed ==
  ASSUME NEW s \in Seq(0 .. Old), Len(s) <= PoolSize
  PROVE  /\ Push(s) \in Seq(0 .. Old)
         /\ Len(Push(s)) <= PoolSize
         /\ Len(Push(s)) >= Len(s)
<1>1. 0 \in 0 .. Old /\ Len(s) \in Nat
  BY LenProperties DEF Old
<1>2. Append(s, 0) \in Seq(0 .. Old) /\ Len(Append(s, 0)) = Len(s) + 1
  BY <1>1, AppendProperties
<1>3. CASE Len(s) < PoolSize
  <2>1. Push(s) = Append(s, 0)
    BY <1>3 DEF Push
  <2>2. Len(s) + 1 <= PoolSize
    BY <1>1, <1>3
  <2> QED
    BY <1>1, <1>2, <2>1, <2>2
<1>4. CASE ~(Len(s) < PoolSize)
  BY <1>1, <1>4 DEF Push
<1>5. QED
  BY <1>3, <1>4

-----------------------------------------------------------------------------
LEMMA PoolInvInit == Init => PoolInv
<1> SUFFICES ASSUME Init PROVE PoolInv
  OBVIOUS
<1>1. Warmup \in Dialer /\ 0 \in Peers /\ 0 \in Peers \cup Tokens
  BY DEF Dialer, Peers
<1>2. \A d \in Dialer : addr[d] \in 1 .. Len(Addrs[PeerOf(tok[d])])
  BY <1>1, FirstAddress DEF Init
<1>3. \A p \in Peers : idle[p] \in Seq(0 .. Old) /\ Len(idle[p]) = 0
  BY EmptySeq DEF Init
<1>4. EndpointTypeOK
  BY <1>1, <1>2, <1>3 DEF Init, EndpointTypeOK
<1>5. Places /\ WarmInv
  BY <1>1 DEF Init, Places, WarmInv, TaskLabels, WarmupLabels, Dialer
<1>6. PoolBounded
  BY <1>3 DEF PoolBounded
<1>7. QED
  BY <1>4, <1>5, <1>6 DEF PoolInv

-----------------------------------------------------------------------------
\* The two kinds of dialers have nothing in common.
LEMMA Dialers == /\ Warmup \in Dialer
                 /\ \A c \in Conn : c \in Dialer /\ c # Warmup
                 /\ \A d \in Dialer : d # Warmup => d \in Conn
BY DEF Dialer

\* A step of connect() moves the dialer along the addresses of its peer, and
\* leaves it at the first one when it is through with them.
LEMMA Connected ==
  ASSUME PoolInv, NEW d \in Dialer, NEW made, NEW failed,
         Connect(d, made, failed), tok' = tok
  PROVE  /\ addr' \in [Dialer -> Nat]
         /\ \A e \in Dialer : addr'[e] \in 1 .. Len(Addrs[PeerOf(tok'[e])])
         /\ pc[d] = "dial"
         /\ \/ pc' = pc
            \/ /\ pc' = [pc EXCEPT ![d] = made] \/ pc' = [pc EXCEPT ![d] = failed]
               /\ addr' = [addr EXCEPT ![d] = 1]
         /\ \A e \in Dialer : e # d => addr'[e] = addr[e]
<1>1. /\ tok[d] \in Peers \cup Tokens /\ addr \in [Dialer -> Nat]
      /\ \A e \in Dialer : addr[e] \in 1 .. Len(Addrs[PeerOf(tok[e])])
  BY DEF PoolInv, EndpointTypeOK
<1>2. 1 \in 1 .. Len(Addrs[PeerOf(tok[d])]) /\ Len(Addrs[PeerOf(tok[d])]) \in Nat
  BY <1>1, FirstAddress
<1>3. CASE pc' = pc /\ MoreAddrs(d) /\ addr' = [addr EXCEPT ![d] = @ + 1]
  <2>1. addr[d] + 1 \in 1 .. Len(Addrs[PeerOf(tok[d])])
    BY <1>1, <1>2, <1>3 DEF MoreAddrs
  <2>2. addr' \in [Dialer -> Nat] /\ addr'[d] = addr[d] + 1
        /\ \A e \in Dialer : e # d => addr'[e] = addr[e]
    BY <1>1, <1>3
  <2>3. QED
    BY <1>1, <1>3, <2>1, <2>2 DEF Connect
<1>4. CASE /\ pc' = [pc EXCEPT ![d] = made] \/ pc' = [pc EXCEPT ![d] = failed]
           /\ addr' = [addr EXCEPT ![d] = 1]
  <2>1. addr' \in [Dialer -> Nat] /\ addr'[d] = 1
        /\ \A e \in Dialer : e # d => addr'[e] = addr[e]
    BY <1>1, <1>4
  <2>2. QED
    BY <1>1, <1>2, <1>4, <2>1 DEF Connect
<1>5. QED
  BY <1>3, <1>4 DEF Connect, GoTo

-----------------------------------------------------------------------------
LEMMA PoolInvNext == PoolInv /\ [Next]_vars => PoolInv'
<1> SUFFICES ASSUME PoolInv, [Next]_vars
             PROVE  PoolInv'
  OBVIOUS
<1> USE Dialers
<1>1. EndpointTypeOK /\ Places /\ WarmInv /\ PoolBounded
  BY DEF PoolInv
<1>2. ASSUME run' \in {"start", "accepting", "returned", "panicked"},
             pc' \in [Dialer -> TaskLabels \cup WarmupLabels], UNCHANGED <<tok, addr, poolVars, up>>,
             Places', WarmInv'
      PROVE  PoolInv'
  BY <1>1, <1>2 DEF PoolInv, EndpointTypeOK, PoolBounded, poolVars, TaskLabels, WarmupLabels
<1>3. CASE Start
  BY <1>1, <1>2, <1>3 DEF Start, GoTo, Places, WarmInv, EndpointTypeOK, poolVars, TaskLabels, WarmupLabels
<1>4. CASE Return
  BY <1>1, <1>2, <1>4 DEF Return, Places, WarmInv, EndpointTypeOK, poolVars, TaskLabels, WarmupLabels
<1>5. ASSUME NEW c \in Conn, Accept(c)
      PROVE  PoolInv'
  BY <1>1, <1>2, <1>5 DEF Accept, GoTo, Places, WarmInv, EndpointTypeOK, poolVars, TaskLabels, WarmupLabels
<1>6. ASSUME NEW c \in Conn, Retry(c)
      PROVE  PoolInv'
  BY <1>1, <1>2, <1>6 DEF Retry, GoTo, Places, WarmInv, EndpointTypeOK, poolVars, TaskLabels, WarmupLabels
<1>7. ASSUME NEW c \in Conn, RelayEnds(c)
      PROVE  PoolInv'
  BY <1>1, <1>2, <1>7 DEF RelayEnds, GoTo, Places, WarmInv, EndpointTypeOK, poolVars, TaskLabels, WarmupLabels
<1>8. ASSUME NEW c \in Conn, Select(c)
      PROVE  PoolInv'
  <2>1. PICK t \in Tokens : tok' = [tok EXCEPT ![c] = t]
    BY <1>8 DEF Select
  <2>2. tok' \in [Dialer -> Peers \cup Tokens] /\ tok'[Warmup] = tok[Warmup]
    BY <1>1, <2>1 DEF EndpointTypeOK
  <2>3. \A d \in Dialer : addr'[d] \in 1 .. Len(Addrs[PeerOf(tok'[d])])
    <3>1. addr'[c] = 1 /\ tok'[c] \in Peers \cup Tokens
      BY <1>1, <1>8, <2>2 DEF Select, Places
    <3>2. 1 \in 1 .. Len(Addrs[PeerOf(tok'[c])])
      BY <3>1, FirstAddress
    <3>3. ASSUME NEW d \in Dialer, d # c
          PROVE  addr'[d] = addr[d] /\ tok'[d] = tok[d]
      BY <1>1, <1>8, <2>1, <3>3 DEF Select, EndpointTypeOK
    <3>4. QED
      BY <1>1, <3>1, <3>2, <3>3 DEF EndpointTypeOK
  <2>4. EndpointTypeOK'
    BY <1>1, <1>8, <2>2, <2>3 DEF Select, GoTo, EndpointTypeOK, poolVars
  <2>5. Places' /\ WarmInv'
    BY <1>1, <1>8, <2>2 DEF Select, GoTo, Places, WarmInv, EndpointTypeOK, poolVars, TaskLabels
  <2>6. PoolBounded'
    BY <1>1, <1>8 DEF Select, PoolBounded, poolVars
  <2>7. QED
    BY <2>4, <2>5, <2>6 DEF PoolInv
<1>9. ASSUME NEW c \in Conn, PopIdle(c)
      PROVE  PoolInv'
  <2>1. /\ idle' \in [Peers -> Seq(0 .. Old)]
        /\ \A p \in Peers : Len(idle'[p]) <= PoolSize
    <3>1. CASE \E p \in Peers \cap {tok[c]} : \E i \in PopHealthy(idle[p]) :
                 idle' = [idle EXCEPT ![p] = SubSeq(@, 1, i - 1)]
      <4>0. PICK p \in Peers : \E i \in PopHealthy(idle[p]) :
              idle' = [idle EXCEPT ![p] = SubSeq(@, 1, i - 1)]
        BY <3>1
      <4>1. PICK i \in PopHealthy(idle[p]) :
              idle' = [idle EXCEPT ![p] = SubSeq(@, 1, i - 1)]
        BY <4>0
      <4>2. idle[p] \in Seq(0 .. Old) /\ i \in 1 .. Len(idle[p]) /\ Len(idle[p]) \in Nat
        BY <1>1, <4>1, LenProperties DEF EndpointTypeOK, PopHealthy
      <4>3. /\ SubSeq(idle[p], 1, i - 1) \in Seq(0 .. Old)
            /\ Len(SubSeq(idle[p], 1, i - 1)) = i - 1
        BY <4>2, Shortened
      <4>4. i - 1 <= PoolSize
        BY <1>1, <4>2 DEF PoolBounded
      <4>5. QED
        BY <1>1, <4>1, <4>3, <4>4 DEF EndpointTypeOK, PoolBounded
    <3>2. CASE \E p \in Peers : idle' = [idle EXCEPT ![p] = <<>>]
      <4>1. <<>> \in Seq(0 .. Old) /\ Len(<<>>) <= PoolSize
        BY EmptySeq
      <4>2. QED
        BY <1>1, <3>2, <4>1 DEF EndpointTypeOK, PoolBounded
    <3>3. CASE idle' = idle
      BY <1>1, <3>3 DEF EndpointTypeOK, PoolBounded
    <3>4. QED
      BY <1>9, <3>1, <3>2, <3>3 DEF PopIdle
  <2>2. \/ pc' = [pc EXCEPT ![c] = "relay"]
        \/ pc' = [pc EXCEPT ![c] = "dial"]
    BY <1>9 DEF PopIdle, GoTo
  <2>3. EndpointTypeOK'
    BY <1>1, <1>9, <2>1, <2>2 DEF PopIdle, EndpointTypeOK
  <2>4. Places' /\ WarmInv'
    BY <1>1, <1>9, <2>2 DEF PopIdle, Places, WarmInv, EndpointTypeOK, TaskLabels
  <2>5. QED
    BY <2>1, <2>3, <2>4 DEF PoolInv, PoolBounded
<1>10. ASSUME NEW c \in Conn, Dial(c)
       PROVE  PoolInv'
  <2>1. Connect(c, "relay", "retry") /\ UNCHANGED <<run, tok, poolVars, up>>
    BY <1>10 DEF Dial
  <2>2. /\ addr' \in [Dialer -> Nat]
        /\ \A e \in Dialer : addr'[e] \in 1 .. Len(Addrs[PeerOf(tok'[e])])
        /\ pc[c] = "dial"
        /\ \/ pc' = pc
           \/ /\ pc' = [pc EXCEPT ![c] = "relay"] \/ pc' = [pc EXCEPT ![c] = "retry"]
              /\ addr' = [addr EXCEPT ![c] = 1]
        /\ \A e \in Dialer : e # c => addr'[e] = addr[e]
    BY <2>1, Connected
  <2>3. EndpointTypeOK'
    BY <1>1, <2>1, <2>2 DEF EndpointTypeOK, poolVars
  <2>4. c # Warmup /\ c \in Dialer /\ pc[c] \in TaskLabels
    BY <1>1 DEF Places, Dialer
  <2>5. pc'[c] \in TaskLabels /\ \A e \in Dialer : e # c => pc'[e] = pc[e]
    <3>1. DOMAIN pc = Dialer
      BY <1>1 DEF EndpointTypeOK
    <3>2. "relay" \in TaskLabels /\ "retry" \in TaskLabels
      BY DEF TaskLabels
    <3>3. QED
      BY <2>2, <2>4, <3>1, <3>2
  <2>6. \A e \in Dialer : pc'[e] # "dial" => addr'[e] = 1
    BY <1>1, <2>2, <2>4, <2>5 DEF Places
  <2>7. Places'
    BY <1>1, <2>1, <2>4, <2>5, <2>6 DEF Places, Dialer
  <2>8. WarmInv'
    BY <1>1, <2>1, <2>4, <2>5 DEF WarmInv, poolVars, Dialer
  <2>9. QED
    BY <1>1, <2>1, <2>3, <2>7, <2>8 DEF PoolInv, PoolBounded, poolVars
<1>11. CASE WarmWakes
  <2>1. tok' = [tok EXCEPT ![Warmup] = 0] /\ addr' = addr /\ addr[Warmup] = 1
    BY <1>1, <1>11 DEF WarmWakes, Places
  <2>2. tok' \in [Dialer -> Peers \cup Tokens] /\ tok'[Warmup] = 0 /\ 0 \in Peers
    BY <1>1, <2>1 DEF EndpointTypeOK, Peers
  <2>3. \A d \in Dialer : addr'[d] \in 1 .. Len(Addrs[PeerOf(tok'[d])])
    BY <1>1, <2>1, <2>2, FirstAddress DEF EndpointTypeOK
  <2>4. EndpointTypeOK'
    BY <1>1, <1>11, <2>2, <2>3 DEF WarmWakes, GoTo, EndpointTypeOK, poolVars
  <2>5. Places' /\ WarmInv'
    BY <1>1, <1>11, <2>2 DEF WarmWakes, GoTo, Places, WarmInv, EndpointTypeOK, poolVars, WarmupLabels
  <2>6. QED
    BY <1>1, <1>11, <2>4, <2>5 DEF WarmWakes, PoolInv, PoolBounded, poolVars
<1>12. CASE WarmCounts
  <2>1. Len(idle[tok[Warmup]]) \in Nat /\ minIdle \in Nat
    BY <1>1, LenProperties DEF EndpointTypeOK, WarmInv
  <2>2. needed' \in 0 .. minIdle
    BY <1>12, <2>1 DEF WarmCounts
  <2>3. \/ needed' = 0 /\ pc' = [pc EXCEPT ![Warmup] = "next"]
        \/ needed' > 0 /\ pc' = [pc EXCEPT ![Warmup] = "dial"]
    <3>1. needed' = 0 \/ needed' > 0
      BY <2>1, <2>2
    <3>2. CASE needed' = 0
      BY <1>12, <3>2 DEF WarmCounts, GoTo
    <3>3. CASE needed' > 0
      <4>1. needed' # 0
        BY <2>2, <3>3
      <4>2. QED
        BY <1>12, <3>3, <4>1 DEF WarmCounts, GoTo
    <3>4. QED
      BY <3>1, <3>2, <3>3
  <2>4. EndpointTypeOK'
    BY <1>1, <1>12, <2>2, <2>3 DEF WarmCounts, EndpointTypeOK
  <2>5. Places' /\ WarmInv'
    BY <1>1, <1>12, <2>3 DEF WarmCounts, Places, WarmInv, EndpointTypeOK, WarmupLabels
  <2>6. QED
    BY <1>1, <1>12, <2>4, <2>5 DEF WarmCounts, PoolInv, PoolBounded
<1>13. CASE WarmDials
  <2>1. Connect(Warmup, "push", "next") /\ UNCHANGED <<run, tok, poolVars, up>>
    BY <1>13 DEF WarmDials
  <2>2. /\ addr' \in [Dialer -> Nat]
        /\ \A e \in Dialer : addr'[e] \in 1 .. Len(Addrs[PeerOf(tok'[e])])
        /\ pc[Warmup] = "dial"
        /\ \/ pc' = pc
           \/ /\ pc' = [pc EXCEPT ![Warmup] = "push"] \/ pc' = [pc EXCEPT ![Warmup] = "next"]
              /\ addr' = [addr EXCEPT ![Warmup] = 1]
        /\ \A e \in Dialer : e # Warmup => addr'[e] = addr[e]
    BY <2>1, Connected
  <2>3. EndpointTypeOK'
    BY <1>1, <2>1, <2>2 DEF EndpointTypeOK, poolVars
  <2>4. Places' /\ WarmInv'
    BY <1>1, <2>1, <2>2 DEF Places, WarmInv, EndpointTypeOK, poolVars, WarmupLabels
  <2>5. QED
    BY <1>1, <2>1, <2>3, <2>4 DEF PoolInv, PoolBounded, poolVars
<1>14. CASE WarmPushes
  <2>1. tok[Warmup] \in Peers /\ needed \in 1 .. minIdle /\ minIdle \in Nat
    BY <1>1, <1>14 DEF WarmPushes, WarmInv, EndpointTypeOK
  <2>2. idle[tok[Warmup]] \in Seq(0 .. Old) /\ Len(idle[tok[Warmup]]) <= PoolSize
    BY <1>1, <2>1 DEF EndpointTypeOK, PoolBounded
  <2>3. /\ idle' \in [Peers -> Seq(0 .. Old)]
        /\ \A p \in Peers : Len(idle'[p]) <= PoolSize
    BY <1>1, <1>14, <2>1, <2>2, Pushed DEF WarmPushes, EndpointTypeOK, PoolBounded
  <2>4. needed' \in 0 .. minIdle
    BY <1>14, <2>1 DEF WarmPushes
  <2>5. \/ needed' = 0 /\ pc' = [pc EXCEPT ![Warmup] = "next"]
        \/ needed' > 0 /\ pc' = [pc EXCEPT ![Warmup] = "dial"]
    <3>1. needed' = 0 \/ needed' > 0
      BY <2>1, <2>4
    <3>2. CASE needed' = 0
      BY <1>14, <3>2 DEF WarmPushes, GoTo
    <3>3. CASE needed' > 0
      <4>1. needed' # 0
        BY <2>4, <3>3
      <4>2. QED
        BY <1>14, <3>3, <4>1 DEF WarmPushes, GoTo
    <3>4. QED
      BY <3>1, <3>2, <3>3
  <2>6. EndpointTypeOK'
    BY <1>1, <1>14, <2>3, <2>4, <2>5 DEF WarmPushes, EndpointTypeOK
  <2>7. Places' /\ WarmInv'
    BY <1>1, <1>14, <2>5 DEF WarmPushes, Places, WarmInv, EndpointTypeOK, WarmupLabels
  <2>8. QED
    BY <2>3, <2>6, <2>7 DEF PoolInv, PoolBounded
<1>15. CASE WarmMoves
  <2>1. /\ pc[Warmup] = "next" /\ addr' = addr /\ addr[Warmup] = 1
        /\ \/ /\ tok' = [tok EXCEPT ![Warmup] = @ + 1]
              /\ tok[Warmup] + 1 \in Peers
              /\ timer' = timer
              /\ pc' = [pc EXCEPT ![Warmup] = "count"]
           \/ /\ tok' = tok
              /\ timer' = Interval
              /\ pc' = [pc EXCEPT ![Warmup] = "sleep"]
    BY <1>1, <1>15 DEF WarmMoves, GoTo, Places, WarmInv, Peers
  <2>2. tok' \in [Dialer -> Peers \cup Tokens] /\ tok'[Warmup] \in Peers
        /\ \A d \in Dialer : d # Warmup => tok'[d] = tok[d]
    <3>1. tok \in [Dialer -> Peers \cup Tokens] /\ tok[Warmup] \in Peers
      BY <1>1 DEF EndpointTypeOK, WarmInv
    <3>2. CASE tok' = tok
      BY <3>1, <3>2
    <3>3. CASE tok' = [tok EXCEPT ![Warmup] = @ + 1] /\ tok[Warmup] + 1 \in Peers
      <4> DEFINE t == tok[Warmup] + 1
      <4>1. tok' = [tok EXCEPT ![Warmup] = t] /\ t \in Peers
        BY <3>3
      <4> HIDE DEF t
      <4>2. QED
        BY <3>1, <4>1
    <3>4. QED
      BY <2>1, <3>2, <3>3
  <2>3. \A d \in Dialer : addr'[d] \in 1 .. Len(Addrs[PeerOf(tok'[d])])
    BY <1>1, <2>1, <2>2, FirstAddress DEF EndpointTypeOK
  <2>4. needed' = 0 /\ 0 \in 0 .. minIdle
    BY <1>1, <1>15 DEF WarmMoves, EndpointTypeOK
  <2>5. EndpointTypeOK'
    BY <1>1, <1>15, <2>1, <2>2, <2>3, <2>4 DEF WarmMoves, EndpointTypeOK
  <2>6. Places' /\ WarmInv'
    BY <1>1, <1>15, <2>1, <2>2 DEF WarmMoves, Places, WarmInv, EndpointTypeOK, WarmupLabels
  <2>7. QED
    BY <1>1, <1>15, <2>5, <2>6 DEF WarmMoves, PoolInv, PoolBounded
<1>16. ASSUME NEW p \in Peers, NEW i \in DOMAIN idle[p], PeerCloses(p, i)
       PROVE  PoolInv'
  <2>1. idle[p] \in Seq(0 .. Old) /\ i \in 1 .. Len(idle[p]) /\ Old \in 0 .. Old
    BY <1>1, <1>16, LenProperties DEF EndpointTypeOK, Old
  <2>2. /\ [idle[p] EXCEPT ![i] = Old] \in Seq(0 .. Old)
        /\ Len([idle[p] EXCEPT ![i] = Old]) = Len(idle[p])
    BY <2>1, ExceptSeq
  <2>3. idle' = [idle EXCEPT ![p] = [idle[p] EXCEPT ![i] = Old]]
    BY <1>16 DEF PeerCloses
  <2>4. EndpointTypeOK' /\ PoolBounded'
    BY <1>1, <1>16, <2>2, <2>3 DEF PeerCloses, EndpointTypeOK, PoolBounded
  <2>5. Places' /\ WarmInv'
    BY <1>1, <1>16 DEF PeerCloses, Places, WarmInv
  <2>6. QED
    BY <2>4, <2>5 DEF PoolInv
<1>17. ASSUME NEW a \in Environment, Changes(a)
       PROVE  PoolInv'
  BY <1>1, <1>17 DEF Changes, PoolInv, EndpointTypeOK, Places, WarmInv, PoolBounded, poolVars
<1>18. CASE Tick
  <2>1. ASSUME NEW p \in Peers
        PROVE  idle'[p] \in Seq(0 .. Old) /\ Len(idle'[p]) = Len(idle[p])
    <3>1. idle[p] \in Seq(0 .. Old)
      BY <1>1 DEF EndpointTypeOK
    <3>2. \A i \in DOMAIN idle[p] : idle[p][i] \in 0 .. Old
      BY <3>1, Elements
    <3> DEFINE aged == [i \in DOMAIN idle[p] |->
                          IF Healthy(idle[p][i]) THEN idle[p][i] + 1 ELSE Old]
    <3>3. idle'[p] = aged
      BY <1>18 DEF Tick
    <3>4. aged \in [DOMAIN idle[p] -> 0 .. Old]
      BY <3>2 DEF Healthy, Old
    <3> HIDE DEF aged
    <3>5. QED
      BY <3>3, <3>1, <3>4, Mapped
  <2>2. idle' \in [Peers -> Seq(0 .. Old)]
    BY <1>18, <2>1 DEF Tick
  <2>3. timer' \in 0 .. Interval
    BY <1>1, <1>18 DEF Tick, EndpointTypeOK
  <2>4. EndpointTypeOK'
    BY <1>1, <1>18, <2>2, <2>3 DEF Tick, EndpointTypeOK
  <2>5. Places' /\ WarmInv' /\ PoolBounded'
    BY <1>1, <1>18, <2>1 DEF Tick, Places, WarmInv, PoolBounded
  <2>6. QED
    BY <2>4, <2>5 DEF PoolInv
<1>19. CASE UNCHANGED vars
  BY <1>1, <1>19 DEF vars, poolVars, PoolInv, EndpointTypeOK, Places, WarmInv, PoolBounded
<1>20. QED
  BY <1>3, <1>4, <1>5, <1>6, <1>7, <1>8, <1>9, <1>10, <1>11, <1>12, <1>13, <1>14, <1>15,
     <1>16, <1>17, <1>18, <1>19 DEF Next, Task, WarmStep

(* The types of the endpoint's state are kept by every step of the tasks,  *)
(* the warm-up task, the peers and time, a dialer is always at an address  *)
(* its peer has, ages stay within the idle time, and what the warm-up task *)
(* still wants stays between zero and pool_min_idle (pool.rs:338-368,      *)
(* socket.rs:71-108).                                                      *)
THEOREM EndpointTypes == Spec => []EndpointTypeOK
<1>1. PoolInv => EndpointTypeOK
  BY DEF PoolInv
<1>2. QED
  BY <1>1, PoolInvInit, PoolInvNext, PTL DEF Spec

(* For any number of tasks, peers and addresses, and whatever pool_min_idle *)
(* is set to, no peer ever has more idle connections than the pool's size   *)
(* (pool.rs:103-108, :338-361).                                             *)
THEOREM PoolsBounded == Spec => []PoolBounded
<1>1. PoolInv => PoolBounded
  BY DEF PoolInv
<1>2. QED
  BY <1>1, PoolInvInit, PoolInvNext, PTL DEF Spec

-----------------------------------------------------------------------------
\* Every set of naturals that is not empty has a least element.
LEMMA LeastNatural ==
  ASSUME NEW T, T \subseteq Nat, T # {}
  PROVE  \E x \in T : \A y \in T : x <= y
<1> DEFINE R == OpToRel(<, Nat)
<1>1. R = {ss \in Nat \X Nat : ss[1] < ss[2]}
  BY DEF OpToRel
<1>2. IsWellFoundedOn(R, Nat)
  BY NatLessThanWellFounded
<1> HIDE DEF R
<1>3. PICK x \in T : \A y \in T : ~(<<y, x>> \in R)
  BY <1>2, WFMin
<1>4. ASSUME NEW y \in T
      PROVE  x <= y
  <2>1. x \in Nat /\ y \in Nat /\ <<y, x>> \in Nat \X Nat
    OBVIOUS
  <2>2. ~(y < x)
    BY <1>1, <1>3, <2>1
  <2>3. QED
    BY <2>1, <2>2
<1>5. QED
  BY <1>3, <1>4

\* The connections a pop looks at: if any is healthy, one is the newest.
LEMMA NewestHealthy ==
  ASSUME NEW s \in Seq(0 .. Old), PopHealthy(s) = {}
  PROVE  \A i \in DOMAIN s : ~Healthy(s[i])
<1> SUFFICES ASSUME NEW i \in DOMAIN s, Healthy(s[i])
             PROVE  FALSE
  OBVIOUS
<1> DEFINE n == Len(s)
           T == {k \in 0 .. n : n - k \in DOMAIN s /\ Healthy(s[n - k])}
<1>1. n \in Nat /\ DOMAIN s = 1 .. n
  BY LenProperties
<1>2. T \subseteq Nat /\ n - i \in T
  <2>1. n - i \in 0 .. n /\ n - (n - i) = i
    BY <1>1
  <2>2. QED
    BY <2>1
<1>3. PICK x \in T : \A y \in T : x <= y
  <2> HIDE DEF T
  <2>1. QED
    BY <1>2, LeastNatural
<1>4. n - x \in DOMAIN s /\ Healthy(s[n - x]) /\ x \in Nat
  OBVIOUS
<1>5. ASSUME NEW j \in n - x + 1 .. Len(s), Healthy(s[j])
      PROVE  FALSE
  <2>1. j \in DOMAIN s /\ n - j \in 0 .. n /\ n - (n - j) = j /\ n - j < x
    BY <1>1, <1>4
  <2>2. n - j \in T
    BY <1>5, <2>1
  <2>3. QED
    BY <1>1, <1>3, <1>4, <2>1, <2>2
<1>6. n - x \in PopHealthy(s)
  <2> HIDE DEF T
  <2>1. QED
    BY <1>4, <1>5 DEF PopHealthy
<1>7. QED
  BY <1>6

\* What one pop does.
LEMMA Popped ==
  ASSUME PoolInv, NEW c \in Conn, PopIdle(c), tok[c] \in Peers
  PROVE  LET s == idle[tok[c]]
             h == {i \in DOMAIN s : Healthy(s[i])}
         IN  IF h = {} THEN pc'[c] = "dial" /\ idle'[tok[c]] = <<>>
             ELSE /\ pc'[c] = "relay"
                  /\ Healthy(s[Len(idle'[tok[c]]) + 1])
                  /\ \A i \in h : i <= Len(idle'[tok[c]]) + 1
<1> DEFINE p == tok[c]
           s == idle[p]
           h == {i \in DOMAIN s : Healthy(s[i])}
<1>1. /\ s \in Seq(0 .. Old) /\ p \in Peers
      /\ DOMAIN idle = Peers /\ DOMAIN pc = Dialer /\ c \in Dialer
  BY DEF PoolInv, EndpointTypeOK, Dialer
<1>2. Len(s) \in Nat /\ DOMAIN s = 1 .. Len(s)
  BY <1>1, LenProperties
<1>3. CASE \E i \in PopHealthy(s) : /\ idle' = [idle EXCEPT ![p] = SubSeq(@, 1, i - 1)]
                                    /\ GoTo(c, "relay")
  <2>1. PICK i \in PopHealthy(s) : /\ idle' = [idle EXCEPT ![p] = SubSeq(@, 1, i - 1)]
                                   /\ GoTo(c, "relay")
    BY <1>3
  <2>2. i \in 1 .. Len(s) /\ Healthy(s[i]) /\ \A j \in i + 1 .. Len(s) : ~Healthy(s[j])
    BY <1>2, <2>1 DEF PopHealthy
  <2>3. Len(idle'[p]) = i - 1
    BY <1>1, <2>1, <2>2, Shortened
  <2>4. pc'[c] = "relay" /\ h # {}
    BY <1>1, <1>2, <2>1, <2>2 DEF GoTo
  <2>5. Len(idle'[p]) + 1 = i
    BY <1>2, <2>2, <2>3
  <2>6. \A j \in h : j <= i
    BY <1>2, <2>2
  <2> HIDE DEF h, s, p
  <2>7. IF h = {} THEN pc'[c] = "dial" /\ idle'[p] = <<>>
        ELSE /\ pc'[c] = "relay"
             /\ Healthy(s[Len(idle'[p]) + 1])
             /\ \A j \in h : j <= Len(idle'[p]) + 1
    BY <2>2, <2>4, <2>5, <2>6
  <2>8. QED
    BY <2>7 DEF h, s, p
<1>4. CASE /\ PopHealthy(s) = {}
           /\ idle' = [idle EXCEPT ![p] = <<>>]
           /\ GoTo(c, "dial")
  <2>1. h = {}
    BY <1>1, <1>4, NewestHealthy
  <2>2. pc'[c] = "dial" /\ idle'[p] = <<>>
    BY <1>1, <1>4 DEF GoTo
  <2>3. QED
    BY <2>1, <2>2
<1>5. QED
  BY <1>1, <1>3, <1>4 DEF PopIdle

(* For any number of tasks and peers, whoever empties or fills the pool in *)
(* between: a task dials a peer that has a pool only if it held no healthy *)
(* connection, and otherwise takes the newest of them (pool.rs:88-101,     *)
(* :163-169).                                                              *)
THEOREM PopsHonest == Spec => PopHonest
<1> DEFINE Honest ==
      \A c \in Conn : pc[c] = "pop" /\ pc'[c] # "pop" /\ tok[c] \in Peers =>
        LET s == idle[tok[c]]
            h == {i \in DOMAIN s : Healthy(s[i])}
        IN  IF h = {} THEN pc'[c] = "dial" /\ idle'[tok[c]] = <<>>
            ELSE /\ pc'[c] = "relay"
                 /\ Healthy(s[Len(idle'[tok[c]]) + 1])
                 /\ \A i \in h : i <= Len(idle'[tok[c]]) + 1
<1>1. PoolInv /\ [Next]_vars => [Honest]_vars
  <2> SUFFICES ASSUME PoolInv, Next,
                      NEW c \in Conn, pc[c] = "pop", pc'[c] # "pop", tok[c] \in Peers
               PROVE  PopIdle(c)
    BY Popped
  <2>1. pc \in [Dialer -> TaskLabels \cup WarmupLabels] /\ c \in Dialer /\ c # Warmup /\ Warmup \in Dialer
    BY Dialers DEF PoolInv, EndpointTypeOK, TaskLabels, WarmupLabels
  <2>2. ASSUME NEW d \in Dialer, NEW label, GoTo(d, label)
        PROVE  d = c
    BY <2>1, <2>2 DEF GoTo
  <2>3. ~Start /\ ~Return
    BY <2>1, <2>2 DEF Start, Return
  <2>4. ~WarmStep
    BY <2>1, <2>2 DEF WarmStep, WarmWakes, WarmCounts, WarmDials, Connect, WarmPushes, WarmMoves
  <2>5. ASSUME NEW d \in Conn, Accept(d) \/ Task(d)
        PROVE  PopIdle(c)
    <3>1. d \in Dialer
      BY Dialers
    <3>2. d = c
      BY <2>2, <2>5, <3>1 DEF Accept, Task, Select, PopIdle, Dial, Connect, Retry, RelayEnds
    <3>3. QED
      BY <2>5, <3>2 DEF Accept, Task, Select, Dial, Connect, Retry, RelayEnds
  <2>6. QED
    BY <2>3, <2>4, <2>5 DEF Next, PeerCloses, Changes, Tick
<1>2. QED
  BY <1>1, PoolInvInit, PoolInvNext, PTL DEF Spec, PopHonest
=============================================================================
