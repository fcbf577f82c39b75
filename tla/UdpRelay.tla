------------------------------ MODULE UdpRelay ------------------------------
(***************************************************************************)
(* UDP associations (bytehub_core/src/udp/): one task takes batches of     *)
(* packets from the listening socket and forwards each client's packets    *)
(* through a socket of that client's own (associate_and_relay); for each   *)
(* such socket another task carries the answers back until it times out or *)
(* fails (send_back).  They share the map from clients to sockets, whose   *)
(* lock is held for one look-up or one change at a time.                   *)
(*                                                                         *)
(* A packet is a number, in the order of arrival; the answer to a packet   *)
(* has the packet's number.  A socket is a number, in the order of making. *)
(* How a batch is ordered into groups is the business of GroupByAddr; here *)
(* the groups of a batch come in any order.                                *)
(*                                                                         *)
(* An answer reaches the socket its packet left through: each has a local  *)
(* port of its own.  With `through = ip:port' all are bound to that one    *)
(* address, which SO_REUSEADDR permits (udp/socket.rs:44-51), and which of *)
(* them an answer reaches is up to the kernel; that is not modelled.       *)
(***************************************************************************)
EXTENDS Integers, FiniteSets, FiniteSetsExt

CONSTANTS Client,           \* the addresses packets come from
          Nobody,           \* no client
          MaxPackets,       \* bound on the packets that ever arrive
          MaxBatch,         \* packets one receive may return
          AssociateTimeout  \* is associate_timeout other than zero?

ASSUME NobodyAssumption == Nobody \notin Client
ASSUME BatchAssumption  == MaxPackets \in Nat /\ MaxBatch \in Nat \ {0}
ASSUME ModeAssumption   == AssociateTimeout \in BOOLEAN

Packet == 1 .. MaxPackets
Sock   == 1 .. MaxPackets   \* enough: each socket is made for a packet
NoSock == 0

VARIABLES from,     \* who sent each packet
          arrived,  \* number of packets that reached the listener
          taken,    \* number of them received from it
          main,     \* next step of associate_and_relay
          batch,    \* received packets whose group is still to come
          group,    \* packets of the group at hand, not yet sent
          rsock,    \* the socket for the group at hand
          sockmap,  \* the socket of each client's association
          made,     \* number of sockets made
          owner,    \* the client each socket was made for
          relayer,  \* next step of the send_back task of each socket
          through,  \* the socket each packet was forwarded through
          replies,  \* answers waiting in each socket
          held,     \* answers a relayer has received and not yet passed on
          returned, \* answers each client has received
          early,    \* history: sockets whose relayer was gone before Insert
          lost      \* history: answers an error took, or that came too late

client == <<from, arrived>>
relay  == <<main, batch, group, rsock, taken>>
socks  == <<made, owner>>
answers == <<replies, held, returned>>
vars == <<client, relay, sockmap, socks, relayer, through, answers, early, lost>>

Init == /\ from = [p \in Packet |-> Nobody]
        /\ arrived = 0
        /\ taken = 0
        /\ main = "recv"
        /\ batch = {}
        /\ group = {}
        /\ rsock = NoSock
        /\ sockmap = [c \in Client |-> NoSock]
        /\ made = 0
        /\ owner = [s \in Sock |-> Nobody]
        /\ relayer = [s \in Sock |-> "none"]
        /\ through = [p \in Packet |-> NoSock]
        /\ replies = [s \in Sock |-> {}]
        /\ held = [s \in Sock |-> {}]
        /\ returned = [c \in Client |-> {}]
        /\ early = {}
        /\ lost = {}

-----------------------------------------------------------------------------
(* associate_and_relay                                                     *)

\* Mutant: run_udp does not start it again.
RestartNever == /\ main' = "stopped"
                /\ batch' = {}
                /\ group' = {}
                /\ rsock' = NoSock
                /\ UNCHANGED taken

\* An error leaves associate_and_relay with the rest of the batch unsent;
\* run_udp starts it again.
Restart == /\ main' = "recv"
           /\ batch' = {}
           /\ group' = {}
           /\ rsock' = NoSock
           /\ UNCHANGED taken

\* Mutant: the number of packets received is not heeded.
ReceiveFull == /\ main = "recv"
               /\ taken < arrived
               /\ taken' = taken + MaxBatch
               /\ batch' = taken + 1 .. taken'
               /\ main' = "resolve"
               /\ UNCHANGED <<group, rsock, client, sockmap, socks, relayer, through, answers,
                              early, lost>>

Receive == /\ main = "recv"
           /\ taken < arrived
           /\ taken' = Min({arrived, taken + MaxBatch})
           /\ batch' = taken + 1 .. taken'
           /\ main' = "resolve"
           /\ UNCHANGED <<group, rsock, client, sockmap, socks, relayer, through, answers,
                          early, lost>>

Resolve == /\ main = "resolve"
           /\ main' = "group"
           /\ UNCHANGED <<batch, group, rsock, taken, client, sockmap, socks, relayer,
                          through, answers, early, lost>>

\* Mutant: a group is the rest of the batch.
FromAll(c) == IF \E p \in batch : from[p] = c THEN batch ELSE {}

From(c) == {p \in batch : from[p] = c}

\* The first half of find_or_insert finds an association...
Find(c) == /\ main = "group"
           /\ From(c) # {}
           /\ sockmap[c] # NoSock
           /\ group' = From(c)
           /\ batch' = batch \ From(c)
           /\ rsock' = sockmap[c]
           /\ main' = "send"
           /\ UNCHANGED <<taken, client, sockmap, socks, relayer, through, answers, early, lost>>

\* Mutant: an association is made without looking for one.
AssociateAnew(c) == /\ main = "group"
                    /\ From(c) # {}
                    /\ made' = made + 1
                    /\ owner' = [owner EXCEPT ![made'] = c]
                    /\ relayer' = [relayer EXCEPT ![made'] = "recv"]
                    /\ group' = From(c)
                    /\ batch' = batch \ From(c)
                    /\ rsock' = made'
                    /\ main' = "insert"
                    /\ UNCHANGED <<taken, client, sockmap, through, answers, early, lost>>

\* ... or finds none: make a socket and start its relayer.  The lock is free
\* until Insert.
Associate(c) == /\ main = "group"
                /\ From(c) # {}
                /\ sockmap[c] = NoSock
                /\ made' = made + 1
                /\ owner' = [owner EXCEPT ![made'] = c]
                /\ relayer' = [relayer EXCEPT ![made'] = "recv"]
                /\ group' = From(c)
                /\ batch' = batch \ From(c)
                /\ rsock' = made'
                /\ main' = "insert"
                /\ UNCHANGED <<taken, client, sockmap, through, answers, early, lost>>

\* Mutant: the new socket is not put into the map.
InsertForgotten == /\ main = "insert"
                   /\ main' = "send"
                   /\ UNCHANGED <<batch, group, rsock, taken, client, sockmap, socks, relayer,
                                  through, answers, early, lost>>

Insert == /\ main = "insert"
          /\ sockmap' = [sockmap EXCEPT ![owner[rsock]] = rsock]
          /\ main' = "send"
          /\ UNCHANGED <<batch, group, rsock, taken, client, socks, relayer, through, answers,
                         early, lost>>

Send(p) == /\ main = "send"
           /\ p \in group
           /\ through' = [through EXCEPT ![p] = rsock]
           /\ group' = group \ {p}
           /\ IF group' # {}
              THEN UNCHANGED <<main, rsock>>
              ELSE /\ rsock' = NoSock
                   /\ main' = IF batch = {} THEN "recv" ELSE "group"
           /\ UNCHANGED <<batch, taken, client, sockmap, socks, relayer, answers, early, lost>>

\* The name cannot be resolved, the socket cannot be made, or a send fails.
MainFails == /\ \/ main \in {"resolve", "send"}
                \/ main = "group" /\ \E c \in Client : From(c) # {} /\ sockmap[c] = NoSock
             /\ Restart
             /\ UNCHANGED <<client, sockmap, socks, relayer, through, answers, early, lost>>

-----------------------------------------------------------------------------
(* send_back                                                               *)

RelayerStep(s, now, next) == /\ relayer[s] = now
                             /\ relayer' = [relayer EXCEPT ![s] = next]

\* Mutant: only one packet of those received is kept.
RearReceiveOne(s) ==
    /\ RelayerStep(s, "recv", "send")
    /\ \E p \in replies[s] : held' = [held EXCEPT ![s] = {p}]
    /\ replies' = [replies EXCEPT ![s] = {}]
    /\ UNCHANGED <<returned, client, relay, sockmap, socks, through, early, lost>>

RearReceive(s) ==
    /\ RelayerStep(s, "recv", "send")
    /\ \E got \in SUBSET replies[s] :
          /\ Cardinality(got) = Min({MaxBatch, Cardinality(replies[s])})
          /\ got # {}
          /\ held' = [held EXCEPT ![s] = got]
          /\ replies' = [replies EXCEPT ![s] = @ \ got]
    /\ UNCHANGED <<returned, client, relay, sockmap, socks, through, early, lost>>

\* Mutant: the loop goes on after a time-out.
RearTimeoutStays(s) == /\ AssociateTimeout
                       /\ replies[s] = {}
                       /\ RelayerStep(s, "recv", "recv")
                       /\ UNCHANGED <<client, relay, sockmap, socks, through, answers, early, lost>>

\* Only a receive that finds nothing can time out.
RearTimeout(s) == /\ AssociateTimeout
                  /\ replies[s] = {}
                  /\ RelayerStep(s, "recv", "remove")
                  /\ UNCHANGED <<client, relay, sockmap, socks, through, answers, early, lost>>

RearFails(s) == /\ RelayerStep(s, "recv", "remove")
                /\ UNCHANGED <<client, relay, sockmap, socks, through, answers, early, lost>>

Return(s, p) == /\ p \in held[s]
                /\ RelayerStep(s, "send", IF held[s] = {p} THEN "recv" ELSE "send")
                /\ held' = [held EXCEPT ![s] = @ \ {p}]
                /\ returned' = [returned EXCEPT ![owner[s]] = @ \cup {p}]
                /\ UNCHANGED <<replies, client, relay, sockmap, socks, through, early, lost>>

ReturnFails(s) == /\ RelayerStep(s, "send", "remove")
                  /\ held' = [held EXCEPT ![s] = {}]
                  /\ lost' = lost \cup held[s]
                  /\ UNCHANGED <<replies, returned, client, relay, sockmap, socks, through, early>>

\* Mutant: the relayer ends and leaves its entry in the map.
RemoveForgotten(s) == /\ RelayerStep(s, "remove", "gone")
                      /\ replies' = [replies EXCEPT ![s] = {}]
                      /\ UNCHANGED <<held, returned, client, relay, sockmap, socks, through,
                                     early, lost>>

\* The entry is removed by the client's address, whatever socket it holds.
Remove(s) == /\ RelayerStep(s, "remove", "gone")
             /\ sockmap' = [sockmap EXCEPT ![owner[s]] = NoSock]
             /\ replies' = [replies EXCEPT ![s] = {}]
             /\ early' = IF sockmap[owner[s]] = s THEN early ELSE early \cup {s}
             /\ lost' = lost \cup replies[s]
             /\ UNCHANGED <<held, returned, client, relay, socks, through>>

-----------------------------------------------------------------------------
(* The world                                                               *)

ClientSends(c) == /\ arrived < MaxPackets
                  /\ arrived' = arrived + 1
                  /\ from' = [from EXCEPT ![arrived'] = c]
                  /\ UNCHANGED <<relay, sockmap, socks, relayer, through, answers, early, lost>>

\* The remote answers a packet, once or more; nobody reads the answer behind
\* a relayer that is gone.
RemoteAnswers(p) ==
    LET s == through[p]
    IN  /\ s # NoSock
        /\ relayer[s] # "gone"
        /\ p \notin replies[s]
        /\ p \notin returned[from[p]]
        /\ replies' = [replies EXCEPT ![s] = @ \cup {p}]
        /\ UNCHANGED <<held, returned, client, relay, sockmap, socks, relayer, through, early,
                       lost>>

MainSteps == \/ Receive \/ Resolve \/ Insert
             \/ \E c \in Client : Find(c) \/ Associate(c)
             \/ \E p \in Packet : Send(p)

RelayerSteps(s) == \/ RearReceive(s) \/ RearTimeout(s) \/ Remove(s)
                   \/ \E p \in Packet : Return(s, p)

Next == \/ MainSteps
        \/ MainFails
        \/ \E s \in Sock : RelayerSteps(s) \/ RearFails(s) \/ ReturnFails(s)
        \/ \E c \in Client : ClientSends(c)
        \/ \E p \in Packet : RemoteAnswers(p)

\* Every task the runtime holds is run again when it can go on, and a timer
\* that has been started fires; nothing has to fail, to be sent or to be
\* answered.
Fairness == /\ WF_vars(MainSteps)
            /\ \A s \in Sock : WF_vars(RelayerSteps(s))

Spec     == Init /\ [][Next]_vars
FairSpec == Spec /\ Fairness

-----------------------------------------------------------------------------
\* Types of the two tasks' state and of the map.
UdpTypeOK ==
    /\ from \in [Packet -> Client \cup {Nobody}]
    /\ arrived \in 0 .. MaxPackets
    /\ taken \in 0 .. arrived
    /\ main \in {"recv", "resolve", "group", "insert", "send"}
    /\ batch \in SUBSET (1 .. taken)
    /\ group \in SUBSET (1 .. taken)
    /\ rsock \in 0 .. made
    /\ sockmap \in [Client -> 0 .. made]
    /\ made \in 0 .. taken
    /\ owner \in [Sock -> Client \cup {Nobody}]
    /\ relayer \in [Sock -> {"none", "recv", "send", "remove", "gone"}]
    /\ through \in [Packet -> 0 .. made]
    /\ replies \in [Sock -> SUBSET Packet]
    /\ held \in [Sock -> SUBSET Packet]
    /\ returned \in [Client -> SUBSET Packet]
    /\ early \subseteq Sock
    /\ lost \subseteq Packet

Live(s) == relayer[s] \in {"recv", "send", "remove"}

\* A relayer that has not finished is the one in the map for its client, or
\* about to be put there: no client has two, and the relayer that removes a
\* client's entry (middle.rs:171) removes its own.
Registered ==
    \A s \in Sock : Live(s) => \/ sockmap[owner[s]] = s
                               \/ main = "insert" /\ rsock = s

\* A client's association is never replaced by another: it stays until its own
\* relayer, having ended, takes it away (sockmap.rs:36-58).
NeverReplaced ==
    [][\A c \in Client :
          sockmap[c] # NoSock => \/ sockmap'[c] = sockmap[c]
                                 \/ /\ sockmap'[c] = NoSock
                                    /\ relayer[sockmap[c]] = "remove"]_vars

\* A packet is forwarded through its own client's socket only, and the answers
\* a client is sent are answers to packets of its own (middle.rs:121-134,
\* 143-162).  This takes a local port for each socket, as there is unless
\* `through' names one (see the head of the module).
RepliesGoHome ==
    /\ \A p \in Packet : through[p] # NoSock => owner[through[p]] = from[p]
    /\ \A c \in Client : \A p \in returned[c] : from[p] = c

\* No client is left with a socket from which nobody reads, unless the
\* relayer was gone before its socket reached the map: find_or_insert lets it
\* run between the look-up and the insertion (sockmap.rs:42-45).
NoDeadAssociation ==
    \A c \in Client : /\ sockmap[c] # NoSock
                      /\ relayer[sockmap[c]] = "gone"
                      => sockmap[c] \in early

\* Every packet that arrives is received in the end, whatever fails
\* (mod.rs:34-38): the loop is never stuck on one client.
AllTaken == \A p \in Packet : (p <= arrived) ~> (p <= taken /\ p \notin batch \cup group)

\* With a time-out, when no more packets come every association ends and is
\* taken out of the map, but for those that ended too early (middle.rs:149-171).
Cleared == AssociateTimeout => <>[](\A c \in Client : sockmap[c] \in early \cup {NoSock})

\* An answer that has reached a socket reaches the client, unless an error
\* ends the relayer first or the answer comes behind its time-out: a batch is
\* passed on whole, and no time-out drops what has been received.
AnswersReturn ==
    \A p \in Packet : \A s \in Sock :
        (p \in replies[s]) ~> (p \in lost \/ \E c \in Client : p \in returned[c])
=============================================================================
