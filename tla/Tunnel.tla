------------------------------- MODULE Tunnel -------------------------------
(***************************************************************************)
(* A tunnel of two relays: a client C talks to relay A, A to relay B and B *)
(* to a server S.  Both relays run connect_and_relay of                    *)
(* bytehub_core/src/tcp/middle.rs on the connection, from the moment their *)
(* streams are there (Failover has what is before): PROXY header           *)
(* (tcp/proxy.rs), obfuscation handshake and copy                          *)
(* (bytehub_io/src/bidi_copy.rs, mem_copy.rs, tcp/plain.rs), the latency   *)
(* limit (relay_plain_timed) and the report to the balancer.               *)
(*                                                                         *)
(* A stream is a sequence of items: chunks of data, PROXY headers,         *)
(* obfuscation heads and the junk behind them, an end or a reset.  An item *)
(* that went through the cipher has its `enc' flipped.  A write is one     *)
(* step, a copy moves one item at a time (the buffer in between is         *)
(* BidiCopy's business), and every timer may fire at any moment.           *)
(***************************************************************************)
EXTENDS Integers, Sequences

CONSTANTS Setups,  \* how A, B and C are configured, see SetupsAssumption
          Most,    \* bound on the chunks C and S send, each
          Junk     \* the possible lengths of the junk behind a head

Relay == {"A", "B"}
Party == {"C", "S"}
Dir   == {"up", "down"}  \* from C to S, and back

ASSUME SetupsAssumption ==
  Setups \subseteq [mode   : [Relay -> 0 .. 2],      \* obfs: off, client, server
                    accept : [Relay -> BOOLEAN],     \* accept_proxy
                    send   : [Relay -> BOOLEAN],     \* send_proxy
                    limit  : [Relay -> BOOLEAN],     \* max_latency_ms, and no transport
                    lead   : {"none", "tcp", "other"},  \* the PROXY header C begins with
                    brutal : BOOLEAN]                \* feature brutal-shutdown
ASSUME BoundsAssumption == Most \in [Party -> Nat] /\ Junk \subseteq Nat

VARIABLES setup,   \* the configuration, fixed
          link,    \* what is under way between two neighbours
          pc,      \* where each relay is
          name,    \* the client's address, as each relay knows it
          done,    \* the directions each relay's copy has shut down
          heard,   \* first_byte_us # 0: did the peer of each relay say anything?
          report,  \* what each relay told its balancer about its peer
          sent,    \* chunks C and S have sent,
          shut,    \* and whether they have ended their stream
          got,     \* what C and S have received,
          ended,   \* and whether they have seen the end of it
          reset    \* history: was some connection reset?

relays  == <<pc, name, done, heard, report>>
parties == <<sent, shut, got, ended>>
vars    == <<setup, link, relays, parties, reset>>

From(r, d) == CASE d = "up"   -> IF r = "A" THEN "CA" ELSE "AB"
                [] d = "down" -> IF r = "A" THEN "BA" ELSE "SB"
To(r, d)   == CASE d = "up"   -> IF r = "A" THEN "AB" ELSE "BS"
                [] d = "down" -> IF r = "A" THEN "AC" ELSE "BA"

-----------------------------------------------------------------------------
(* Items. *)
Item(kind, n, of) == [kind |-> kind, n |-> n, of |-> of, enc |-> FALSE]
Data(n)     == Item("data", n, "nobody")
Proxy(of)   == Item("proxy", 0, of)      \* a PROXY header, of that client
OwnHead(j)  == Item("head", j, "nobody")  \* 14 bytes, announcing j of junk
Rubbish     == Item("junk", 0, "nobody")
Eof         == Item("eof", 0, "nobody")
Rst         == Item("rst", 0, "nobody")

Ends(it) == it.kind \in {"eof", "rst"}

(* Every memory copy of an obfuscating relay flips what it reads.  Without *)
(* obfuscation the copy may be a splice, which flips nothing.              *)
Flip(r, it) == IF setup.mode[r] = 0 THEN it ELSE [it EXCEPT !.enc = ~@]

(* A mutant of Copied: the splice is taken whatever the mode. *)
CopiedBySplice(r, it) == it
Copied(r, it) == Flip(r, it)

(* A mutant of Prefix: no head in front of an empty first chunk. *)
PrefixIfAny(r, j, chunk) ==
  IF chunk = <<>> THEN <<>>
  ELSE <<OwnHead(j)>> \o [i \in 1 .. j |-> Rubbish] \o [i \in 1 .. Len(chunk) |-> Flip(r, chunk[i])]

(* The head, its junk and the enciphered first chunk, written as one. *)
Prefix(r, j, chunk) ==
  <<OwnHead(j)>> \o [i \in 1 .. j |-> Rubbish] \o [i \in 1 .. Len(chunk) |-> Flip(r, chunk[i])]

Init == /\ setup \in Setups
        /\ link = [l \in {"CA", "AB", "BS", "SB", "BA", "AC"} |-> <<>>]
        /\ pc = [r \in Relay |-> "proxy"]
        /\ name = [r \in Relay |-> IF r = "A" THEN "client" ELSE "A"]
        /\ done = [r \in Relay |-> {}]
        /\ heard = [r \in Relay |-> FALSE]
        /\ report = [r \in Relay |-> "none"]
        /\ sent = [p \in Party |-> 0]
        /\ shut = [p \in Party |-> FALSE]
        /\ got = [p \in Party |-> <<>>]
        /\ ended = [p \in Party |-> FALSE]
        /\ reset = FALSE

GoTo(r, label) == pc' = [pc EXCEPT ![r] = label]

(* What the relay reads from its peer is noticed by TimedStream. *)
Hear(r, d) == heard' = [heard EXCEPT ![r] = @ \/ d = "down"]

(* The relay's task ends and both its streams are dropped: the neighbours  *)
(* see an end behind what is under way or, if something was left unread, a *)
(* reset instead of it.                                                    *)
Drop(r, label, verdict) ==
  /\ GoTo(r, label)
  /\ report' = [report EXCEPT ![r] = verdict]
  /\ \E hard \in SUBSET {To(r, d) : d \in Dir} :
       /\ reset' = (reset \/ hard # {})
       /\ link' = [l \in DOMAIN link |->
                     IF l \in hard THEN <<Rst>>
                     ELSE IF l \in {To(r, d) : d \in Dir \ done[r]} THEN Append(link[l], Eof)
                     ELSE link[l]]
  /\ UNCHANGED <<setup, name, done, heard, parties>>

(* An error before the relay has begun is nobody's fault: `?' returns past *)
(* the report.  Afterwards it is put down to the peer.                     *)
Refuse(r) == Drop(r, "failed", "none")
Break(r)  == Drop(r, "failed", "failure")

-----------------------------------------------------------------------------
(* handle_proxy.                                                           *)

Start(r) == CASE setup.mode[r] = 1 -> "first"
              [] setup.mode[r] = 2 -> "consume"
              [] OTHER             -> "copy"

(* Without accept_proxy and send_proxy nothing happens. *)
NoProxy(r) == /\ pc[r] = "proxy"
              /\ ~setup.accept[r]
              /\ GoTo(r, IF setup.send[r] THEN "send" ELSE Start(r))
              /\ UNCHANGED <<setup, link, name, done, heard, report, parties, reset>>

(* handle_header: commands, protocols and address families that name no    *)
(* TCP client are passed over, and the client is then who is connected.    *)
Named(it, r) == IF it.of = "nobody" THEN name[r] ELSE it.of

(* accept_proxy: the header is taken off the stream. *)
Peek(r) ==
  LET in == link[From(r, "up")]
  IN  /\ pc[r] = "proxy" /\ setup.accept[r]
      /\ in # <<>> /\ Head(in).kind = "proxy"
      /\ name' = [name EXCEPT ![r] = Named(Head(in), r)]
      /\ link' = [link EXCEPT ![From(r, "up")] = Tail(in)]
      /\ GoTo(r, IF setup.send[r] THEN "send" ELSE Start(r))
      /\ UNCHANGED <<setup, done, heard, report, parties, reset>>

(* What the one peek shows is no header, or the beginning of one, or it    *)
(* shows nothing in time.                                                  *)
PeekFails(r) == /\ pc[r] = "proxy" /\ setup.accept[r]
                /\ Refuse(r)

SendProxy(r) ==
  /\ pc[r] = "send"
  /\ link' = [link EXCEPT ![To(r, "up")] = Append(@, Proxy(name[r]))]
  /\ GoTo(r, Start(r))
  /\ UNCHANGED <<setup, name, done, heard, report, parties, reset>>

-----------------------------------------------------------------------------
(* bidi_copy_buf before the copy.                                          *)

(* The side whose first chunk rides along, and where the head goes. *)
Source(r) == IF setup.mode[r] = 1 THEN "up" ELSE "down"

AfterFirst(r)   == IF setup.mode[r] = 1 THEN "consume" ELSE "copy"
AfterConsume(r) == IF setup.mode[r] = 1 THEN "copy" ELSE "first"

(* Mutants of FirstChunk: it waits for a chunk, as long as it takes, ... *)
FirstChunkWaits(r) ==
  LET in == link[From(r, Source(r))]
  IN  /\ pc[r] = "first"
      /\ in # <<>>
      /\ \E k \in 0 .. Len(in), j \in Junk :
           /\ (k = 0) = Ends(Head(in)) /\ \A i \in 1 .. k : ~Ends(in[i])
           /\ link' = [link EXCEPT ![From(r, Source(r))] = SubSeq(in, k + 1, Len(in)),
                                   ![To(r, Source(r))] = @ \o Prefix(r, j, SubSeq(in, 1, k))]
           /\ heard' = [heard EXCEPT ![r] = @ \/ (Source(r) = "down" /\ k > 0)]
      /\ GoTo(r, AfterFirst(r))
      /\ UNCHANGED <<setup, name, done, report, parties, reset>>

(* ... or reads it beside TimedStream. *)
FirstChunkUnheard(r) ==
  LET in == link[From(r, Source(r))]
  IN  /\ pc[r] = "first"
      /\ \E k \in 0 .. Len(in), j \in Junk :
           /\ \A i \in 1 .. k : ~Ends(in[i])
           /\ link' = [link EXCEPT ![From(r, Source(r))] = SubSeq(in, k + 1, Len(in)),
                                   ![To(r, Source(r))] = @ \o Prefix(r, j, SubSeq(in, 1, k))]
      /\ GoTo(r, AfterFirst(r))
      /\ UNCHANGED <<setup, name, done, heard, report, parties, reset>>

(* What a read of k items leaves: an end of stream is met again, a reset   *)
(* that has been reported turns into one.                                  *)
Unread(in, k) == {SubSeq(in, k + 1, Len(in))} \cup IF in = <<Rst>> THEN {<<Eof>>} ELSE {}

(* read_first_chunk and the write behind it: some of what has arrived, or  *)
(* nothing when the timer fires first or the stream has ended.             *)
FirstChunk(r) ==
  LET in == link[From(r, Source(r))]
  IN  /\ pc[r] = "first"
      /\ \E k \in 0 .. Len(in), j \in Junk : \E rest \in Unread(in, k) :
           /\ \A i \in 1 .. k : ~Ends(in[i])
           /\ link' = [link EXCEPT ![From(r, Source(r))] = rest,
                                   ![To(r, Source(r))] = @ \o Prefix(r, j, SubSeq(in, 1, k))]
           /\ heard' = [heard EXCEPT ![r] = @ \/ (Source(r) = "down" /\ k > 0)]
      /\ GoTo(r, AfterFirst(r))
      /\ UNCHANGED <<setup, name, done, report, parties, reset>>

Partner(r) == IF setup.mode[r] = 1 THEN "down" ELSE "up"

(* A genuine head, in the clear as it was written. *)
Genuine(it) == it.kind = "head" /\ ~it.enc

(* compute_garbage_len: sender and receiver work it out from the head. *)
JunkBehind(it) == it.n

(* consume_dynamic_obfs_v2: the head is checked, the junk thrown away. *)
Consume(r) ==
  LET in == link[From(r, Partner(r))]
  IN  /\ pc[r] = "consume"
      /\ in # <<>> /\ Genuine(Head(in))
      /\ link' = [link EXCEPT ![From(r, Partner(r))] = SubSeq(in, 2 + JunkBehind(Head(in)), Len(in))]
      /\ Hear(r, Partner(r))
      /\ GoTo(r, AfterConsume(r))
      /\ UNCHANGED <<setup, name, done, report, parties, reset>>

(* Anything else is taken for a probe, and answered by three seconds'      *)
(* silence.                                                                *)
Probed(r) ==
  LET in == link[From(r, Partner(r))]
  IN  /\ pc[r] = "consume"
      /\ in # <<>> /\ ~Ends(Head(in)) /\ ~Genuine(Head(in))
      /\ link' = [link EXCEPT ![From(r, Partner(r))] = Tail(in)]
      /\ Hear(r, Partner(r))
      /\ GoTo(r, "probed")
      /\ UNCHANGED <<setup, name, done, report, parties, reset>>

ConsumeFails(r) ==
  \/ pc[r] = "probed" /\ Break(r)
  \/ /\ pc[r] = "consume"
     /\ LET in == link[From(r, Partner(r))] IN in # <<>> /\ Ends(Head(in))
     /\ Break(r)

-----------------------------------------------------------------------------
(* The copy, and the end of the relay.                                     *)

Copy(r, d) ==
  LET in == link[From(r, d)]
  IN  /\ pc[r] = "copy" /\ d \notin done[r]
      /\ in # <<>> /\ ~Ends(Head(in))
      /\ link' = [link EXCEPT ![From(r, d)] = Tail(in), ![To(r, d)] = Append(@, Copied(r, Head(in)))]
      /\ Hear(r, d)
      /\ UNCHANGED <<setup, pc, name, done, report, parties, reset>>

CopyEnds(r, d) ==
  LET in == link[From(r, d)]
  IN  /\ pc[r] = "copy" /\ d \notin done[r]
      /\ in # <<>> /\ Head(in) = Eof
      /\ link' = [link EXCEPT ![From(r, d)] = Tail(in), ![To(r, d)] = Append(@, Eof)]
      /\ done' = [done EXCEPT ![r] = @ \cup {d}]
      /\ UNCHANGED <<setup, pc, name, heard, report, parties, reset>>

(* Whoever reads at that end of a link is gone. *)
Gone(l) == CASE l = "AB" -> pc["B"] \in {"done", "failed"}
             [] l = "BA" -> pc["A"] \in {"done", "failed"}
             [] l = "BS" -> shut["S"] /\ ended["S"]
             [] l = "AC" -> shut["C"] /\ ended["C"]

(* A connection that was reset fails its reader, one that was closed its   *)
(* writer.                                                                 *)
CopyFails(r) == /\ pc[r] = "copy"
                /\ \E d \in Dir \ done[r] :
                     /\ link[From(r, d)] # <<>>
                     /\ \/ Head(link[From(r, d)]) = Rst
                        \/ ~Ends(Head(link[From(r, d)])) /\ Gone(To(r, d))
                /\ Break(r)

(* The same for the writes before the copy; a client that has reset its    *)
(* connection has no address to send.                                      *)
WriteFails(r) == \/ /\ pc[r] = "send"
                    /\ Gone(To(r, "up")) \/ link[From(r, "up")] = <<Rst>>
                    /\ Refuse(r)
                 \/ pc[r] = "first" /\ Gone(To(r, Source(r))) /\ Break(r)

Slow(r) == setup.limit[r] /\ ~heard[r]

(* A relay that ends before the peer has said anything counts against it. *)
Verdict(r) == IF Slow(r) THEN "failure" ELSE "success"

(* Both directions are over; in the brutal build one is enough. *)
Finish(r) == /\ pc[r] = "copy"
             /\ done[r] = Dir \/ (setup.brutal /\ done[r] # {})
             /\ Drop(r, "done", Verdict(r))

(* max_latency_ms after the start of the relay (not of the connection). *)
Deadline(r) == /\ pc[r] \in {"first", "consume", "probed", "copy"}
               /\ Slow(r)
               /\ Break(r)

-----------------------------------------------------------------------------
(* The client and the server. *)

Out(p) == IF p = "C" THEN "CA" ELSE "SB"
In(p)  == IF p = "C" THEN "AC" ELSE "BS"

(* A client behind a PROXY header sends that first. *)
Lead == /\ setup.lead # "none" /\ ~shut["C"]
        /\ link["CA"] = <<>> /\ pc["A"] = "proxy"
        /\ link' = [link EXCEPT !["CA"] = <<Proxy(IF setup.lead = "tcp" THEN "origin" ELSE "nobody")>>]
        /\ UNCHANGED <<setup, relays, parties, reset>>

Led == setup.lead = "none" \/ link["CA"] # <<>> \/ pc["A"] # "proxy"

Say(p) == /\ p = "C" => Led
          /\ ~shut[p] /\ sent[p] < Most[p]
          /\ sent' = [sent EXCEPT ![p] = @ + 1]
          /\ link' = [link EXCEPT ![Out(p)] = Append(@, Data(sent[p] + 1))]
          /\ UNCHANGED <<setup, relays, shut, got, ended, reset>>

Shut(p) == /\ ~shut[p]
           /\ shut' = [shut EXCEPT ![p] = TRUE]
           /\ link' = [link EXCEPT ![Out(p)] = Append(@, Eof)]
           /\ UNCHANGED <<setup, relays, sent, got, ended, reset>>

(* A party goes away; what it has sent but nobody has read is lost. *)
Vanish(p) == /\ ~shut[p] /\ ~ended[p]
             /\ shut' = [shut EXCEPT ![p] = TRUE]
             /\ ended' = [ended EXCEPT ![p] = TRUE]
             /\ link' = [link EXCEPT ![Out(p)] = <<Rst>>]
             /\ reset' = TRUE
             /\ UNCHANGED <<setup, relays, sent, got>>

Get(p) == /\ ~ended[p] /\ link[In(p)] # <<>>
          /\ link' = [link EXCEPT ![In(p)] = Tail(@)]
          /\ IF Ends(Head(link[In(p)]))
               THEN ended' = [ended EXCEPT ![p] = TRUE] /\ UNCHANGED got
               ELSE got' = [got EXCEPT ![p] = Append(@, Head(link[In(p)]))] /\ UNCHANGED ended
          /\ UNCHANGED <<setup, relays, sent, shut, reset>>

-----------------------------------------------------------------------------
(* What a relay's task goes on to do of itself. *)
Step(r) == \/ NoProxy(r) \/ Peek(r) \/ PeekFails(r) \/ SendProxy(r)
           \/ FirstChunk(r) \/ Consume(r) \/ Probed(r) \/ ConsumeFails(r)
           \/ (\E d \in Dir : Copy(r, d) \/ CopyEnds(r, d)) \/ CopyFails(r) \/ WriteFails(r)
           \/ Finish(r)

Next == \/ \E r \in Relay : Step(r) \/ Deadline(r)
        \/ \E p \in Party : Say(p) \/ Shut(p) \/ Vanish(p) \/ Get(p)
        \/ Lead

Spec == Init /\ [][Next]_vars

(* A relay's task goes on while it can, in both directions of its copy,    *)
(* and C and S take what comes.  Nobody need say anything or stop, and no  *)
(* deadline need pass.                                                     *)
FairSpec == /\ Spec
            /\ \A r \in Relay : /\ WF_vars(Step(r))
                                /\ \A d \in Dir : WF_vars(Copy(r, d) \/ CopyEnds(r, d))
            /\ \A p \in Party : WF_vars(Get(p))

-----------------------------------------------------------------------------
(* Obfuscation is set up at both ends or at neither. *)
Matched == <<setup.mode["A"], setup.mode["B"]>> \in {<<0, 0>>, <<1, 2>>}

(* ... or the relay in front does not know of it; and a relay accepts a    *)
(* PROXY header just if its neighbour sends one.                           *)
Agreed == /\ Matched \/ <<setup.mode["A"], setup.mode["B"]>> = <<0, 2>>
          /\ setup.accept["A"] = (setup.lead # "none")
          /\ setup.accept["B"] = setup.send["A"]

(* What S is told of the client: each relay vouches for its own neighbour, *)
(* unless it accepts a PROXY header that says more.                        *)
Origin == IF ~setup.accept["B"] THEN "A"
          ELSE IF setup.accept["A"] /\ setup.lead = "tcp" THEN "origin" ELSE "client"

Body(p) == IF p = "S" /\ setup.send["B"] /\ got[p] # <<>> THEN Tail(got[p]) ELSE got[p]

Other(p) == IF p = "C" THEN "S" ELSE "C"

(* Behind the header C and S receive what the other has sent: every chunk  *)
(* in order, in the clear, and nothing of heads, junk and headers, however *)
(* the first chunks race the timers, with either relay's handshake under   *)
(* way (plain.rs:11-32, bidi_copy.rs:347-387); with a relay that does not  *)
(* know the handshake in front, none of it.                                *)
TunnelIntact ==
  Agreed =>
    \A p \in Party : /\ Len(Body(p)) <= IF Matched THEN sent[Other(p)] ELSE 0
                     /\ \A i \in 1 .. Len(Body(p)) : Body(p)[i] = Data(i)

(* S is greeted with the client's name where B is to send it, the name of  *)
(* the client at the far end if the relays hand it on, and two relays that *)
(* agree never take each other for a probe (proxy.rs:38-98).               *)
ProperHeaders ==
  Agreed => /\ setup.send["B"] /\ got["S"] # <<>> => got["S"][1] = Proxy(Origin)
            /\ Matched => \A r \in Relay : pc[r] # "probed"

(* Each has received all the other sent, to the end, and S did answer. *)
Served == /\ ~reset
          /\ sent["S"] > 0
          /\ \A p \in Party : shut[p] /\ ended[p] /\ Len(Body(p)) = sent[Other(p)]

(* No relay blames its peer for a connection that was served, however the  *)
(* answer was split between handshake and copy and whatever the timers did *)
(* (middle.rs:45-78,262-293).  A late relay is none of these, as the code  *)
(* ends it (:277-292); the documentation has it served and blamed          *)
(* (:231-237), see LateRelayGoesOn.                                        *)
ServiceNotBlamed == Agreed /\ Served => \A r \in Relay : report[r] # "failure"

(* A neighbour has reset its connection to the relay, or reads no more.    *)
Abandoned(r) == \E d \in Dir : \/ link[From(r, d)] # <<>> /\ Head(link[From(r, d)]) = Rst
                               \/ Gone(To(r, d))

(* A relay whose peer has not answered within max_latency_ms is not killed,*)
(* the connection continues so the client still gets the response          *)
(* (middle.rs:231-237): a copy ends only behind the end of a direction, or *)
(* when a neighbour is gone.                                               *)
LateRelayGoesOn ==
  [][\A r \in Relay : pc[r] = "copy" /\ pc'[r] # "copy" => done[r] # {} \/ Abandoned(r)]_vars

(* A relay has failed, a connection was reset, or the brutal build has     *)
(* ended the relay behind the end of one direction.                        *)
Over == \/ reset
        \/ \E r \in Relay : pc[r] = "failed" \/ (setup.brutal /\ pc[r] = "done")

(* Between relays that agree, whoever speaks first, what was sent arrives: *)
(* neither waits for ever for a head or a chunk that the other withholds   *)
(* (bidi_copy.rs:317-336,376-381).                                         *)
Delivered ==
  \A p \in Party : \A n \in 1 .. Most[Other(p)] :
    Matched /\ sent[Other(p)] >= n ~> Len(Body(p)) >= n \/ Over
=============================================================================
