------------------------------ MODULE BidiCopy ------------------------------
(***************************************************************************)
(* The bidirectional copy of bytehub_io: the future BidiCopy               *)
(* (bidi_copy.rs:11-120) over two CopyBuffers (buf.rs:55-116), one step    *)
(* per read, write, flush or shutdown of a stream.  The buffer is memory   *)
(* or a pipe; which of the two does not show here.                         *)
(*                                                                         *)
(* The streams are external: a read may be short, a write may take fewer   *)
(* bytes than it is given, a writer may hold up to Held bytes until it is  *)
(* flushed (TLS, WebSocket; zero for plain TCP), and the endpoint behind   *)
(* it has room for Window bytes it has not consumed.  The task sleeps when *)
(* a poll ends Pending and is polled again only by an interest that this   *)
(* very poll registered.                                                   *)
(***************************************************************************)
EXTENDS Integers, Sequences, FiniteSets

CONSTANTS MaxBytes,  \* bound on the bytes an endpoint sends
          BufSize,   \* size of a CopyBuffer
          Held,      \* bytes a writer may hold back until it is flushed
          Window     \* bytes the receiving socket takes in unconsumed

Side     == {"a", "b"}
Other(d) == IF d = "a" THEN "b" ELSE "a"

ASSUME BufferAssumption == /\ MaxBytes \in Nat
                           /\ BufSize \in Nat \ {0}
                           /\ Held \in Nat
                           /\ Window \in Nat \ {0}

(* A direction is named after the side it reads from. *)
VARIABLES brutal,        \* is the feature `brutal-shutdown' built in?
          sent, closed,  \* what the endpoint has sent, and whether it shut its side
          taken,         \* bytes read off its stream
          wire,          \* the bytes written to the stream of the other side
          passed,        \* how many of those have left the writer
          got,           \* how many of those the other endpoint has consumed
          eof,           \* has the other side's stream been shut down?
          copy,          \* the TransferState with its CopyBuffer
          turn,          \* the direction being polled, or "end", "asleep", "ok", "failed"
          flushing,      \* between a Pending read and the flush it asks for
          waits          \* the interests registered during this poll

endpoints == <<brutal, sent, closed, got>>
sockets   == <<brutal, taken, wire, passed, eof>>
task      == <<copy, turn, flushing, waits>>
vars      == <<endpoints, sockets, task>>

Least(m, n) == IF m <= n THEN m ELSE n

Init == /\ brutal \in BOOLEAN
        /\ sent = [d \in Side |-> 0]
        /\ closed = [d \in Side |-> FALSE]
        /\ got = [d \in Side |-> 0]
        /\ taken = [d \in Side |-> 0]
        /\ wire = [d \in Side |-> <<>>]
        /\ passed = [d \in Side |-> 0]
        /\ eof = [d \in Side |-> FALSE]
        /\ copy = [d \in Side |-> [phase |-> "running", base |-> 0, pos |-> 0, cap |-> 0,
                                   readDone |-> FALSE, needFlush |-> FALSE]]
        /\ turn = "a"
        /\ flushing = FALSE
        /\ waits = {}

-----------------------------------------------------------------------------
(* The endpoints. *)

Send(d) == /\ ~closed[d]
           /\ sent[d] < MaxBytes
           /\ sent' = [sent EXCEPT ![d] = @ + 1]
           /\ UNCHANGED <<closed, got, sockets, task>>

Close(d) == /\ ~closed[d]
            /\ closed' = [closed EXCEPT ![d] = TRUE]
            /\ UNCHANGED <<sent, got, sockets, task>>

Consume(d) == /\ got[d] < passed[d]
              /\ got' = [got EXCEPT ![d] = @ + 1]
              /\ UNCHANGED <<sent, closed, sockets, task>>

-----------------------------------------------------------------------------
(* The streams, seen from the copy. *)

Readable(d) == sent[d] > taken[d] \/ closed[d]
Room(d)     == Held + Window - (Len(wire[d]) - got[d])
Reach(d)    == Least(Len(wire[d]), got[d] + Window)
TakenForFlushed(d) == Reach(d) >= passed[d]   \* a mutant: a Pending flush is ignored
Flushed(d)  == Reach(d) = Len(wire[d])

(* What wakes a task that waits for it. *)
Ready(w) == CASE w[1] = "read"  -> Readable(w[2])
              [] w[1] = "write" -> Room(w[2]) > 0
              [] w[1] = "flush" -> Reach(w[2]) > passed[w[2]]

-----------------------------------------------------------------------------
(* One poll of one direction. *)

Then(d)    == IF d = "a" THEN "b" ELSE "end"
Empty(d)   == copy[d].pos = copy[d].cap
NeverFlushes(d) == FALSE   \* a mutant: a Pending read ends the poll
NeedsFlush(d) == copy[d].needFlush
Running(d) == turn = d /\ copy[d].phase = "running"

(* A poll of this direction returns Pending, for the reason it registers. *)
Pend(d, interest) == /\ waits' = waits \cup {<<interest, d>>}
                     /\ turn' = Then(d)

Read(d) ==
  /\ Running(d) /\ Empty(d) /\ ~copy[d].readDone /\ ~flushing
  /\ \/ /\ \E n \in 1 .. Least(BufSize, sent[d] - taken[d]) :
             /\ copy' = [copy EXCEPT ![d].base = taken[d], ![d].pos = 0, ![d].cap = n]
             /\ taken' = [taken EXCEPT ![d] = @ + n]
        /\ UNCHANGED <<turn, flushing, waits>>
     \/ /\ sent[d] = taken[d] /\ closed[d]
        /\ copy' = [copy EXCEPT ![d].readDone = TRUE]
        /\ UNCHANGED <<taken, turn, flushing, waits>>
     \/ /\ ~Readable(d)
        /\ IF NeedsFlush(d)
             THEN /\ flushing' = TRUE
                  /\ waits' = waits \cup {<<"read", d>>}
                  /\ UNCHANGED turn
             ELSE Pend(d, "read") /\ UNCHANGED flushing
        /\ UNCHANGED <<taken, copy>>
  /\ UNCHANGED <<endpoints, wire, passed, eof>>

(* What a write pushes out of the writer lies between what it must, to    *)
(* make room, and what the window takes.                                  *)
Write(d) ==
  /\ Running(d) /\ copy[d].pos < copy[d].cap
  /\ \/ \E n \in 1 .. Least(copy[d].cap - copy[d].pos, Room(d)) :
          /\ wire' = [wire EXCEPT ![d] =
                        @ \o [i \in 1 .. n |-> copy[d].base + copy[d].pos + i]]
          /\ passed' \in {[passed EXCEPT ![d] = p] :
                           p \in {q \in passed[d] .. Least(Len(wire[d]) + n, got[d] + Window) :
                                    q >= Len(wire[d]) + n - Held}}
          /\ copy' = [copy EXCEPT ![d].pos = @ + n, ![d].needFlush = TRUE]
          /\ UNCHANGED <<turn, waits>>
     \/ /\ Room(d) = 0
        /\ Pend(d, "write")
        /\ UNCHANGED <<wire, passed, copy>>
  /\ UNCHANGED <<endpoints, taken, eof, flushing>>

(* The flush behind a Pending read, so that an endpoint that waits for    *)
(* what the writer holds is not waited for in turn (buf.rs:68-77).        *)
FlushIdle(d) ==
  /\ Running(d) /\ flushing
  /\ passed' = [passed EXCEPT ![d] = Reach(d)]
  /\ flushing' = FALSE
  /\ IF Flushed(d)
       THEN /\ copy' = [copy EXCEPT ![d].needFlush = FALSE]
            /\ turn' = Then(d)
            /\ UNCHANGED waits
       ELSE Pend(d, "flush") /\ UNCHANGED copy
  /\ UNCHANGED <<endpoints, taken, wire, eof>>

(* The flush behind the end of the stream (buf.rs:109-114). *)
FlushLast(d) ==
  /\ Running(d) /\ Empty(d) /\ copy[d].readDone
  /\ passed' = [passed EXCEPT ![d] = Reach(d)]
  /\ IF Flushed(d)
       THEN copy' = [copy EXCEPT ![d].phase = "shutting_down"] /\ UNCHANGED <<turn, waits>>
       ELSE Pend(d, "flush") /\ UNCHANGED copy
  /\ UNCHANGED <<endpoints, taken, wire, eof, flushing>>

Shutdown(d) ==
  /\ turn = d /\ copy[d].phase = "shutting_down"
  /\ eof' = [eof EXCEPT ![d] = TRUE]
  /\ copy' = [copy EXCEPT ![d].phase = "done"]
  /\ UNCHANGED <<endpoints, taken, wire, passed, turn, flushing, waits>>

Done(d) ==
  /\ turn = d /\ copy[d].phase = "done"
  /\ turn' = Then(d)
  /\ UNCHANGED <<endpoints, sockets, copy, flushing, waits>>

(* Any call on a stream may fail, a write that takes nothing is an error, *)
(* and the first error is returned for both directions (bidi_copy.rs:100).*)
Fail(d) ==
  /\ turn = d /\ copy[d].phase # "done"
  /\ turn' = "failed"
  /\ UNCHANGED <<endpoints, sockets, copy, flushing, waits>>

-----------------------------------------------------------------------------
(* The end of a poll of both: graceful waits for both directions, brutal  *)
(* for either (bidi_copy.rs:103-118).                                     *)
Finished == {d \in Side : copy[d].phase = "done"}
CompleteAtBoth == Finished = Side   \* a mutant: graceful whatever the build
Complete == IF brutal THEN Finished # {} ELSE Finished = Side

PollEnd ==
  /\ turn = "end"
  /\ turn' = IF Complete THEN "ok" ELSE "asleep"
  /\ UNCHANGED <<endpoints, sockets, copy, flushing, waits>>

Wake ==
  /\ turn = "asleep"
  /\ \E w \in waits : Ready(w)
  /\ turn' = "a"
  /\ waits' = {}
  /\ UNCHANGED <<endpoints, sockets, copy, flushing>>

Relay == \/ \E d \in Side : \/ Read(d) \/ Write(d) \/ FlushIdle(d) \/ FlushLast(d)
                            \/ Shutdown(d) \/ Done(d) \/ Fail(d)
         \/ PollEnd \/ Wake

Next == \/ Relay
        \/ \E d \in Side : Send(d) \/ Close(d) \/ Consume(d)

Spec == Init /\ [][Next]_vars

(* The runtime polls a woken task; the endpoints consume what they are    *)
(* sent.  They need not send, and need not ever close.                    *)
FairSpec == /\ Spec
            /\ WF_vars(Relay)
            /\ \A d \in Side : WF_vars(Consume(d))

-----------------------------------------------------------------------------
(* Types: positions stay inside the buffer (buf.rs:107), a writer holds   *)
(* no more than it may, and the task sleeps with no flush half done.      *)
StreamTypes ==
  /\ brutal \in BOOLEAN
  /\ sent \in [Side -> 0 .. MaxBytes]
  /\ closed \in [Side -> BOOLEAN] /\ eof \in [Side -> BOOLEAN]
  /\ taken \in [Side -> Nat] /\ got \in [Side -> Nat] /\ passed \in [Side -> Nat]
  /\ wire \in [Side -> Seq(Nat)]

TaskTypes ==
  /\ copy \in [Side -> [phase : {"running", "shutting_down", "done"}, base : Nat,
                        pos : Nat, cap : Nat, readDone : BOOLEAN, needFlush : BOOLEAN]]
  /\ turn \in Side \cup {"end", "asleep", "ok", "failed"}
  /\ flushing \in BOOLEAN
  /\ waits \subseteq {"read", "write", "flush"} \X Side

Fits(d) ==
  /\ taken[d] <= sent[d]
  /\ got[d] <= passed[d] /\ passed[d] <= got[d] + Window
  /\ passed[d] <= Len(wire[d]) /\ Len(wire[d]) <= passed[d] + Held
  /\ copy[d].cap <= BufSize /\ copy[d].pos <= copy[d].cap

CopyTypeOK == StreamTypes /\ TaskTypes /\ (\A d \in Side : Fits(d))
              /\ (flushing => turn \in Side \cup {"failed"})

(* No byte is lost, repeated or reordered, however short the reads and    *)
(* writes; the other end hears of the end of a stream only behind its last*)
(* byte, and a relay that returns well has cut off no stream, or in the   *)
(* brutal build only the one that had not ended: see ByteStreams.         *)
Outcome == IF turn \in {"ok", "failed"} THEN turn ELSE "no"
Streams == INSTANCE ByteStreams WITH
             arrived <- [d \in Side |-> SubSeq(wire[d], 1, passed[d])],
             ended   <- Outcome
KeepsPromise == Streams!Promise

(* What one endpoint sends the other gets, without anyone having to send  *)
(* more: an exchange in which each waits for the other's answer goes on.  *)
Over == turn \in {"ok", "failed"}
Delivered == \A d \in Side, n \in 1 .. MaxBytes : sent[d] >= n ~> got[d] >= n \/ Over

(* A closed side is passed on to the other endpoint, and in the brutal    *)
(* build ends the whole relay, though the other endpoint may never close  *)
(* its own (lib.rs:38-43).                                                *)
CloseAnswered == \A d \in Side : closed[d] ~> Over \/ (~brutal /\ eof[d])
=============================================================================
