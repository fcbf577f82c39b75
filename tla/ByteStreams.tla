---------------------------- MODULE ByteStreams ----------------------------
(***************************************************************************)
(* What a relay between two endpoints promises, whatever it is built from: *)
(* two byte streams that arrive in order and complete, an end of stream    *)
(* that is announced only behind the last byte, and an end of the relay    *)
(* that loses bytes only where bytehub_io/src/lib.rs:34-43 lets it.        *)
(*                                                                         *)
(* A stream is named after the side it starts from; its i-th byte is the   *)
(* number i.                                                               *)
(***************************************************************************)
EXTENDS Integers, Sequences

CONSTANTS MaxBytes   \* bound on the bytes an endpoint sends

Side == {"a", "b"}

VARIABLES sent,     \* number of bytes each endpoint has sent
          closed,   \* has the endpoint closed its sending side?
          arrived,  \* the bytes that reached the other endpoint
          eof,      \* has the end of the stream reached it too?
          brutal,   \* is the feature `brutal-shutdown' built in?
          ended     \* "no", "ok" or "failed": has the relay returned?

streams == <<sent, closed, arrived, eof, brutal, ended>>

Stream(n) == [i \in 1 .. n |-> i]

Start == /\ sent = [d \in Side |-> 0]
         /\ closed = [d \in Side |-> FALSE]
         /\ arrived = [d \in Side |-> <<>>]
         /\ eof = [d \in Side |-> FALSE]
         /\ brutal \in BOOLEAN
         /\ ended = "no"

Sends(d) == /\ ~closed[d]
            /\ sent[d] < MaxBytes
            /\ sent' = [sent EXCEPT ![d] = @ + 1]
            /\ UNCHANGED <<closed, arrived, eof, brutal, ended>>

Closes(d) == /\ closed' = [closed EXCEPT ![d] = TRUE]
             /\ UNCHANGED <<sent, arrived, eof, brutal, ended>>

Delivers(d) == /\ ended = "no"
               /\ ~eof[d]
               /\ \E n \in Len(arrived[d]) + 1 .. sent[d] :
                     arrived' = [arrived EXCEPT ![d] = Stream(n)]
               /\ UNCHANGED <<sent, closed, eof, brutal, ended>>

Finishes(d) == /\ ended = "no"
               /\ closed[d]
               /\ Len(arrived[d]) = sent[d]
               /\ eof' = [eof EXCEPT ![d] = TRUE]
               /\ UNCHANGED <<sent, closed, arrived, brutal, ended>>

Ends == /\ ended = "no"
        /\ \/ ended' = "failed"
           \/ /\ IF brutal THEN \E d \in Side : eof[d] ELSE \A d \in Side : eof[d]
              /\ ended' = "ok"
        /\ UNCHANGED <<sent, closed, arrived, eof, brutal>>

Moves == \/ \E d \in Side : Sends(d) \/ Closes(d) \/ Delivers(d) \/ Finishes(d)
         \/ Ends

Promise == Start /\ [][Moves]_streams
=============================================================================
