--------------------------- MODULE BidiCopyProofs ---------------------------
(***************************************************************************)
(* The copy keeps the promise of ByteStreams for streams and buffers of    *)
(* any size, writers that hold back any amount and any receive window.     *)
(***************************************************************************)
EXTENDS BidiCopy, SequenceTheorems, TLAPS

USE BufferAssumption

\* The bytes 1 to n in their order.
Bytes(n) == [i \in 1 .. n |-> i]

\* What a direction has read is what it has written and what its buffer holds.
Carried(d) == /\ \A i \in 1 .. Len(wire[d]) : wire[d][i] = i
              /\ Len(wire[d]) = copy[d].base + copy[d].pos
              /\ taken[d] = copy[d].base + copy[d].cap

\* A direction that has read its last byte, one that has also flushed it, and one
\* whose other side has been told.
Closing(d) == /\ copy[d].readDone => closed[d] /\ taken[d] = sent[d]
              /\ copy[d].phase # "running" =>
                   copy[d].readDone /\ Empty(d) /\ passed[d] = Len(wire[d])
              /\ eof[d] <=> copy[d].phase = "done"

\* A flush behind a Pending read is due while there is nothing to write.
Flushing(d) == flushing /\ turn = d =>
                 Empty(d) /\ ~copy[d].readDone /\ copy[d].phase = "running"

CopyInv == CopyTypeOK /\ \A d \in Side : Carried(d) /\ Closing(d) /\ Flushing(d)

-----------------------------------------------------------------------------
\* What has left the writer is a beginning of the stream.
LEMMA Arrived ==
  ASSUME NEW w \in Seq(Nat), NEW n \in 0 .. Len(w), \A i \in 1 .. Len(w) : w[i] = i
  PROVE  SubSeq(w, 1, n) = Bytes(n) /\ Len(Bytes(n)) = n
<1>1. Len(w) \in Nat /\ n \in Nat
  BY LenProperties
<1>2. /\ SubSeq(w, 1, n) \in Seq(Nat)
      /\ Len(SubSeq(w, 1, n)) = n
      /\ \A i \in 1 .. n : SubSeq(w, 1, n)[i] = i
  <2>1. \A i \in 1 .. n : w[i] \in Nat /\ w[1 + i - 1] = i
    BY <1>1
  <2>2. /\ SubSeq(w, 1, n) \in Seq(Nat)
        /\ Len(SubSeq(w, 1, n)) = IF 1 <= n THEN n - 1 + 1 ELSE 0
        /\ \A i \in 1 .. n - 1 + 1 : SubSeq(w, 1, n)[i] = w[1 + i - 1]
    BY <1>1, <2>1, SubSeqProperties
  <2>3. QED
    BY <1>1, <2>1, <2>2
<1>3. Bytes(n) \in Seq(Nat) /\ Len(Bytes(n)) = n /\ \A i \in 1 .. n : Bytes(n)[i] = i
  BY <1>1 DEF Bytes
<1>4. QED
  BY <1>1, <1>2, <1>3, SeqEqual

\* A write puts the next bytes behind those that are there.
LEMMA Written ==
  ASSUME NEW w \in Seq(Nat), \A i \in 1 .. Len(w) : w[i] = i, NEW n \in Nat,
         NEW x, x = w \o [i \in 1 .. n |-> Len(w) + i]
  PROVE  x \in Seq(Nat) /\ Len(x) = Len(w) + n /\ \A i \in 1 .. Len(x) : x[i] = i
<1> DEFINE more == [i \in 1 .. n |-> Len(w) + i]
<1>1. Len(w) \in Nat
  BY LenProperties
<1>2. more \in Seq(Nat) /\ Len(more) = n /\ \A i \in 1 .. n : more[i] = Len(w) + i
  BY <1>1
<1> HIDE DEF more
<1>3. /\ w \o more \in Seq(Nat)
      /\ Len(w \o more) = Len(w) + Len(more)
      /\ \A i \in 1 .. Len(w) + Len(more) :
           (w \o more)[i] = IF i <= Len(w) THEN w[i] ELSE more[i - Len(w)]
  BY <1>2, ConcatProperties
<1>4. x = w \o more
  BY DEF more
<1>5. ASSUME NEW i \in 1 .. Len(w) + n
      PROVE  x[i] = i
  <2>1. CASE i <= Len(w)
    BY <1>1, <1>2, <1>3, <1>4, <2>1
  <2>2. CASE ~(i <= Len(w))
    BY <1>1, <1>2, <1>3, <1>4, <2>2
  <2>3. QED
    BY <2>1, <2>2
<1>6. QED
  BY <1>1, <1>2, <1>3, <1>4, <1>5

-----------------------------------------------------------------------------
\* The types in the form the steps use them.
LEMMA Sizes ==
  ASSUME StreamTypes, TaskTypes, NEW d \in Side
  PROVE  /\ sent[d] \in Nat /\ sent[d] <= MaxBytes /\ taken[d] \in Nat
         /\ got[d] \in Nat /\ passed[d] \in Nat /\ Len(wire[d]) \in Nat /\ wire[d] \in Seq(Nat)
         /\ copy[d].base \in Nat /\ copy[d].pos \in Nat /\ copy[d].cap \in Nat
<1>1. wire[d] \in Seq(Nat)
  BY DEF StreamTypes
<1>2. Len(wire[d]) \in Nat
  BY <1>1, LenProperties
<1>3. sent[d] \in Nat /\ sent[d] <= MaxBytes /\ taken[d] \in Nat /\ got[d] \in Nat /\ passed[d] \in Nat
  BY DEF StreamTypes
<1>4. copy[d].base \in Nat /\ copy[d].pos \in Nat /\ copy[d].cap \in Nat
  BY DEF TaskTypes
<1>5. QED
  BY <1>1, <1>2, <1>3, <1>4

LEMMA InitCopyInv == Init => CopyInv
<1> SUFFICES ASSUME Init
             PROVE  CopyInv
  OBVIOUS
<1>1. StreamTypes
  BY EmptySeq DEF Init, StreamTypes
<1>2. TaskTypes
  BY DEF Init, TaskTypes, Side
<1>3. ASSUME NEW d \in Side
      PROVE  Fits(d) /\ Carried(d) /\ Closing(d)
  <2>1. /\ sent[d] = 0 /\ taken[d] = 0 /\ got[d] = 0 /\ passed[d] = 0 /\ eof[d] = FALSE
        /\ wire[d] = <<>> /\ Len(wire[d]) = 0
    BY EmptySeq DEF Init
  <2>2. /\ copy[d].base = 0 /\ copy[d].pos = 0 /\ copy[d].cap = 0
        /\ copy[d].phase = "running" /\ copy[d].readDone = FALSE
    BY DEF Init
  <2>3. QED
    BY <2>1, <2>2 DEF Fits, Carried, Closing
<1>4. flushing = FALSE
  BY DEF Init
<1>5. QED
  BY <1>1, <1>2, <1>3, <1>4 DEF CopyInv, CopyTypeOK, Flushing

\* A direction nothing happens to stays as it is.
LEMMA Kept ==
  ASSUME NEW d \in Side, Fits(d), Carried(d), Closing(d),
         sent'[d] = sent[d], closed'[d] = closed[d], got'[d] = got[d], taken'[d] = taken[d],
         wire'[d] = wire[d], passed'[d] = passed[d], eof'[d] = eof[d], copy'[d] = copy[d]
  PROVE  Fits(d)' /\ Carried(d)' /\ Closing(d)'
BY DEF Fits, Carried, Closing, Empty

-----------------------------------------------------------------------------
LEMMA SendKeeps ==
  ASSUME CopyInv, NEW d \in Side, Send(d)
  PROVE  CopyInv'
<1>1. StreamTypes /\ TaskTypes /\ \A e \in Side : Fits(e) /\ Carried(e) /\ Closing(e) /\ Flushing(e)
  BY DEF CopyInv, CopyTypeOK
<1>2. /\ ~closed[d] /\ sent[d] < MaxBytes /\ sent' = [sent EXCEPT ![d] = @ + 1]
      /\ UNCHANGED <<closed, got, brutal, taken, wire, passed, eof, copy, turn, flushing, waits>>
  BY DEF Send, sockets, task
<1>3. sent'[d] = sent[d] + 1 /\ \A e \in Side : e # d => sent'[e] = sent[e]
  BY <1>1, <1>2 DEF StreamTypes
<1>4. StreamTypes' /\ TaskTypes'
  <2>1. sent' \in [Side -> 0 .. MaxBytes]
    BY <1>1, <1>2, Sizes DEF StreamTypes
  <2>2. QED
    BY <1>1, <1>2, <2>1 DEF StreamTypes, TaskTypes
<1>5. Fits(d)' /\ Carried(d)' /\ Closing(d)'
  BY <1>1, <1>2, <1>3, Sizes DEF Fits, Carried, Closing, Empty
<1>6. \A e \in Side : Fits(e)' /\ Carried(e)' /\ Closing(e)'
  <2>1. ASSUME NEW e \in Side, e # d
        PROVE  Fits(e)' /\ Carried(e)' /\ Closing(e)'
    BY <1>1, <1>2, <1>3, <2>1, Kept
  <2>2. QED
    BY <1>5, <2>1
<1>7. (\A e \in Side : Flushing(e)') /\ (flushing' => turn' \in Side \cup {"failed"})
  BY <1>1, <1>2 DEF CopyInv, CopyTypeOK, Flushing, Empty
<1>8. QED
  BY <1>4, <1>6, <1>7 DEF CopyInv, CopyTypeOK

LEMMA CloseKeeps ==
  ASSUME CopyInv, NEW d \in Side, Close(d)
  PROVE  CopyInv'
<1>1. StreamTypes /\ TaskTypes /\ \A e \in Side : Fits(e) /\ Carried(e) /\ Closing(e) /\ Flushing(e)
  BY DEF CopyInv, CopyTypeOK
<1>2. /\ closed' = [closed EXCEPT ![d] = TRUE]
      /\ UNCHANGED <<sent, got, brutal, taken, wire, passed, eof, copy, turn, flushing, waits>>
  BY DEF Close, sockets, task
<1>3. closed'[d] = TRUE /\ \A e \in Side : e # d => closed'[e] = closed[e]
  BY <1>1, <1>2 DEF StreamTypes
<1>4. StreamTypes' /\ TaskTypes'
  BY <1>1, <1>2 DEF StreamTypes, TaskTypes
<1>5. Fits(d)' /\ Carried(d)' /\ Closing(d)'
  BY <1>1, <1>2, <1>3 DEF Fits, Carried, Closing, Empty
<1>6. \A e \in Side : Fits(e)' /\ Carried(e)' /\ Closing(e)'
  <2>1. ASSUME NEW e \in Side, e # d
        PROVE  Fits(e)' /\ Carried(e)' /\ Closing(e)'
    BY <1>1, <1>2, <1>3, <2>1, Kept
  <2>2. QED
    BY <1>5, <2>1
<1>7. (\A e \in Side : Flushing(e)') /\ (flushing' => turn' \in Side \cup {"failed"})
  BY <1>1, <1>2 DEF CopyInv, CopyTypeOK, Flushing, Empty
<1>8. QED
  BY <1>4, <1>6, <1>7 DEF CopyInv, CopyTypeOK

LEMMA ConsumeKeeps ==
  ASSUME CopyInv, NEW d \in Side, Consume(d)
  PROVE  CopyInv'
<1>1. StreamTypes /\ TaskTypes /\ \A e \in Side : Fits(e) /\ Carried(e) /\ Closing(e) /\ Flushing(e)
  BY DEF CopyInv, CopyTypeOK
<1>2. /\ got[d] < passed[d] /\ got' = [got EXCEPT ![d] = @ + 1]
      /\ UNCHANGED <<sent, closed, brutal, taken, wire, passed, eof, copy, turn, flushing, waits>>
  BY DEF Consume, sockets, task
<1>3. got'[d] = got[d] + 1 /\ \A e \in Side : e # d => got'[e] = got[e]
  BY <1>1, <1>2 DEF StreamTypes
<1>4. StreamTypes' /\ TaskTypes'
  <2>1. got' \in [Side -> Nat]
    BY <1>1, <1>2, Sizes DEF StreamTypes
  <2>2. QED
    BY <1>1, <1>2, <2>1 DEF StreamTypes, TaskTypes
<1>5. Fits(d)' /\ Carried(d)' /\ Closing(d)'
  <2>1. got'[d] <= passed[d] /\ passed[d] <= got'[d] + Window
    <3>1. got[d] \in Nat /\ passed[d] \in Nat
      BY <1>1, Sizes
    <3>2. passed[d] <= got[d] + Window
      BY <1>1 DEF Fits
    <3>3. QED
      BY <1>2, <1>3, <3>1, <3>2
  <2>2. Fits(d)'
    BY <1>1, <1>2, <2>1 DEF Fits
  <2>3. Carried(d)' /\ Closing(d)'
    BY <1>1, <1>2 DEF Carried, Closing, Empty
  <2>4. QED
    BY <2>2, <2>3
<1>6. \A e \in Side : Fits(e)' /\ Carried(e)' /\ Closing(e)'
  <2>1. ASSUME NEW e \in Side, e # d
        PROVE  Fits(e)' /\ Carried(e)' /\ Closing(e)'
    BY <1>1, <1>2, <1>3, <2>1, Kept
  <2>2. QED
    BY <1>5, <2>1
<1>7. (\A e \in Side : Flushing(e)') /\ (flushing' => turn' \in Side \cup {"failed"})
  BY <1>1, <1>2 DEF CopyInv, CopyTypeOK, Flushing, Empty
<1>8. QED
  BY <1>4, <1>6, <1>7 DEF CopyInv, CopyTypeOK

\* The types of a direction whose copy has changed.
LEMMA CopyTypes ==
  ASSUME TaskTypes, NEW d \in Side,
         NEW c \in [phase : {"running", "shutting_down", "done"}, base : Nat,
                    pos : Nat, cap : Nat, readDone : BOOLEAN, needFlush : BOOLEAN],
         copy' = [copy EXCEPT ![d] = c]
  PROVE  /\ copy' \in [Side -> [phase : {"running", "shutting_down", "done"}, base : Nat,
                        pos : Nat, cap : Nat, readDone : BOOLEAN, needFlush : BOOLEAN]]
         /\ copy'[d] = c
         /\ \A e \in Side : e # d => copy'[e] = copy[e]
BY DEF TaskTypes

\* What a step needs that moves no byte.
LEMMA TurnKeeps ==
  ASSUME CopyInv,
         UNCHANGED <<brutal, sent, closed, taken, got, wire, passed, eof, copy>>,
         turn' \in Side \cup {"end", "asleep", "ok", "failed"},
         flushing' \in BOOLEAN, flushing' => turn' \in Side \cup {"failed"},
         waits' \subseteq {"read", "write", "flush"} \X Side,
         \A e \in Side : Flushing(e)'
  PROVE  CopyInv'
<1>1. StreamTypes /\ TaskTypes /\ \A e \in Side : Fits(e) /\ Carried(e) /\ Closing(e)
  BY DEF CopyInv, CopyTypeOK
<1>2. StreamTypes'
  BY <1>1 DEF StreamTypes
<1>3. TaskTypes'
  BY <1>1 DEF TaskTypes
<1>4. \A e \in Side : Fits(e)' /\ Carried(e)' /\ Closing(e)'
  BY <1>1, Kept
<1>5. QED
  BY <1>2, <1>3, <1>4 DEF CopyInv, CopyTypeOK

LEMMA ReadKeeps ==
  ASSUME CopyInv, NEW d \in Side, Read(d)
  PROVE  CopyInv'
<1>1. StreamTypes /\ TaskTypes /\ \A e \in Side : Fits(e) /\ Carried(e) /\ Closing(e) /\ Flushing(e)
  BY DEF CopyInv, CopyTypeOK
<1>2. /\ turn = d /\ copy[d].phase = "running" /\ copy[d].pos = copy[d].cap
      /\ ~copy[d].readDone /\ ~flushing
      /\ UNCHANGED <<brutal, sent, closed, got, wire, passed, eof>>
  BY DEF Read, Running, Empty, endpoints
<1>3. copy[d] \in [phase : {"running", "shutting_down", "done"}, base : Nat,
                   pos : Nat, cap : Nat, readDone : BOOLEAN, needFlush : BOOLEAN]
  BY <1>1 DEF TaskTypes
<1>4. ASSUME NEW n \in 1 .. Least(BufSize, sent[d] - taken[d]),
             copy' = [copy EXCEPT ![d].base = taken[d], ![d].pos = 0, ![d].cap = n],
             taken' = [taken EXCEPT ![d] = @ + n], UNCHANGED <<turn, flushing, waits>>
      PROVE  CopyInv'
  <2> DEFINE c == [copy[d] EXCEPT !.base = taken[d], !.pos = 0, !.cap = n]
  <2>1. n \in Nat /\ n <= BufSize /\ n <= sent[d] - taken[d]
    BY <1>1, Sizes DEF Least
  <2>2. /\ c \in [phase : {"running", "shutting_down", "done"}, base : Nat,
                  pos : Nat, cap : Nat, readDone : BOOLEAN, needFlush : BOOLEAN]
        /\ c.base = taken[d] /\ c.pos = 0 /\ c.cap = n
        /\ c.phase = copy[d].phase /\ c.readDone = copy[d].readDone
    BY <1>1, <1>3, <2>1, Sizes
  <2>3. copy' = [copy EXCEPT ![d] = c]
    BY <1>1, <1>4 DEF TaskTypes
  <2> HIDE DEF c
  <2>4. copy'[d] = c /\ \A e \in Side : e # d => copy'[e] = copy[e]
    BY <1>1, <2>2, <2>3, CopyTypes
  <2>5. taken'[d] = taken[d] + n /\ \A e \in Side : e # d => taken'[e] = taken[e]
    BY <1>1, <1>4 DEF StreamTypes
  <2>6. StreamTypes' /\ TaskTypes'
    <3>1. taken' \in [Side -> Nat]
      <4>1. taken \in [Side -> Nat] /\ taken[d] + n \in Nat
        BY <1>1, <2>1 DEF StreamTypes
      <4>2. QED
        BY <1>4, <4>1
    <3>2. StreamTypes'
      BY <1>1, <1>2, <3>1 DEF StreamTypes
    <3>3. TaskTypes'
      BY <1>1, <1>4, <2>2, <2>3, CopyTypes DEF TaskTypes
    <3>4. QED
      BY <3>2, <3>3
  <2>7. Fits(d)' /\ Carried(d)' /\ Closing(d)'
    <3>1. Fits(d)'
      BY <1>1, <1>2, <2>1, <2>2, <2>4, <2>5, Sizes DEF Fits
    <3>2. Carried(d)'
      BY <1>1, <1>2, <2>1, <2>2, <2>4, <2>5, Sizes DEF Carried
    <3>3. Closing(d)'
      BY <1>1, <1>2, <2>2, <2>4 DEF Closing
    <3>4. QED
      BY <3>1, <3>2, <3>3
  <2>8. \A e \in Side : Fits(e)' /\ Carried(e)' /\ Closing(e)'
    <3>1. ASSUME NEW e \in Side, e # d
          PROVE  Fits(e)' /\ Carried(e)' /\ Closing(e)'
      BY <1>1, <1>2, <2>4, <2>5, <3>1, Kept
    <3>2. QED
      BY <2>7, <3>1
  <2>9. QED
    BY <1>2, <1>4, <2>6, <2>8 DEF CopyInv, CopyTypeOK, Flushing
<1>5. ASSUME sent[d] = taken[d], closed[d], copy' = [copy EXCEPT ![d].readDone = TRUE],
             UNCHANGED <<taken, turn, flushing, waits>>
      PROVE  CopyInv'
  <2> DEFINE c == [copy[d] EXCEPT !.readDone = TRUE]
  <2>1. /\ c \in [phase : {"running", "shutting_down", "done"}, base : Nat,
                  pos : Nat, cap : Nat, readDone : BOOLEAN, needFlush : BOOLEAN]
        /\ c.base = copy[d].base /\ c.pos = copy[d].pos /\ c.cap = copy[d].cap
        /\ c.phase = copy[d].phase
    BY <1>3
  <2>2. copy' = [copy EXCEPT ![d] = c]
    BY <1>1, <1>5 DEF TaskTypes
  <2> HIDE DEF c
  <2>3. copy'[d] = c /\ \A e \in Side : e # d => copy'[e] = copy[e]
    BY <1>1, <2>1, <2>2, CopyTypes
  <2>4. StreamTypes' /\ TaskTypes'
    <3>1. StreamTypes'
      BY <1>1, <1>2, <1>5 DEF StreamTypes
    <3>2. TaskTypes'
      <4>1. copy' \in [Side -> [phase : {"running", "shutting_down", "done"}, base : Nat,
                            pos : Nat, cap : Nat, readDone : BOOLEAN, needFlush : BOOLEAN]]
        BY <1>1, <2>1, <2>2, CopyTypes
      <4>2. QED
        BY <1>1, <1>5, <4>1 DEF TaskTypes
    <3>3. QED
      BY <3>1, <3>2
  <2>5. Fits(d)' /\ Carried(d)' /\ Closing(d)'
    BY <1>1, <1>2, <1>5, <2>1, <2>3, Sizes DEF Fits, Carried, Closing, Empty
  <2>6. \A e \in Side : Fits(e)' /\ Carried(e)' /\ Closing(e)'
    <3>1. ASSUME NEW e \in Side, e # d
          PROVE  Fits(e)' /\ Carried(e)' /\ Closing(e)'
      BY <1>1, <1>2, <1>5, <2>3, <3>1, Kept
    <3>2. QED
      BY <2>5, <3>1
  <2>7. QED
    BY <1>2, <1>5, <2>4, <2>6 DEF CopyInv, CopyTypeOK, Flushing
<1>6. ASSUME UNCHANGED <<taken, copy>>, waits' = waits \cup {<<"read", d>>},
             \/ flushing' = TRUE /\ turn' = d
             \/ flushing' = FALSE /\ turn' = Then(d)
      PROVE  CopyInv'
  <2>1. turn' \in Side \cup {"end"}
    BY <1>6 DEF Then, Side
  <2>2. waits' \subseteq {"read", "write", "flush"} \X Side
    BY <1>1, <1>6 DEF TaskTypes
  <2>3. \A e \in Side : Flushing(e)'
    BY <1>2, <1>6 DEF Flushing, Empty
  <2>4. UNCHANGED <<brutal, sent, closed, taken, got, wire, passed, eof, copy>>
    BY <1>2, <1>6
  <2>5. QED
    BY <1>6, <2>1, <2>2, <2>3, <2>4, TurnKeeps
<1>7. QED
  BY <1>1, <1>2, <1>4, <1>5, <1>6 DEF Read, Pend, TaskTypes

LEMMA WriteKeeps ==
  ASSUME CopyInv, NEW d \in Side, Write(d)
  PROVE  CopyInv'
<1>1. StreamTypes /\ TaskTypes /\ \A e \in Side : Fits(e) /\ Carried(e) /\ Closing(e) /\ Flushing(e)
  BY DEF CopyInv, CopyTypeOK
<1>2. /\ turn = d /\ copy[d].phase = "running" /\ copy[d].pos < copy[d].cap
      /\ UNCHANGED <<brutal, sent, closed, got, taken, eof, flushing>>
  BY DEF Write, Running, endpoints
<1>3. copy[d] \in [phase : {"running", "shutting_down", "done"}, base : Nat,
                   pos : Nat, cap : Nat, readDone : BOOLEAN, needFlush : BOOLEAN]
  BY <1>1 DEF TaskTypes
<1>4. /\ taken[d] \in Nat /\ got[d] \in Nat /\ passed[d] \in Nat /\ Len(wire[d]) \in Nat
      /\ copy[d].base \in Nat /\ copy[d].pos \in Nat /\ copy[d].cap \in Nat
      /\ taken[d] <= sent[d] /\ got[d] <= passed[d] /\ passed[d] <= got[d] + Window
      /\ passed[d] <= Len(wire[d]) /\ Len(wire[d]) <= passed[d] + Held
      /\ copy[d].cap <= BufSize /\ copy[d].pos <= copy[d].cap
      /\ Len(wire[d]) = copy[d].base + copy[d].pos /\ taken[d] = copy[d].base + copy[d].cap
  <2>1. Fits(d) /\ Carried(d)
    BY <1>1
  <2>2. /\ taken[d] \in Nat /\ got[d] \in Nat /\ passed[d] \in Nat /\ Len(wire[d]) \in Nat
        /\ copy[d].base \in Nat /\ copy[d].pos \in Nat /\ copy[d].cap \in Nat
    BY <1>1, Sizes
  <2>3. QED
    BY <2>1, <2>2 DEF Fits, Carried
<1>5. flushing = FALSE
  BY <1>1, <1>2, Sizes DEF Flushing, Empty, TaskTypes
<1>6. ASSUME NEW n \in 1 .. Least(copy[d].cap - copy[d].pos, Room(d)),
             wire' = [wire EXCEPT ![d] = @ \o [i \in 1 .. n |-> copy[d].base + copy[d].pos + i]],
             NEW p \in passed[d] .. Least(Len(wire[d]) + n, got[d] + Window),
             p >= Len(wire[d]) + n - Held, passed' = [passed EXCEPT ![d] = p],
             copy' = [copy EXCEPT ![d].pos = @ + n, ![d].needFlush = TRUE],
             UNCHANGED <<turn, waits>>
      PROVE  CopyInv'
  <2> DEFINE c == [copy[d] EXCEPT !.pos = @ + n, !.needFlush = TRUE]
  <2>1. /\ n \in Nat /\ n <= copy[d].cap - copy[d].pos
        /\ p \in Nat /\ passed[d] <= p /\ p <= Len(wire[d]) + n /\ p <= got[d] + Window
        /\ Len(wire[d]) + n <= p + Held
    <3>1. Room(d) \in Int
      BY <1>1, Sizes DEF Room
    <3>2. n \in Nat /\ n <= copy[d].cap - copy[d].pos
      <4>1. copy[d].cap \in Nat /\ copy[d].pos \in Nat
        BY <1>4
      <4>2. QED
        BY <3>1, <4>1 DEF Least
    <3>3. /\ p \in Nat /\ passed[d] <= p /\ p <= Len(wire[d]) + n /\ p <= got[d] + Window
      BY <1>4, <3>2 DEF Least
    <3>4. QED
      BY <1>4, <1>6, <3>2, <3>3
  <2>2. /\ c \in [phase : {"running", "shutting_down", "done"}, base : Nat,
                  pos : Nat, cap : Nat, readDone : BOOLEAN, needFlush : BOOLEAN]
        /\ c.base = copy[d].base /\ c.pos = copy[d].pos + n /\ c.cap = copy[d].cap
        /\ c.phase = copy[d].phase /\ c.readDone = copy[d].readDone
    <3>1. copy[d].pos + n \in Nat
      <4>1. copy[d].pos \in Nat
        BY <1>4
      <4>2. QED
        BY <2>1, <4>1
    <3>2. QED
      BY <1>3, <3>1
  <2>3. copy' = [copy EXCEPT ![d] = c]
    BY <1>1, <1>6 DEF TaskTypes
  <2> HIDE DEF c
  <2>4. copy'[d] = c /\ \A e \in Side : e # d => copy'[e] = copy[e]
    BY <1>1, <2>2, <2>3, CopyTypes
  <2>5. /\ wire'[d] \in Seq(Nat) /\ Len(wire'[d]) = Len(wire[d]) + n
        /\ \A i \in 1 .. Len(wire'[d]) : wire'[d][i] = i
        /\ \A e \in Side : e # d => wire'[e] = wire[e]
    <3>1. /\ wire'[d] = wire[d] \o [i \in 1 .. n |-> copy[d].base + copy[d].pos + i]
          /\ \A e \in Side : e # d => wire'[e] = wire[e]
      BY <1>1, <1>6 DEF StreamTypes
    <3>2. /\ wire[d] \in Seq(Nat) /\ \A i \in 1 .. Len(wire[d]) : wire[d][i] = i
          /\ Len(wire[d]) = copy[d].base + copy[d].pos
      BY <1>1, Sizes DEF Carried
    <3>3. wire'[d] = wire[d] \o [i \in 1 .. n |-> Len(wire[d]) + i]
      BY <3>1, <3>2
    <3>4. QED
      BY <2>1, <3>1, <3>2, <3>3, Written
  <2>6. passed'[d] = p /\ \A e \in Side : e # d => passed'[e] = passed[e]
    BY <1>1, <1>6 DEF StreamTypes
  <2>7. StreamTypes'
    <3>1. passed' \in [Side -> Nat]
      BY <1>1, <1>6, <2>1 DEF StreamTypes
    <3>2. wire' \in [Side -> Seq(Nat)]
      BY <1>1, <1>6, <2>5 DEF StreamTypes
    <3>3. QED
      BY <1>1, <1>2, <3>1, <3>2 DEF StreamTypes
  <2>8. TaskTypes'
    <3>1. copy' \in [Side -> [phase : {"running", "shutting_down", "done"}, base : Nat,
                          pos : Nat, cap : Nat, readDone : BOOLEAN, needFlush : BOOLEAN]]
      BY <1>1, <2>2, <2>3, CopyTypes
    <3>2. UNCHANGED <<turn, flushing, waits>>
      BY <1>2, <1>6
    <3>3. QED
      BY <1>1, <3>1, <3>2 DEF TaskTypes
  <2>9. /\ copy'[d].base = copy[d].base /\ copy'[d].pos = copy[d].pos + n
        /\ copy'[d].cap = copy[d].cap /\ Len(wire'[d]) = Len(wire[d]) + n
    BY <2>2, <2>4, <2>5
  <2>10. Fits(d)' /\ Carried(d)' /\ Closing(d)'
    <3>1. Fits(d)'
      <4>1. taken'[d] <= sent'[d]
        BY <1>2, <1>4
      <4>2. got'[d] <= passed'[d]
        <5>1. got[d] <= passed[d] /\ got[d] \in Nat /\ passed[d] \in Nat
          BY <1>4
        <5>2. QED
          BY <1>2, <2>1, <2>6, <5>1
      <4>3. passed'[d] <= got'[d] + Window
        BY <1>2, <2>1, <2>6
      <4>4. passed'[d] <= Len(wire'[d]) /\ Len(wire'[d]) <= passed'[d] + Held
        BY <2>1, <2>6, <2>9
      <4>5. copy'[d].cap <= BufSize
        BY <1>4, <2>9
      <4>6. copy'[d].pos <= copy'[d].cap
        <5>1. copy[d].cap \in Nat /\ copy[d].pos \in Nat
          BY <1>4
        <5>2. QED
          BY <2>1, <2>9, <5>1
      <4>7. QED
        BY <4>1, <4>2, <4>3, <4>4, <4>5, <4>6 DEF Fits
    <3>2. Carried(d)'
      <4>1. Len(wire'[d]) = copy'[d].base + copy'[d].pos
        <5>1. Len(wire[d]) = copy[d].base + copy[d].pos
          BY <1>4
        <5>2. copy[d].base \in Nat /\ copy[d].pos \in Nat
          BY <1>4
        <5>3. QED
          BY <2>1, <2>9, <5>1, <5>2
      <4>2. taken'[d] = copy'[d].base + copy'[d].cap
        BY <1>2, <1>4, <2>9
      <4>3. QED
        BY <2>5, <4>1, <4>2 DEF Carried
    <3>3. Closing(d)'
      BY <1>1, <1>2, <2>2, <2>4 DEF Closing
    <3>4. QED
      BY <3>1, <3>2, <3>3
  <2>11. \A e \in Side : Fits(e)' /\ Carried(e)' /\ Closing(e)'
    <3>1. ASSUME NEW e \in Side, e # d
          PROVE  Fits(e)' /\ Carried(e)' /\ Closing(e)'
      BY <1>1, <1>2, <2>4, <2>5, <2>6, <3>1, Kept
    <3>2. QED
      BY <2>10, <3>1
  <2>12. QED
    BY <1>2, <1>5, <2>7, <2>8, <2>11 DEF CopyInv, CopyTypeOK, Flushing
<1>7. ASSUME UNCHANGED <<wire, passed, copy>>, Pend(d, "write")
      PROVE  CopyInv'
  <2>1. turn' \in Side \cup {"end"}
    BY <1>7 DEF Pend, Then, Side
  <2>2. waits' \subseteq {"read", "write", "flush"} \X Side
    BY <1>1, <1>7 DEF Pend, TaskTypes
  <2>3. UNCHANGED <<brutal, sent, closed, taken, got, wire, passed, eof, copy>>
    BY <1>2, <1>7
  <2>4. flushing' = FALSE /\ \A e \in Side : Flushing(e)'
    BY <1>2, <1>5 DEF Flushing
  <2>5. QED
    BY <2>1, <2>2, <2>3, <2>4, TurnKeeps
<1>8. QED
  <2>1. CASE Room(d) = 0 /\ Pend(d, "write") /\ UNCHANGED <<wire, passed, copy>>
    BY <1>7, <2>1
  <2>2. CASE ~(Room(d) = 0 /\ Pend(d, "write") /\ UNCHANGED <<wire, passed, copy>>)
    BY <1>6, <2>2 DEF Write
  <2>3. QED
    BY <2>1, <2>2

\* What a flush brings to the other endpoint.
LEMMA Reaches ==
  ASSUME StreamTypes, TaskTypes, NEW d \in Side, Fits(d)
  PROVE  /\ Reach(d) \in Nat /\ passed[d] <= Reach(d) /\ got[d] <= Reach(d)
         /\ Reach(d) <= got[d] + Window /\ Reach(d) <= Len(wire[d])
         /\ Len(wire[d]) <= Reach(d) + Held
<1>1. /\ got[d] \in Nat /\ passed[d] \in Nat /\ Len(wire[d]) \in Nat
      /\ got[d] <= passed[d] /\ passed[d] <= got[d] + Window
      /\ passed[d] <= Len(wire[d]) /\ Len(wire[d]) <= passed[d] + Held
  BY Sizes DEF Fits
<1>2. CASE Len(wire[d]) <= got[d] + Window
  BY <1>1, <1>2 DEF Reach, Least
<1>3. CASE ~(Len(wire[d]) <= got[d] + Window)
  BY <1>1, <1>3 DEF Reach, Least
<1>4. QED
  BY <1>2, <1>3

\* What the two flushes have in common.
LEMMA FlushKeeps ==
  ASSUME CopyInv, NEW d \in Side, turn = d, copy[d].phase = "running",
         UNCHANGED <<brutal, sent, closed, got, taken, wire, eof>>,
         passed' = [passed EXCEPT ![d] = Reach(d)],
         NEW c \in [phase : {"running", "shutting_down", "done"}, base : Nat,
                    pos : Nat, cap : Nat, readDone : BOOLEAN, needFlush : BOOLEAN],
         c.base = copy[d].base, c.pos = copy[d].pos, c.cap = copy[d].cap,
         c.readDone = copy[d].readDone,
         copy' = [copy EXCEPT ![d] = c],
         \/ c.phase = "running"
         \/ c.phase = "shutting_down" /\ c.readDone /\ Empty(d) /\ Flushed(d),
         turn' \in Side \cup {"end"}, waits' \subseteq {"read", "write", "flush"} \X Side,
         flushing' = FALSE
  PROVE  CopyInv'
<1>1. StreamTypes /\ TaskTypes /\ \A e \in Side : Fits(e) /\ Carried(e) /\ Closing(e)
  BY DEF CopyInv, CopyTypeOK
<1>2. copy'[d] = c /\ \A e \in Side : e # d => copy'[e] = copy[e]
  BY <1>1, CopyTypes
<1>3. /\ Reach(d) \in Nat /\ passed[d] <= Reach(d) /\ got[d] <= Reach(d)
      /\ Reach(d) <= got[d] + Window /\ Reach(d) <= Len(wire[d])
      /\ Len(wire[d]) <= Reach(d) + Held
  BY <1>1, Reaches
<1>4. passed'[d] = Reach(d) /\ \A e \in Side : e # d => passed'[e] = passed[e]
  BY <1>1 DEF StreamTypes
<1>5. StreamTypes'
  <2>1. passed' \in [Side -> Nat]
    BY <1>1, <1>3 DEF StreamTypes
  <2>2. QED
    BY <1>1, <2>1 DEF StreamTypes
<1>6. TaskTypes'
  <2>1. copy' \in [Side -> [phase : {"running", "shutting_down", "done"}, base : Nat,
                        pos : Nat, cap : Nat, readDone : BOOLEAN, needFlush : BOOLEAN]]
    BY <1>1, CopyTypes
  <2>2. QED
    BY <2>1 DEF TaskTypes
<1>7. Fits(d)' /\ Carried(d)' /\ Closing(d)'
  <2>1. /\ copy'[d].base = copy[d].base /\ copy'[d].pos = copy[d].pos
        /\ copy'[d].cap = copy[d].cap /\ copy'[d].readDone = copy[d].readDone
    BY <1>2
  <2>2. Fits(d)'
    BY <1>1, <1>3, <1>4, <2>1 DEF Fits
  <2>3. Carried(d)'
    BY <1>1, <2>1 DEF Carried
  <2>4. Closing(d)'
    <3>1. copy[d].readDone => closed[d] /\ taken[d] = sent[d]
      BY <1>1 DEF Closing
    <3>2. eof[d] = FALSE
      BY <1>1 DEF Closing, StreamTypes
    <3>3. copy'[d].phase = c.phase /\ c.phase \in {"running", "shutting_down"}
      BY <1>2
    <3>4. CASE c.phase = "running"
      BY <2>1, <3>1, <3>2, <3>3, <3>4 DEF Closing
    <3>5. CASE c.phase = "shutting_down" /\ c.readDone /\ Empty(d) /\ Flushed(d)
      BY <1>2, <1>4, <2>1, <3>1, <3>2, <3>3, <3>5 DEF Closing, Empty, Flushed
    <3>6. QED
      BY <3>4, <3>5
  <2>5. QED
    BY <2>2, <2>3, <2>4
<1>8. \A e \in Side : Fits(e)' /\ Carried(e)' /\ Closing(e)'
  <2>1. ASSUME NEW e \in Side, e # d
        PROVE  Fits(e)' /\ Carried(e)' /\ Closing(e)'
    BY <1>1, <1>2, <1>4, <2>1, Kept
  <2>2. QED
    BY <1>7, <2>1
<1>9. QED
  BY <1>5, <1>6, <1>8 DEF CopyInv, CopyTypeOK, Flushing

LEMMA FlushIdleKeeps ==
  ASSUME CopyInv, NEW d \in Side, FlushIdle(d)
  PROVE  CopyInv'
<1>1. TaskTypes
  BY DEF CopyInv, CopyTypeOK
<1>2. /\ turn = d /\ copy[d].phase = "running" /\ flushing' = FALSE
      /\ UNCHANGED <<brutal, sent, closed, got, taken, wire, eof>>
      /\ passed' = [passed EXCEPT ![d] = Reach(d)]
  BY DEF FlushIdle, Running, endpoints
<1>3. copy[d] \in [phase : {"running", "shutting_down", "done"}, base : Nat,
                   pos : Nat, cap : Nat, readDone : BOOLEAN, needFlush : BOOLEAN]
  BY <1>1 DEF TaskTypes
<1>4. CASE Flushed(d)
  <2> DEFINE c == [copy[d] EXCEPT !.needFlush = FALSE]
  <2>1. /\ c \in [phase : {"running", "shutting_down", "done"}, base : Nat,
                  pos : Nat, cap : Nat, readDone : BOOLEAN, needFlush : BOOLEAN]
        /\ c.base = copy[d].base /\ c.pos = copy[d].pos /\ c.cap = copy[d].cap
        /\ c.phase = "running" /\ c.readDone = copy[d].readDone
    BY <1>2, <1>3
  <2>2. copy' = [copy EXCEPT ![d] = c]
    BY <1>1, <1>4 DEF FlushIdle, TaskTypes
  <2>3. turn' \in Side \cup {"end"}
    BY <1>4 DEF FlushIdle, Then, Side
  <2>4. waits' \subseteq {"read", "write", "flush"} \X Side
    BY <1>1, <1>4 DEF FlushIdle, TaskTypes
  <2> HIDE DEF c
  <2>5. QED
    BY <1>2, <2>1, <2>2, <2>3, <2>4, FlushKeeps
<1>5. CASE ~Flushed(d)
  <2>1. copy' = [copy EXCEPT ![d] = copy[d]]
    BY <1>1, <1>5 DEF FlushIdle, TaskTypes
  <2>2. turn' \in Side \cup {"end"}
    BY <1>5 DEF FlushIdle, Pend, Then, Side
  <2>3. waits' \subseteq {"read", "write", "flush"} \X Side
    BY <1>1, <1>5 DEF FlushIdle, Pend, TaskTypes
  <2>4. QED
    BY <1>2, <1>3, <2>1, <2>2, <2>3, FlushKeeps
<1>6. QED
  BY <1>4, <1>5

LEMMA FlushLastKeeps ==
  ASSUME CopyInv, NEW d \in Side, FlushLast(d)
  PROVE  CopyInv'
<1>1. TaskTypes /\ Flushing(d)
  BY DEF CopyInv, CopyTypeOK
<1>2. /\ turn = d /\ copy[d].phase = "running" /\ copy[d].readDone /\ Empty(d)
      /\ UNCHANGED <<brutal, sent, closed, got, taken, wire, eof>>
      /\ passed' = [passed EXCEPT ![d] = Reach(d)]
      /\ flushing' = flushing
  BY DEF FlushLast, Running, endpoints
<1>3. copy[d] \in [phase : {"running", "shutting_down", "done"}, base : Nat,
                   pos : Nat, cap : Nat, readDone : BOOLEAN, needFlush : BOOLEAN]
  BY <1>1 DEF TaskTypes
<1>4. flushing' = FALSE
  BY <1>1, <1>2 DEF Flushing, TaskTypes
<1>5. CASE Flushed(d)
  <2> DEFINE c == [copy[d] EXCEPT !.phase = "shutting_down"]
  <2>1. /\ c \in [phase : {"running", "shutting_down", "done"}, base : Nat,
                  pos : Nat, cap : Nat, readDone : BOOLEAN, needFlush : BOOLEAN]
        /\ c.base = copy[d].base /\ c.pos = copy[d].pos /\ c.cap = copy[d].cap
        /\ c.phase = "shutting_down" /\ c.readDone = copy[d].readDone
    BY <1>3
  <2>2. copy' = [copy EXCEPT ![d] = c]
    BY <1>1, <1>5 DEF FlushLast, TaskTypes
  <2>3. turn' \in Side \cup {"end"} /\ waits' \subseteq {"read", "write", "flush"} \X Side
    BY <1>1, <1>2, <1>5 DEF FlushLast, TaskTypes
  <2> HIDE DEF c
  <2>4. QED
    BY <1>2, <1>4, <1>5, <2>1, <2>2, <2>3, FlushKeeps
<1>6. CASE ~Flushed(d)
  <2>1. copy' = [copy EXCEPT ![d] = copy[d]]
    BY <1>1, <1>6 DEF FlushLast, TaskTypes
  <2>2. turn' \in Side \cup {"end"}
    BY <1>6 DEF FlushLast, Pend, Then, Side
  <2>3. waits' \subseteq {"read", "write", "flush"} \X Side
    BY <1>1, <1>6 DEF FlushLast, Pend, TaskTypes
  <2>4. QED
    BY <1>2, <1>3, <1>4, <2>1, <2>2, <2>3, FlushKeeps
<1>7. QED
  BY <1>5, <1>6

LEMMA ShutdownKeeps ==
  ASSUME CopyInv, NEW d \in Side, Shutdown(d)
  PROVE  CopyInv'
<1>1. StreamTypes /\ TaskTypes /\ \A e \in Side : Fits(e) /\ Carried(e) /\ Closing(e) /\ Flushing(e)
  BY DEF CopyInv, CopyTypeOK
<1>2. /\ turn = d /\ copy[d].phase = "shutting_down"
      /\ eof' = [eof EXCEPT ![d] = TRUE] /\ copy' = [copy EXCEPT ![d].phase = "done"]
      /\ UNCHANGED <<brutal, sent, closed, got, taken, wire, passed, turn, flushing, waits>>
  BY DEF Shutdown, endpoints
<1>3. copy[d] \in [phase : {"running", "shutting_down", "done"}, base : Nat,
                   pos : Nat, cap : Nat, readDone : BOOLEAN, needFlush : BOOLEAN]
  BY <1>1 DEF TaskTypes
<1>4. flushing = FALSE
  BY <1>1, <1>2 DEF Flushing, TaskTypes
<1> DEFINE c == [copy[d] EXCEPT !.phase = "done"]
<1>5. /\ c \in [phase : {"running", "shutting_down", "done"}, base : Nat,
                pos : Nat, cap : Nat, readDone : BOOLEAN, needFlush : BOOLEAN]
      /\ c.base = copy[d].base /\ c.pos = copy[d].pos /\ c.cap = copy[d].cap
      /\ c.phase = "done" /\ c.readDone = copy[d].readDone
  BY <1>3
<1>6. copy' = [copy EXCEPT ![d] = c]
  BY <1>1, <1>2 DEF TaskTypes
<1> HIDE DEF c
<1>7. copy'[d] = c /\ \A e \in Side : e # d => copy'[e] = copy[e]
  BY <1>1, <1>5, <1>6, CopyTypes
<1>8. eof'[d] = TRUE /\ \A e \in Side : e # d => eof'[e] = eof[e]
  BY <1>1, <1>2 DEF StreamTypes
<1>9. StreamTypes' /\ TaskTypes'
  <2>1. StreamTypes'
    BY <1>1, <1>2 DEF StreamTypes
  <2>2. copy' \in [Side -> [phase : {"running", "shutting_down", "done"}, base : Nat,
                        pos : Nat, cap : Nat, readDone : BOOLEAN, needFlush : BOOLEAN]]
    BY <1>1, <1>5, <1>6, CopyTypes
  <2>3. TaskTypes'
    BY <1>1, <1>2, <2>2 DEF TaskTypes
  <2>4. QED
    BY <2>1, <2>3
<1>10. Fits(d)' /\ Carried(d)' /\ Closing(d)'
  <2>1. Fits(d)' /\ Carried(d)'
    BY <1>1, <1>2, <1>5, <1>7 DEF Fits, Carried
  <2>2. Closing(d)'
    BY <1>1, <1>2, <1>5, <1>7, <1>8 DEF Closing, Empty
  <2>3. QED
    BY <2>1, <2>2
<1>11. \A e \in Side : Fits(e)' /\ Carried(e)' /\ Closing(e)'
  <2>1. ASSUME NEW e \in Side, e # d
        PROVE  Fits(e)' /\ Carried(e)' /\ Closing(e)'
    BY <1>1, <1>2, <1>7, <1>8, <2>1, Kept
  <2>2. QED
    BY <1>10, <2>1
<1>12. QED
  BY <1>2, <1>4, <1>9, <1>11 DEF CopyInv, CopyTypeOK, Flushing

LEMMA TurnsKeep ==
  ASSUME CopyInv, (\E d \in Side : Done(d) \/ Fail(d)) \/ PollEnd \/ Wake
  PROVE  CopyInv'
<1>1. /\ TaskTypes /\ (flushing => turn \in Side \cup {"failed"})
      /\ \A e \in Side : Closing(e) /\ Flushing(e)
  BY DEF CopyInv, CopyTypeOK
<1>2. /\ UNCHANGED <<brutal, sent, closed, taken, got, wire, passed, eof, copy>>
      /\ flushing' = flushing
  BY DEF Done, Fail, PollEnd, Wake, endpoints, sockets
<1>3. waits' \subseteq {"read", "write", "flush"} \X Side
  BY <1>1 DEF Done, Fail, PollEnd, Wake, TaskTypes
<1>4. ASSUME NEW d \in Side, Done(d)
      PROVE  CopyInv'
  <2>1. turn' \in Side \cup {"end"}
    BY <1>4 DEF Done, Then, Side
  <2>2. flushing' = FALSE
    BY <1>1, <1>2, <1>4 DEF Done, Flushing, TaskTypes
  <2>3. QED
    BY <1>2, <1>3, <2>1, <2>2, TurnKeeps DEF Flushing
<1>5. ASSUME NEW d \in Side, Fail(d)
      PROVE  CopyInv'
  <2>1. turn' = "failed" /\ \A e \in Side : Flushing(e)'
    BY <1>5 DEF Fail, Flushing, Side
  <2>2. QED
    BY <1>1, <1>2, <1>3, <2>1, TurnKeeps DEF TaskTypes
<1>6. CASE PollEnd
  <2>1. turn' \in {"ok", "asleep"} /\ flushing' = FALSE
    BY <1>1, <1>2, <1>6 DEF PollEnd, TaskTypes, Side
  <2>2. QED
    BY <1>2, <1>3, <2>1, TurnKeeps DEF Flushing
<1>7. CASE Wake
  <2>1. turn' \in Side /\ flushing' = FALSE
    BY <1>1, <1>2, <1>7 DEF Wake, TaskTypes, Side
  <2>2. QED
    BY <1>2, <1>3, <2>1, TurnKeeps DEF Flushing
<1>8. QED
  BY <1>4, <1>5, <1>6, <1>7

\* CopyInv is inductive.
LEMMA NextKeeps == CopyInv /\ [Next]_vars => CopyInv'
<1> SUFFICES ASSUME CopyInv, [Next]_vars
             PROVE  CopyInv'
  OBVIOUS
<1>1. ASSUME NEW d \in Side, Send(d) \/ Close(d) \/ Consume(d)
      PROVE  CopyInv'
  BY <1>1, SendKeeps, CloseKeeps, ConsumeKeeps
<1>2. ASSUME NEW d \in Side, Read(d) \/ Write(d) \/ FlushIdle(d) \/ FlushLast(d) \/ Shutdown(d)
      PROVE  CopyInv'
  BY <1>2, ReadKeeps, WriteKeeps, FlushIdleKeeps, FlushLastKeeps, ShutdownKeeps
<1>3. CASE (\E d \in Side : Done(d) \/ Fail(d)) \/ PollEnd \/ Wake
  BY <1>3, TurnsKeep
<1>4. CASE UNCHANGED vars
  <2>1. UNCHANGED <<brutal, sent, closed, taken, got, wire, passed, eof, copy, turn, flushing, waits>>
    BY <1>4 DEF vars, endpoints, sockets, task
  <2>2. /\ TaskTypes /\ (flushing => turn \in Side \cup {"failed"})
        /\ \A e \in Side : Flushing(e)
    BY DEF CopyInv, CopyTypeOK
  <2>3. \A e \in Side : Flushing(e)'
    BY <2>1, <2>2 DEF Flushing, Empty
  <2>4. QED
    BY <2>1, <2>2, <2>3, TurnKeeps DEF TaskTypes
<1>5. QED
  BY <1>1, <1>2, <1>3, <1>4 DEF Next, Relay

LEMMA CopyInvariant == Spec => []CopyInv
<1>1. QED
  BY InitCopyInv, NextKeeps, PTL DEF Spec

\* Positions stay inside the buffer, a writer holds back no more than it may, and
\* the task never sleeps between a Pending read and its flush (buf.rs:55-116).
THEOREM CopyTypesHold == Spec => []CopyTypeOK
<1>1. CopyInv => CopyTypeOK
  BY DEF CopyInv
<1>2. QED
  BY <1>1, CopyInvariant, PTL

-----------------------------------------------------------------------------
\* What a copy has brought is the beginning of each stream.
Beginnings(n) == [d \in Side |-> Bytes(n[d])]

LEMMA Begins ==
  ASSUME NEW w, NEW n,
         \A d \in Side : /\ w[d] \in Seq(Nat) /\ n[d] \in 0 .. Len(w[d])
                         /\ \A i \in 1 .. Len(w[d]) : w[d][i] = i
  PROVE  /\ [d \in Side |-> SubSeq(w[d], 1, n[d])] = Beginnings(n)
         /\ \A d \in Side : Beginnings(n)[d] = Bytes(n[d]) /\ Len(Bytes(n[d])) = n[d]
<1>1. ASSUME NEW d \in Side
      PROVE  SubSeq(w[d], 1, n[d]) = Bytes(n[d]) /\ Len(Bytes(n[d])) = n[d]
  BY Arrived
<1>2. QED
  BY <1>1 DEF Beginnings

AsBegun == /\ [d \in Side |-> SubSeq(wire[d], 1, passed[d])] = Beginnings(passed)
           /\ \A d \in Side : /\ Beginnings(passed)[d] = Bytes(passed[d])
                              /\ Len(Bytes(passed[d])) = passed[d]

LEMMA Brought == CopyInv => AsBegun
<1> SUFFICES ASSUME CopyInv
             PROVE  AsBegun
  OBVIOUS
<1>1. ASSUME NEW d \in Side
      PROVE  /\ wire[d] \in Seq(Nat) /\ passed[d] \in 0 .. Len(wire[d])
             /\ \A i \in 1 .. Len(wire[d]) : wire[d][i] = i
  <2>1. StreamTypes /\ TaskTypes /\ Fits(d) /\ Carried(d)
    BY DEF CopyInv, CopyTypeOK
  <2>2. /\ wire[d] \in Seq(Nat) /\ passed[d] \in Nat /\ Len(wire[d]) \in Nat
        /\ passed[d] <= Len(wire[d])
    BY <2>1, Sizes DEF Fits
  <2>3. QED
    BY <2>1, <2>2 DEF Carried
<1>2. QED
  BY <1>1, Begins DEF AsBegun

\* A step that pushes bytes out of a writer.
LEMMA Passing ==
  ASSUME CopyInv, AsBegun, CopyInv', AsBegun', NEW d \in Side, turn = d, copy[d].phase = "running",
         UNCHANGED <<brutal, sent, closed, eof>>, turn' \in Side \cup {"end"},
         passed[d] <= passed'[d], \A e \in Side : e # d => passed'[e] = passed[e]
  PROVE  [Streams!Moves]_(Streams!streams)
<1>1. /\ [e \in Side |-> SubSeq(wire[e], 1, passed[e])] = Beginnings(passed)
      /\ [e \in Side |-> SubSeq(wire'[e], 1, passed'[e])] = Beginnings(passed')
      /\ Len(Beginnings(passed)[d]) = passed[d]
  BY DEF AsBegun
<1>2. Outcome = "no" /\ Outcome' = "no"
  BY DEF Outcome, Side
<1>3. eof[d] = FALSE
  <2>1. eof \in [Side -> BOOLEAN]
    BY DEF CopyInv, CopyTypeOK, StreamTypes
  <2>2. ~eof[d]
    BY DEF CopyInv, Closing
  <2>3. QED
    BY <2>1, <2>2
<1>4. /\ passed[d] \in Nat /\ passed'[d] \in Nat /\ passed'[d] <= sent[d] /\ sent[d] \in Nat
  <2>1. (StreamTypes /\ TaskTypes /\ Fits(d) /\ Carried(d))'
    BY DEF CopyInv, CopyTypeOK
  <2>2. passed[d] \in Nat
    BY DEF CopyInv, CopyTypeOK, StreamTypes
  <2>3. /\ sent'[d] \in Nat /\ taken'[d] \in Nat /\ passed'[d] \in Nat /\ Len(wire'[d]) \in Nat
        /\ copy'[d].base \in Nat /\ copy'[d].pos \in Nat /\ copy'[d].cap \in Nat
    <3>1. wire'[d] \in Seq(Nat)
      BY <2>1 DEF StreamTypes
    <3>2. Len(wire'[d]) \in Nat
      BY <3>1, LenProperties
    <3>3. sent'[d] \in Nat /\ taken'[d] \in Nat /\ passed'[d] \in Nat
      BY <2>1 DEF StreamTypes
    <3>4. copy'[d].base \in Nat /\ copy'[d].pos \in Nat /\ copy'[d].cap \in Nat
      BY <2>1 DEF TaskTypes
    <3>5. QED
      BY <3>2, <3>3, <3>4
  <2>4. passed'[d] <= Len(wire'[d]) /\ taken'[d] <= sent'[d] /\ copy'[d].pos <= copy'[d].cap
    BY <2>1 DEF Fits
  <2>5. Len(wire'[d]) = copy'[d].base + copy'[d].pos /\ taken'[d] = copy'[d].base + copy'[d].cap
    BY <2>1 DEF Carried
  <2>6. Len(wire'[d]) <= taken'[d]
    BY <2>3, <2>4, <2>5
  <2>7. QED
    BY <2>2, <2>3, <2>4, <2>6
<1>5. CASE passed'[d] = passed[d]
  <2>1. Beginnings(passed') = Beginnings(passed)
    BY <1>5 DEF Beginnings
  <2>2. QED
    BY <1>1, <1>2, <2>1 DEF Streams!streams
<1>6. CASE passed'[d] # passed[d]
  <2>1. passed'[d] \in passed[d] + 1 .. sent[d]
    BY <1>4, <1>6
  <2>2. Beginnings(passed') = [Beginnings(passed) EXCEPT ![d] = Streams!Stream(passed'[d])]
    BY DEF Beginnings, Bytes, Streams!Stream
  <2>3. Streams!Delivers(d)
    BY <1>1, <1>2, <1>3, <2>1, <2>2 DEF Streams!Delivers
  <2>4. QED
    BY <2>3 DEF Streams!Moves, Streams!Side, Side
<1>7. QED
  BY <1>5, <1>6

LEMMA WriteMoves ==
  ASSUME CopyInv, AsBegun, CopyInv', AsBegun', NEW d \in Side, Write(d)
  PROVE  [Streams!Moves]_(Streams!streams)
<1>1. /\ turn = d /\ copy[d].phase = "running"
      /\ UNCHANGED <<brutal, sent, closed, eof>>
      /\ passed \in [Side -> Nat]
  BY DEF Write, Running, endpoints, CopyInv, CopyTypeOK, StreamTypes
<1>2. CASE UNCHANGED passed /\ turn' = Then(d)
  BY <1>1, <1>2, Passing DEF Then, Side
<1>3. QED
  <2>1. ASSUME NEW n \in 1 .. Least(copy[d].cap - copy[d].pos, Room(d)),
               NEW p \in passed[d] .. Least(Len(wire[d]) + n, got[d] + Window),
               passed' = [passed EXCEPT ![d] = p], turn' = turn
        PROVE  [Streams!Moves]_(Streams!streams)
    <3>1. passed[d] <= p
      OBVIOUS
    <3>2. passed'[d] = p /\ \A e \in Side : e # d => passed'[e] = passed[e]
      BY <1>1, <2>1
    <3>3. QED
      BY <1>1, <2>1, <3>1, <3>2, Passing
  <2>2. QED
    BY <1>2, <2>1 DEF Write, Pend

LEMMA FlushMoves ==
  ASSUME CopyInv, AsBegun, CopyInv', AsBegun', NEW d \in Side, FlushIdle(d) \/ FlushLast(d)
  PROVE  [Streams!Moves]_(Streams!streams)
<1>1. /\ turn = d /\ copy[d].phase = "running"
      /\ UNCHANGED <<brutal, sent, closed, eof>>
      /\ turn' \in {turn, Then(d)}
      /\ passed' = [passed EXCEPT ![d] = Reach(d)]
  BY DEF FlushIdle, FlushLast, Running, Pend, endpoints
<1>2. passed[d] <= Reach(d) /\ passed \in [Side -> Nat]
  BY Reaches DEF CopyInv, CopyTypeOK, StreamTypes
<1>3. passed'[d] = Reach(d) /\ \A e \in Side : e # d => passed'[e] = passed[e]
  BY <1>1, <1>2
<1>4. turn' \in Side \cup {"end"}
  BY <1>1 DEF Then, Side
<1>5. QED
  BY <1>1, <1>2, <1>3, <1>4, Passing

LEMMA ShutdownMoves ==
  ASSUME CopyInv, AsBegun, NEW d \in Side, Shutdown(d)
  PROVE  Streams!Moves
<1>1. /\ turn = d /\ copy[d].phase = "shutting_down" /\ eof' = [eof EXCEPT ![d] = TRUE]
      /\ UNCHANGED <<brutal, sent, closed, wire, passed, turn>>
  BY DEF Shutdown, endpoints
<1>2. closed[d] /\ taken[d] = sent[d] /\ passed[d] = Len(wire[d]) /\ copy[d].pos = copy[d].cap
  BY <1>1 DEF CopyInv, Closing, Empty
<1>3. Len(wire[d]) = copy[d].base + copy[d].pos /\ taken[d] = copy[d].base + copy[d].cap
  BY DEF CopyInv, Carried
<1>4. /\ [e \in Side |-> SubSeq(wire[e], 1, passed[e])] = Beginnings(passed)
      /\ Len(Beginnings(passed)[d]) = passed[d]
  BY DEF AsBegun
<1>5. Outcome = "no" /\ Outcome' = "no"
  BY <1>1 DEF Outcome, Side
<1>6. Streams!Finishes(d)
  BY <1>1, <1>2, <1>3, <1>4, <1>5 DEF Streams!Finishes
<1>7. QED
  BY <1>6 DEF Streams!Moves, Streams!Side, Side

LEMMA PollEndMoves ==
  ASSUME CopyInv, PollEnd
  PROVE  [Streams!Moves]_(Streams!streams)
<1>1. /\ turn = "end" /\ turn' = IF Complete THEN "ok" ELSE "asleep"
      /\ UNCHANGED <<brutal, sent, closed, wire, passed, eof>>
  BY DEF PollEnd, endpoints, sockets
<1>2. CASE Complete
  <2>1. \A d \in Side : copy[d].phase = "done" => eof[d]
    BY DEF CopyInv, Closing
  <2>2. IF brutal THEN \E d \in Side : eof[d] ELSE \A d \in Side : eof[d]
    BY <1>2, <2>1 DEF Complete, Finished
  <2>3. Outcome = "no" /\ Outcome' = "ok"
    BY <1>1, <1>2 DEF Outcome
  <2>4. Streams!Ends
    BY <1>1, <2>2, <2>3 DEF Streams!Ends, Streams!Side, Side
  <2>5. QED
    BY <2>4 DEF Streams!Moves
<1>3. CASE ~Complete
  BY <1>1, <1>3 DEF Outcome, Streams!streams
<1>4. QED
  BY <1>2, <1>3

LEMMA EndpointsMove ==
  ASSUME NEW d \in Side, Send(d) \/ Close(d) \/ Consume(d)
  PROVE  [Streams!Moves]_(Streams!streams)
<1>1. UNCHANGED <<brutal, wire, passed, eof, turn>>
  BY DEF Send, Close, Consume, sockets, task
<1>2. Outcome' = Outcome
  BY <1>1 DEF Outcome
<1>3. CASE Send(d)
  <2>1. Streams!Sends(d)
    BY <1>1, <1>2, <1>3 DEF Send, Streams!Sends
  <2>2. QED
    BY <2>1 DEF Streams!Moves, Streams!Side, Side
<1>4. CASE Close(d)
  <2>1. Streams!Closes(d)
    BY <1>1, <1>2, <1>4 DEF Close, Streams!Closes
  <2>2. QED
    BY <2>1 DEF Streams!Moves, Streams!Side, Side
<1>5. CASE Consume(d)
  BY <1>1, <1>2, <1>5 DEF Consume, Streams!streams
<1>6. QED
  BY <1>3, <1>4, <1>5

\* Every step of the copy is a step of ByteStreams or moves nothing there.
LEMMA NextMoves ==
  ASSUME CopyInv, AsBegun, CopyInv', AsBegun', [Next]_vars
  PROVE  [Streams!Moves]_(Streams!streams)
<1>1. ASSUME NEW d \in Side, Send(d) \/ Close(d) \/ Consume(d)
      PROVE  [Streams!Moves]_(Streams!streams)
  BY <1>1, EndpointsMove
<1>2. ASSUME NEW d \in Side, Read(d)
      PROVE  [Streams!Moves]_(Streams!streams)
  <2>1. UNCHANGED <<brutal, sent, closed, wire, passed, eof>> /\ turn = d /\ turn' \in {d, Then(d)}
    BY <1>2 DEF Read, Running, Pend, endpoints
  <2>2. Outcome = "no" /\ Outcome' = "no"
    BY <2>1 DEF Outcome, Then, Side
  <2>3. QED
    BY <2>1, <2>2 DEF Streams!streams
<1>3. ASSUME NEW d \in Side, Write(d) \/ FlushIdle(d) \/ FlushLast(d)
      PROVE  [Streams!Moves]_(Streams!streams)
  BY <1>3, WriteMoves, FlushMoves
<1>4. ASSUME NEW d \in Side, Shutdown(d)
      PROVE  [Streams!Moves]_(Streams!streams)
  BY <1>4, ShutdownMoves
<1>5. ASSUME NEW d \in Side, Fail(d)
      PROVE  [Streams!Moves]_(Streams!streams)
  <2>1. /\ turn = d /\ turn' = "failed"
        /\ UNCHANGED <<brutal, sent, closed, wire, passed, eof>>
    BY <1>5 DEF Fail, endpoints, sockets
  <2>2. Outcome = "no" /\ Outcome' = "failed"
    BY <2>1 DEF Outcome, Side
  <2>3. QED
    BY <2>1, <2>2 DEF Streams!Moves, Streams!Ends
<1>6. CASE PollEnd
  BY <1>6, PollEndMoves
<1>7. ASSUME Wake \/ (\E d \in Side : Done(d)) \/ UNCHANGED vars
      PROVE  [Streams!Moves]_(Streams!streams)
  <2>1. UNCHANGED <<brutal, sent, closed, wire, passed, eof>>
    BY <1>7 DEF Wake, Done, vars, endpoints, sockets
  <2>2. Outcome' = Outcome
    BY <1>7 DEF Wake, Done, vars, task, Outcome, Then, Side
  <2>3. QED
    BY <2>1, <2>2 DEF Streams!streams
<1>8. QED
  BY <1>1, <1>2, <1>3, <1>4, <1>5, <1>6, <1>7 DEF Next, Relay

LEMMA InitStarts == Init => Streams!Start
<1> SUFFICES ASSUME Init
             PROVE  Streams!Start
  OBVIOUS
<1>1. [d \in Side |-> SubSeq(wire[d], 1, passed[d])] = [d \in Side |-> <<>>]
  BY EmptySeq DEF Init, Side
<1>2. QED
  BY <1>1 DEF Init, Streams!Start, Streams!Side, Side, Outcome

\* The copy implements ByteStreams: no byte is lost, repeated or reordered, the end of
\* a stream is announced only behind its last byte, and a relay that returns well has
\* ended both streams, or in the brutal build one (bidi_copy.rs:91-119, buf.rs:55-116).
THEOREM CopyKeepsPromise == Spec => KeepsPromise
<1>1. CopyInv /\ CopyInv' /\ AsBegun /\ AsBegun' /\ [Next]_vars => [Streams!Moves]_(Streams!streams)
  BY NextMoves
<1>2. QED
  BY <1>1, InitStarts, CopyInvariant, Brought, PTL DEF Spec, KeepsPromise, Streams!Promise
=============================================================================
