---------------------------- MODULE TunnelProofs ----------------------------
(***************************************************************************)
(* Theorems about Tunnel for every configuration of the two relays, any    *)
(* number of chunks and any length of junk.                                *)
(***************************************************************************)
EXTENDS Tunnel, SequenceTheorems, TLAPS

-----------------------------------------------------------------------------
(* What a link carries in the configuration s, in the order it is written: *)
(* the PROXY header, the obfuscation head and the n items of junk behind   *)
(* it, then the chunks.                                                    *)
Link  == {"CA", "AB", "BS", "SB", "BA", "AC"}
Thing == [kind : {"data", "proxy", "head", "junk", "eof", "rst"}, n : Nat,
          of : {"nobody", "client", "A", "origin"}, enc : BOOLEAN]

Greeted(s, l) == CASE l = "CA" -> s.lead # "none"
                   [] l = "AB" -> s.send["A"]
                   [] l = "BS" -> s.send["B"]
                   [] OTHER    -> FALSE
Veiled(s, l)  == l \in {"AB", "BA"} /\ s.mode["A"] # 0

Greet(s, l)   == IF Greeted(s, l) THEN 1 ELSE 0
Fore(s, l, n) == Greet(s, l) + IF Veiled(s, l) THEN 1 + n ELSE 0

NameOn(s, l) ==
  LET far == s.accept["A"] /\ s.lead = "tcp"
  IN  CASE l = "CA" -> IF s.lead = "tcp" THEN "origin" ELSE "nobody"
        [] l = "AB" -> IF far THEN "origin" ELSE "client"
        [] OTHER    -> IF ~s.accept["B"] THEN "A" ELSE IF far THEN "origin" ELSE "client"

Chunk(s, l, x) == [Data(x) EXCEPT !.enc = Veiled(s, l)]

Ideal(s, l, n) == [x \in Nat \ {0} |->
                     IF x <= Greet(s, l) THEN Proxy(NameOn(s, l))
                     ELSE IF x > Fore(s, l, n) THEN Chunk(s, l, x - Fore(s, l, n))
                     ELSE IF x = Greet(s, l) + 1 THEN OwnHead(n) ELSE Rubbish]

(* A sequence q that holds items lo + 1 to hi of f and, where it is not    *)
(* `open', perhaps an end behind them or nothing of them at all; the end   *)
(* is a reset only if there was one.                                       *)
Holds(q, f, lo, hi, open, rst) ==
  /\ q \in Seq(Thing)
  /\ lo \in Nat /\ hi \in Nat /\ lo <= hi
  /\ \E mid \in {lo, hi} : \E t \in {0, 1} :
       /\ Len(q) = mid - lo + t
       /\ \A i \in 1 .. mid - lo : q[i] = f[lo + i]
       /\ t = 1 => q[Len(q)] = Eof \/ (rst /\ q[Len(q)] = Rst)
       /\ open => t = 0 /\ mid = hi

-----------------------------------------------------------------------------
(* The inductive invariant.  rd[l] and wr[l] are how many items of link l  *)
(* its reader has taken and its writer has written, junk[l] the length of  *)
(* the junk on it.  Its parts speak of the values of the variables they    *)
(* are given: s is the configuration, at the place of a relay, over the    *)
(* directions it has shut down, and so on.                                 *)
Label == {"proxy", "send", "first", "consume", "probed", "copy", "done", "failed"}

Open(l, ends, at, over) ==
  /\ \A p \in Party : l = Out(p) => ~ends[p]
  /\ \A r \in Relay, d \in Dir :
       l = To(r, d) => at[r] \notin {"done", "failed"} /\ d \notin over[r]

(* Once A has failed nobody reads what C sends.                            *)
Unheeded(l, at) == l = "CA" /\ at["A"] = "failed"

(* Direction d of relay r before its first chunk, and with its handshake   *)
(* behind it.                                                              *)
Waiting(s, r, d, rd, wr) == /\ rd[From(r, d)] = Greet(s, From(r, d))
                            /\ wr[To(r, d)] = Greet(s, To(r, d))
Moving(s, r, d, rd, wr, junk) ==
  /\ rd[From(r, d)] >= Fore(s, From(r, d), junk[From(r, d)])
  /\ wr[To(r, d)] - Fore(s, To(r, d), junk[To(r, d)])
       = rd[From(r, d)] - Fore(s, From(r, d), junk[From(r, d)])

(* Where a relay is says what it has read and written.                     *)
Placed(s, r, at, over, known, rd, wr, junk) ==
  /\ at \in {"first", "consume", "probed"} => s.mode[r] # 0
  /\ at \notin {"copy", "done", "failed"} => over = {}
  /\ at = "proxy" => /\ rd[From(r, "up")] = 0 /\ wr[To(r, "up")] = 0
                     /\ known = IF r = "A" THEN "client" ELSE "A"
  /\ at = "send" => /\ s.send[r]
                    /\ rd[From(r, "up")] = Greet(s, From(r, "up")) /\ wr[To(r, "up")] = 0
                    /\ known = NameOn(s, To(r, "up"))
  /\ at \in {"first", "consume"} =>
       IF (s.mode[r] = 1) = (at = "first") THEN Waiting(s, r, "up", rd, wr)
                                           ELSE Moving(s, r, "up", rd, wr, junk)
  /\ at \in {"proxy", "send", "first", "consume"} => Waiting(s, r, "down", rd, wr)
  /\ at = "copy" => \A d \in Dir : Moving(s, r, d, rd, wr, junk)

(* No chunk has gone down, ...                                             *)
Mute(s, r, wr, junk) == wr[To(r, "down")] <= Fore(s, To(r, "down"), junk[To(r, "down")])

(* ... or some that was sent will never be passed on.                      *)
Sender(d) == IF d = "up" THEN "C" ELSE "S"
Short(s, r, d, said, wr, junk) ==
  /\ said[Sender(d)] > 0
  /\ wr[To(r, d)] < Fore(s, To(r, d), junk[To(r, d)]) + said[Sender(d)]

(* A relay that blames its peer has passed on less than there was, unless  *)
(* there was a reset.                                                      *)
Excused(s, r, at, hears, blame, rst, said, wr, junk) ==
  /\ ~hears \/ at = "probed" => Mute(s, r, wr, junk)
  /\ blame = "failure" =>
       /\ at \in {"done", "failed"}
       /\ rst \/ Mute(s, r, wr, junk) \/ \E d \in Dir : Short(s, r, d, said, wr, junk)

(* Only a relay that does not know the handshake is taken for a probe, and *)
(* then nothing passes.                                                    *)
Equal(s) == <<s.mode["A"], s.mode["B"]>> \in {<<0, 0>>, <<1, 2>>}
Clash(s, at, wr) ==
  IF Equal(s) THEN \A r \in Relay : at[r] # "probed"
  ELSE /\ at["B"] \notin {"first", "copy", "done"}
       /\ wr["BS"] <= Greet(s, "BS") /\ wr["BA"] = 0

(* Nobody passes on more than was sent, ...                                *)
Supply(s, at, ends, said, wr, junk) ==
  /\ ~Unheeded("CA", at) =>
       /\ wr["CA"] <= Greet(s, "CA") + said["C"]
       /\ ~ends["C"] => \/ wr["CA"] = Greet(s, "CA") + said["C"]
                        \/ wr["CA"] = 0 /\ said["C"] = 0 /\ at["A"] = "proxy"
  /\ wr["SB"] <= said["S"]
  /\ ~ends["S"] => wr["SB"] = said["S"]
  /\ wr["AB"] <= Fore(s, "AB", junk["AB"]) + said["C"]
  /\ wr["BA"] <= Fore(s, "BA", junk["BA"]) + said["S"]

(* ... nor more than there is to pass on.                                  *)
Behind(s, l, k, wr, junk) ==
  \/ wr[l] <= Greet(s, l)
  \/ wr[l] - Greet(s, l) <= wr[k] - Fore(s, k, junk[k])

(* Head and junk are written as one.                                       *)
Whole(s, l, wr, junk) == wr[l] <= Greet(s, l) \/ wr[l] >= Fore(s, l, junk[l])

Gotten(s, l, g, rd, junk) ==
  /\ rd[l] = Len(g)
  /\ \A i \in 1 .. Len(g) : g[i] = Ideal(s, l, junk[l])[i]

Good(rd, wr, junk) ==
  /\ \A l \in Link : ~Unheeded(l, pc) =>
       Holds(link[l], Ideal(setup, l, junk[l]), rd[l], wr[l], Open(l, shut, pc, done), reset)
  /\ \A r \in Relay : Placed(setup, r, pc[r], done[r], name[r], rd, wr, junk)
  /\ \A r \in Relay : Excused(setup, r, pc[r], heard[r], report[r], reset, sent, wr, junk)
  /\ \A l \in Link : Whole(setup, l, wr, junk)
  /\ Clash(setup, pc, wr)
  /\ Supply(setup, pc, shut, sent, wr, junk)
  /\ Behind(setup, "BS", "AB", wr, junk) /\ Behind(setup, "AC", "BA", wr, junk)
  /\ \A p \in Party : Gotten(setup, In(p), got[p], rd, junk)

TypeOK == /\ setup \in Setups
          /\ link \in [Link -> Seq(Thing)]
          /\ pc \in [Relay -> Label]
          /\ name \in [Relay -> {"client", "A", "origin"}]
          /\ done \in [Relay -> SUBSET Dir]
          /\ heard \in [Relay -> BOOLEAN]
          /\ report \in [Relay -> {"none", "success", "failure"}]
          /\ sent \in [Party -> Nat]
          /\ shut \in [Party -> BOOLEAN] /\ ended \in [Party -> BOOLEAN]
          /\ got \in [Party -> Seq(Thing)]
          /\ reset \in BOOLEAN

Inv == /\ TypeOK
       /\ Agreed => \E rd, wr, junk \in [Link -> Nat] : Good(rd, wr, junk)

-----------------------------------------------------------------------------
(* The wiring: every link has one writer and one reader.                   *)
LEMMA FromWires ==
  /\ \A r \in Relay, d \in Dir : From(r, d) \in Link /\ To(r, d) \in Link
  /\ \A r \in Relay, q \in Relay, d \in Dir, e \in Dir :
       /\ From(r, d) = From(q, e) => r = q /\ d = e
       /\ To(r, d) = To(q, e) => r = q /\ d = e
       /\ From(r, d) # To(r, e)
BY DEF Relay, Dir, From, To, Link

LEMMA PartyWires ==
  /\ \A p \in Party : Out(p) \in Link /\ In(p) \in Link
  /\ \A p \in Party, q \in Party :
       /\ Out(p) = Out(q) => p = q
       /\ In(p) = In(q) => p = q
       /\ Out(p) # In(q)
  /\ \A p \in Party, r \in Relay, d \in Dir : Out(p) # To(r, d) /\ In(p) # From(r, d)
BY DEF Relay, Dir, Party, From, To, Link, Out, In

-----------------------------------------------------------------------------
(* What Holds says of a sequence after something was taken or put.         *)
LEMMA Terminators == Eof \in Thing /\ Rst \in Thing /\ Eof # Rst /\ Ends(Eof) /\ Ends(Rst)
BY DEF Eof, Rst, Item, Thing, Ends

LEMMA Single ==
  ASSUME NEW x \in Thing
  PROVE  <<x>> \in Seq(Thing) /\ Len(<<x>>) = 1 /\ <<x>>[1] = x
OBVIOUS

(* The first k items are taken, none of them an end.                       *)
LEMMA TakeMany ==
  ASSUME NEW s, NEW f, NEW lo, NEW hi, NEW open, NEW rst,
         Holds(s, f, lo, hi, open, rst),
         NEW k \in 0 .. Len(s), \A i \in 1 .. k : ~Ends(s[i])
  PROVE  /\ lo + k <= hi
         /\ \A i \in 1 .. k : s[i] = f[lo + i]
         /\ Holds(SubSeq(s, k + 1, Len(s)), f, lo + k, hi, open, rst)
<1> DEFINE q == SubSeq(s, k + 1, Len(s))
<1>1. /\ s \in Seq(Thing) /\ lo \in Nat /\ hi \in Nat /\ lo <= hi
      /\ Len(s) \in Nat /\ k \in Nat /\ k <= Len(s)
  BY LenProperties DEF Holds
<1>2. PICK mid \in {lo, hi}, t \in {0, 1} :
        /\ Len(s) = mid - lo + t
        /\ \A i \in 1 .. mid - lo : s[i] = f[lo + i]
        /\ t = 1 => s[Len(s)] = Eof \/ (rst /\ s[Len(s)] = Rst)
        /\ open => t = 0 /\ mid = hi
  BY DEF Holds
<1>3. k <= mid - lo
  <2> SUFFICES ASSUME k > mid - lo
               PROVE  FALSE
    BY <1>1, <1>2
  <2>1. k = Len(s) /\ t = 1 /\ k \in 1 .. k
    BY <1>1, <1>2
  <2>2. Ends(s[k])
    BY <1>2, <2>1, Terminators
  <2>3. QED
    BY <2>1, <2>2
<1>4. /\ q \in Seq(Thing)
      /\ Len(q) = Len(s) - k
      /\ \A i \in 1 .. Len(s) - k : q[i] = s[k + i]
  <2>1. \A i \in k + 1 .. Len(s) : s[i] \in Thing
    BY <1>1, ElementOfSeq
  <2>2. k + 1 \in Int /\ Len(s) \in Int
    BY <1>1
  <2>3. /\ q \in Seq(Thing)
        /\ Len(q) = IF k + 1 <= Len(s) THEN Len(s) - (k + 1) + 1 ELSE 0
        /\ \A i \in 1 .. Len(s) - (k + 1) + 1 : q[i] = s[(k + 1) + i - 1]
    BY <2>1, <2>2, SubSeqProperties
  <2> HIDE DEF q
  <2>4. QED
    BY <1>1, <2>3
<1> HIDE DEF q
<1>5. lo + k \in Nat /\ lo + k <= hi /\ mid \in {lo + k, hi} /\ mid \in Nat
  BY <1>1, <1>2, <1>3
<1>6. Len(q) = mid - (lo + k) + t
  BY <1>1, <1>2, <1>4, <1>5
<1>7. \A i \in 1 .. mid - (lo + k) : q[i] = f[(lo + k) + i]
  <2> SUFFICES ASSUME NEW i \in 1 .. mid - (lo + k)
               PROVE  q[i] = f[(lo + k) + i]
    OBVIOUS
  <2>1. i \in 1 .. Len(s) - k /\ k + i \in 1 .. mid - lo /\ lo + (k + i) = (lo + k) + i
    BY <1>1, <1>2, <1>5
  <2>2. QED
    BY <1>2, <1>4, <2>1
<1>8. t = 1 => q[Len(q)] = Eof \/ (rst /\ q[Len(q)] = Rst)
  <2> SUFFICES ASSUME t = 1
               PROVE  q[Len(q)] = s[Len(s)]
    BY <1>2
  <2>1. Len(q) \in 1 .. Len(s) - k /\ k + Len(q) = Len(s)
    BY <1>1, <1>2, <1>3, <1>4, <1>5
  <2>2. QED
    BY <1>4, <2>1
<1>9. Holds(q, f, lo + k, hi, open, rst)
  <2>1. /\ Len(q) = mid - (lo + k) + t
        /\ \A i \in 1 .. mid - (lo + k) : q[i] = f[(lo + k) + i]
        /\ t = 1 => q[Len(q)] = Eof \/ (rst /\ q[Len(q)] = Rst)
        /\ open => t = 0 /\ mid = hi
    BY <1>2, <1>6, <1>7, <1>8
  <2>2. QED
    BY <1>1, <1>4, <1>5, <2>1 DEF Holds
<1>10. \A i \in 1 .. k : s[i] = f[lo + i]
  BY <1>1, <1>2, <1>3, <1>5
<1>11. QED
  BY <1>5, <1>9, <1>10 DEF q

(* One is taken.                                                           *)
LEMMA TakeOne ==
  ASSUME NEW s, NEW f, NEW lo, NEW hi, NEW open, NEW rst,
         Holds(s, f, lo, hi, open, rst), s # <<>>, ~Ends(Head(s))
  PROVE  /\ lo + 1 <= hi
         /\ Head(s) = f[lo + 1]
         /\ Holds(Tail(s), f, lo + 1, hi, open, rst)
<1>1. s \in Seq(Thing) /\ Len(s) \in Nat /\ Len(s) # 0
  BY EmptySeq, LenProperties DEF Holds
<1>2. 1 \in 0 .. Len(s) /\ Head(s) = s[1] /\ Tail(s) = SubSeq(s, 1 + 1, Len(s))
  BY <1>1, TailIsSubSeq
<1>3. \A i \in 1 .. 1 : ~Ends(s[i])
  BY <1>2
<1>4. /\ lo + 1 <= hi
      /\ \A i \in 1 .. 1 : s[i] = f[lo + i]
      /\ Holds(SubSeq(s, 1 + 1, Len(s)), f, lo + 1, hi, open, rst)
  <2>1. 1 \in 0 .. Len(s)
    BY <1>2
  <2>2. QED
    BY <1>3, <2>1, TakeMany
<1>5. s[1] = f[lo + 1]
  BY <1>4
<1>6. QED
  BY <1>2, <1>4, <1>5

(* Where the first is no end, the others are there too.                    *)
LEMMA AllThere ==
  ASSUME NEW s, NEW f, NEW lo, NEW hi, NEW open, NEW rst,
         Holds(s, f, lo, hi, open, rst), s # <<>>, ~Ends(Head(s)),
         \A x \in Nat \ {0} : ~Ends(f[x])
  PROVE  /\ hi - lo <= Len(s)
         /\ \A i \in 1 .. hi - lo : s[i] = f[lo + i] /\ ~Ends(s[i])
<1>1. /\ s \in Seq(Thing) /\ Len(s) \in Nat /\ Len(s) # 0
      /\ lo \in Nat /\ hi \in Nat /\ lo <= hi
  BY EmptySeq, LenProperties DEF Holds
<1>2. PICK mid \in {lo, hi}, t \in {0, 1} :
        /\ Len(s) = mid - lo + t
        /\ \A i \in 1 .. mid - lo : s[i] = f[lo + i]
        /\ t = 1 => s[Len(s)] = Eof \/ (rst /\ s[Len(s)] = Rst)
        /\ open => t = 0 /\ mid = hi
  BY DEF Holds
<1>3. mid = hi
  <2> SUFFICES ASSUME mid = lo
               PROVE  FALSE
    BY <1>2
  <2>1. Len(s) = 1 /\ t = 1
    BY <1>1, <1>2
  <2>2. Head(s) = s[Len(s)]
    BY <1>1, <2>1
  <2>3. s[Len(s)] = Eof \/ s[Len(s)] = Rst
    BY <1>2, <2>1
  <2>4. QED
    BY <2>2, <2>3, Terminators
<1>4. \A i \in 1 .. hi - lo : lo + i \in Nat \ {0}
  BY <1>1
<1>5. QED
  BY <1>1, <1>2, <1>3, <1>4

(* An end is taken, or it is a reset that is met again as an end.          *)
LEMMA TakeEnd ==
  ASSUME NEW s, NEW f, NEW lo, NEW hi, NEW open, NEW rst,
         Holds(s, f, lo, hi, open, rst), s # <<>>, Ends(Head(s)),
         \A x \in Nat \ {0} : ~Ends(f[x])
  PROVE  /\ ~open
         /\ Head(s) = Rst => rst
         /\ s = <<Head(s)>>
         /\ Holds(Tail(s), f, lo, hi, open, rst)
         /\ Holds(<<Eof>>, f, lo, hi, open, rst)
<1>1. /\ s \in Seq(Thing) /\ Len(s) \in Nat /\ Len(s) # 0
      /\ lo \in Nat /\ hi \in Nat /\ lo <= hi
  BY EmptySeq, LenProperties DEF Holds
<1>2. PICK mid \in {lo, hi}, t \in {0, 1} :
        /\ Len(s) = mid - lo + t
        /\ \A i \in 1 .. mid - lo : s[i] = f[lo + i]
        /\ t = 1 => s[Len(s)] = Eof \/ (rst /\ s[Len(s)] = Rst)
        /\ open => t = 0 /\ mid = hi
  BY DEF Holds
<1>3. mid = lo /\ t = 1
  <2> SUFFICES ASSUME mid # lo
               PROVE  FALSE
    BY <1>1, <1>2
  <2>1. 1 \in 1 .. mid - lo /\ lo + 1 \in Nat \ {0}
    BY <1>1, <1>2
  <2>2. Head(s) = f[lo + 1]
    BY <1>1, <1>2, <2>1
  <2>3. QED
    BY <2>1, <2>2
<1>4. Len(s) = 1 /\ lo <= hi
  BY <1>1, <1>2, <1>3
<1>5. ~open /\ (Head(s) = Rst => rst)
  <2>1. Head(s) = s[Len(s)]
    BY <1>1, <1>4
  <2>2. s[Len(s)] = Eof \/ (rst /\ s[Len(s)] = Rst)
    BY <1>2, <1>3
  <2>3. QED
    BY <1>2, <1>3, <2>1, <2>2, Terminators
<1>6. Tail(s) = <<>>
  <2>1. s # <<>>
    OBVIOUS
  <2>2. Tail(s) \in Seq(Thing) /\ Len(Tail(s)) = 0
    BY <1>1, <1>4, <2>1, HeadTailProperties
  <2>3. QED
    BY <2>2, EmptySeq
<1>7. s = <<Head(s)>>
  BY <1>1, <1>4
<1>8. Holds(<<>>, f, lo, hi, open, rst)
  <2>1. <<>> \in Seq(Thing) /\ Len(<<>>) = 0
    BY EmptySeq
  <2>2. lo \in {lo, hi} /\ 0 \in {0, 1} /\ 0 = lo - lo + 0
    BY <1>1, <1>4
  <2>3. \A i \in 1 .. lo - lo : <<>>[i] = f[lo + i]
    BY <1>1
  <2>4. QED
    BY <1>1, <1>5, <2>1, <2>2, <2>3 DEF Holds
<1>9. Holds(<<Eof>>, f, lo, hi, open, rst)
  <2>1. <<Eof>> \in Seq(Thing) /\ Len(<<Eof>>) = 1 /\ <<Eof>>[1] = Eof
    BY Terminators
  <2>2. lo \in {lo, hi} /\ 1 \in {0, 1} /\ 1 = lo - lo + 1
    BY <1>1, <1>4
  <2>3. \A i \in 1 .. lo - lo : <<Eof>>[i] = f[lo + i]
    BY <1>1
  <2>4. QED
    BY <1>1, <1>5, <2>1, <2>2, <2>3 DEF Holds
<1>10. QED
  BY <1>5, <1>6, <1>7, <1>8, <1>9

(* The next items are put behind.                                          *)
LEMMA PutMany ==
  ASSUME NEW s, NEW f, NEW lo, NEW hi, NEW rst,
         Holds(s, f, lo, hi, TRUE, rst),
         NEW q \in Seq(Thing), \A i \in 1 .. Len(q) : q[i] = f[hi + i]
  PROVE  Holds(s \o q, f, lo, hi + Len(q), TRUE, rst)
<1>1. /\ s \in Seq(Thing) /\ Len(s) \in Nat /\ Len(q) \in Nat
      /\ lo \in Nat /\ hi \in Nat
  BY LenProperties DEF Holds
<1>2. /\ Len(s) = hi - lo /\ lo <= hi
      /\ \A i \in 1 .. hi - lo : s[i] = f[lo + i]
  BY <1>1 DEF Holds
<1>3. /\ s \o q \in Seq(Thing)
      /\ Len(s \o q) = Len(s) + Len(q)
      /\ \A i \in 1 .. Len(s) + Len(q) : (s \o q)[i] =
           IF i <= Len(s) THEN s[i] ELSE q[i - Len(s)]
  BY <1>1, ConcatProperties
<1> DEFINE u == s \o q
           to == hi + Len(q)
<1> HIDE DEF u
<1>4. \A i \in 1 .. to - lo : u[i] = f[lo + i]
  <2> SUFFICES ASSUME NEW i \in 1 .. to - lo
               PROVE  u[i] = f[lo + i]
    OBVIOUS
  <2>1. i \in 1 .. Len(s) + Len(q)
    BY <1>1, <1>2
  <2>2. CASE i <= Len(s)
    <3>1. i \in 1 .. hi - lo /\ u[i] = s[i]
      BY <1>1, <1>2, <1>3, <2>1, <2>2 DEF u
    <3>2. QED
      BY <1>2, <3>1
  <2>3. CASE i > Len(s)
    <3>1. i - Len(s) \in 1 .. Len(q) /\ u[i] = q[i - Len(s)]
      BY <1>1, <1>2, <1>3, <2>1, <2>3 DEF u
    <3>2. hi + (i - Len(s)) = lo + i
      BY <1>1, <1>2, <2>1
    <3>3. QED
      BY <3>1, <3>2
  <2>4. QED
    BY <1>1, <2>1, <2>2, <2>3
<1>5. to \in {lo, to} /\ lo <= to /\ to \in Nat /\ 0 \in {0, 1} /\ Len(u) = to - lo + 0
  BY <1>1, <1>2, <1>3 DEF u
<1>6. u \in Seq(Thing)
  BY <1>3 DEF u
<1> HIDE DEF to
<1>7. Holds(u, f, lo, to, TRUE, rst)
  BY <1>1, <1>4, <1>5, <1>6 DEF Holds
<1>8. QED
  BY <1>7 DEF u, to

(* The next one is.                                                        *)
LEMMA PutOne ==
  ASSUME NEW s, NEW f, NEW lo, NEW hi, NEW rst,
         Holds(s, f, lo, hi, TRUE, rst), f[hi + 1] \in Thing
  PROVE  Holds(Append(s, f[hi + 1]), f, lo, hi + 1, TRUE, rst)
<1> DEFINE q == <<f[hi + 1]>>
<1>1. q \in Seq(Thing) /\ Len(q) = 1 /\ \A i \in 1 .. Len(q) : q[i] = f[hi + i]
  OBVIOUS
<1>2. Append(s, f[hi + 1]) = s \o q
  BY AppendIsConcat DEF Holds
<1> HIDE DEF q
<1>3. Holds(s \o q, f, lo, hi + Len(q), TRUE, rst)
  BY <1>1, PutMany
<1>4. QED
  BY <1>1, <1>2, <1>3

(* An end is put behind.                                                   *)
LEMMA PutEnd ==
  ASSUME NEW s, NEW f, NEW lo, NEW hi, NEW rst,
         Holds(s, f, lo, hi, TRUE, rst)
  PROVE  Holds(Append(s, Eof), f, lo, hi, FALSE, rst)
<1>1. s \in Seq(Thing) /\ lo \in Nat /\ hi \in Nat /\ Len(s) \in Nat
  BY LenProperties DEF Holds
<1>2. /\ Len(s) = hi - lo /\ lo <= hi
      /\ \A i \in 1 .. hi - lo : s[i] = f[lo + i]
  BY <1>1 DEF Holds
<1> DEFINE u == Append(s, Eof)
<1>3. /\ u \in Seq(Thing)
      /\ Len(u) = Len(s) + 1
      /\ \A i \in 1 .. Len(s) : u[i] = s[i]
      /\ u[Len(s) + 1] = Eof
  BY <1>1, Terminators, AppendProperties
<1> HIDE DEF u
<1>4. hi \in {lo, hi} /\ lo <= hi /\ 1 \in {0, 1} /\ Len(u) = hi - lo + 1
  BY <1>1, <1>2, <1>3
<1>5. \A i \in 1 .. hi - lo : u[i] = f[lo + i]
  BY <1>2, <1>3
<1>6. u[Len(u)] = Eof
  BY <1>3
<1>7. Holds(u, f, lo, hi, FALSE, rst)
  BY <1>1, <1>3, <1>4, <1>5, <1>6 DEF Holds
<1>8. QED
  BY <1>7 DEF u

(* A reset takes the place of it all.                                      *)
LEMMA PutReset ==
  ASSUME NEW s, NEW f, NEW lo, NEW hi, NEW open, NEW rst,
         Holds(s, f, lo, hi, open, rst)
  PROVE  Holds(<<Rst>>, f, lo, hi, FALSE, TRUE)
<1>1. lo \in Nat /\ hi \in Nat /\ lo <= hi
  BY DEF Holds
<1>2. <<Rst>> \in Seq(Thing) /\ Len(<<Rst>>) = 1 /\ <<Rst>>[1] = Rst
  BY Terminators
<1>3. lo \in {lo, hi} /\ 1 \in {0, 1} /\ 1 = lo - lo + 1
  BY <1>1
<1>4. \A i \in 1 .. lo - lo : <<Rst>>[i] = f[lo + i]
  BY <1>1
<1>5. QED
  BY <1>1, <1>2, <1>3, <1>4 DEF Holds

(* Less is claimed.                                                        *)
LEMMA Weaken ==
  ASSUME NEW s, NEW f, NEW lo, NEW hi,
         NEW open, NEW rst, NEW open2, NEW rst2,
         Holds(s, f, lo, hi, open, rst), open2 => open, rst => rst2
  PROVE  Holds(s, f, lo, hi, open2, rst2)
BY DEF Holds

(* Only the items in question count.                                       *)
LEMMA OtherIdeal ==
  ASSUME NEW s, NEW f, NEW g, NEW lo, NEW hi, NEW open, NEW rst,
         Holds(s, f, lo, hi, open, rst),
         \A x \in Nat \ {0} : x <= hi => f[x] = g[x]
  PROVE  Holds(s, g, lo, hi, open, rst)
<1>1. s \in Seq(Thing) /\ lo \in Nat /\ hi \in Nat
  BY DEF Holds
<1>2. PICK mid \in {lo, hi}, t \in {0, 1} :
        /\ Len(s) = mid - lo + t
        /\ \A i \in 1 .. mid - lo : s[i] = f[lo + i]
        /\ t = 1 => s[Len(s)] = Eof \/ (rst /\ s[Len(s)] = Rst)
        /\ open => t = 0 /\ mid = hi
  BY DEF Holds
<1>3. \A i \in 1 .. mid - lo : s[i] = g[lo + i]
  <2> SUFFICES ASSUME NEW i \in 1 .. mid - lo
               PROVE  s[i] = g[lo + i]
    OBVIOUS
  <2>1. lo + i \in Nat \ {0} /\ lo + i <= hi
    BY <1>1
  <2>2. QED
    BY <1>2, <2>1
<1>4. QED
  BY <1>1, <1>2, <1>3 DEF Holds

-----------------------------------------------------------------------------
(* The ideal contents of a link.                                           *)
LEMMA ForeType ==
  ASSUME NEW s, NEW l \in Link, NEW n \in Nat
  PROVE  /\ Greet(s, l) \in 0 .. 1
         /\ Fore(s, l, n) \in Nat /\ Greet(s, l) <= Fore(s, l, n)
         /\ Fore(s, l, n) = IF Veiled(s, l) THEN Greet(s, l) + 1 + n ELSE Greet(s, l)
<1>1. Greet(s, l) \in 0 .. 1
  BY DEF Greet
<1>2. QED
  BY <1>1 DEF Fore

LEMMA ThingTypes ==
  /\ \A x \in Nat : Data(x) \in Thing /\ OwnHead(x) \in Thing /\ ~Ends(Data(x)) /\ ~Ends(OwnHead(x))
  /\ Rubbish \in Thing /\ ~Ends(Rubbish)
  /\ \A c \in {"nobody", "client", "A", "origin"} : Proxy(c) \in Thing /\ ~Ends(Proxy(c))
  /\ \A s, l : \A x \in Nat : Chunk(s, l, x) \in Thing /\ ~Ends(Chunk(s, l, x))
  /\ \A r : \A it \in Thing : Flip(r, it) \in Thing
BY DEF Data, OwnHead, Rubbish, Proxy, Chunk, Item, Thing, Ends, Flip, Veiled

LEMMA IdealType ==
  ASSUME NEW s, NEW l \in Link, NEW n \in Nat, NEW x \in Nat \ {0}
  PROVE  Ideal(s, l, n)[x] \in Thing /\ ~Ends(Ideal(s, l, n)[x])
<1>1. Greet(s, l) \in Nat /\ Fore(s, l, n) \in Nat
  BY ForeType
<1>2. CASE x <= Greet(s, l)
  <2>1. Ideal(s, l, n)[x] = Proxy(NameOn(s, l))
    BY <1>2 DEF Ideal
  <2>2. NameOn(s, l) \in {"nobody", "client", "A", "origin"}
    BY DEF NameOn, Link
  <2>3. QED
    BY <2>1, <2>2, ThingTypes
<1>3. CASE x > Greet(s, l) /\ x > Fore(s, l, n)
  <2>1. Ideal(s, l, n)[x] = Chunk(s, l, x - Fore(s, l, n)) /\ x - Fore(s, l, n) \in Nat
    BY <1>1, <1>3 DEF Ideal
  <2>2. QED
    BY <2>1, ThingTypes
<1>4. CASE x > Greet(s, l) /\ x <= Fore(s, l, n)
  <2>1. Ideal(s, l, n)[x] \in {OwnHead(n), Rubbish}
    BY <1>1, <1>4 DEF Ideal
  <2>2. QED
    BY <2>1, ThingTypes
<1>5. \/ x <= Greet(s, l)
      \/ x > Greet(s, l) /\ x > Fore(s, l, n)
      \/ x > Greet(s, l) /\ x <= Fore(s, l, n)
  BY <1>1
<1>6. QED
  BY <1>2, <1>3, <1>4, <1>5

(* Its chunks, ...                                                         *)
LEMMA IdealChunk ==
  ASSUME NEW s, NEW l \in Link, NEW n \in Nat, NEW x \in Nat \ {0}
  PROVE  Ideal(s, l, n)[Fore(s, l, n) + x] = Chunk(s, l, x)
<1>1. /\ Greet(s, l) \in Nat /\ Fore(s, l, n) \in Nat /\ Greet(s, l) <= Fore(s, l, n)
  BY ForeType
<1> DEFINE y == Fore(s, l, n) + x
<1>2. y \in Nat \ {0} /\ ~(y <= Greet(s, l)) /\ y > Fore(s, l, n) /\ y - Fore(s, l, n) = x
  BY <1>1
<1> HIDE DEF y
<1>3. Ideal(s, l, n)[y] = Chunk(s, l, x)
  BY <1>2 DEF Ideal
<1>4. QED
  BY <1>3 DEF y

(* ... its header, its head and its junk.                                  *)
LEMMA IdealFront ==
  ASSUME NEW s, NEW l \in Link, NEW n \in Nat
  PROVE  /\ Greet(s, l) = 1 => Ideal(s, l, n)[1] = Proxy(NameOn(s, l))
         /\ Veiled(s, l) =>
              /\ Ideal(s, l, n)[Greet(s, l) + 1] = OwnHead(n)
              /\ \A i \in 1 .. n : Ideal(s, l, n)[Greet(s, l) + 1 + i] = Rubbish
<1>1. Greet(s, l) \in 0 .. 1 /\ Fore(s, l, n) \in Nat
  BY ForeType
<1>2. Greet(s, l) = 1 => Ideal(s, l, n)[1] = Proxy(NameOn(s, l))
  BY DEF Ideal
<1>3. ASSUME Veiled(s, l)
      PROVE  Ideal(s, l, n)[Greet(s, l) + 1] = OwnHead(n)
  <2>1. Fore(s, l, n) = Greet(s, l) + 1 + n
    BY <1>3, ForeType
  <2> DEFINE y == Greet(s, l) + 1
  <2>2. y \in Nat \ {0} /\ ~(y <= Greet(s, l)) /\ ~(y > Fore(s, l, n)) /\ y = Greet(s, l) + 1
    BY <1>1, <2>1
  <2> HIDE DEF y
  <2>3. Ideal(s, l, n)[y] = OwnHead(n)
    BY <2>2 DEF Ideal
  <2>4. QED
    BY <2>3 DEF y
<1>4. ASSUME Veiled(s, l), NEW i \in 1 .. n
      PROVE  Ideal(s, l, n)[Greet(s, l) + 1 + i] = Rubbish
  <2>1. Fore(s, l, n) = Greet(s, l) + 1 + n
    BY <1>4, ForeType
  <2> DEFINE y == Greet(s, l) + 1 + i
  <2>2. y \in Nat \ {0} /\ ~(y <= Greet(s, l)) /\ ~(y > Fore(s, l, n)) /\ y # Greet(s, l) + 1
    BY <1>1, <2>1
  <2> HIDE DEF y
  <2>3. Ideal(s, l, n)[y] = Rubbish
    BY <2>2 DEF Ideal
  <2>4. QED
    BY <2>3 DEF y
<1>5. QED
  BY <1>2, <1>3, <1>4

(* What a relay writes before its copy: head, junk and first chunk.        *)
LEMMA PrefixIs ==
  ASSUME NEW r, NEW j \in Nat, NEW chunk \in Seq(Thing)
  PROVE  /\ Prefix(r, j, chunk) \in Seq(Thing)
         /\ Len(Prefix(r, j, chunk)) = 1 + j + Len(chunk)
         /\ Prefix(r, j, chunk)[1] = OwnHead(j)
         /\ \A i \in 1 .. j : Prefix(r, j, chunk)[1 + i] = Rubbish
         /\ \A i \in 1 .. Len(chunk) : Prefix(r, j, chunk)[1 + j + i] = Flip(r, chunk[i])
<1> DEFINE a == <<OwnHead(j)>>
           b == [i \in 1 .. j |-> Rubbish]
           c == [i \in 1 .. Len(chunk) |-> Flip(r, chunk[i])]
<1>1. Len(chunk) \in Nat /\ \A i \in 1 .. Len(chunk) : chunk[i] \in Thing
  BY LenProperties, ElementOfSeq
<1>2. a \in Seq(Thing) /\ Len(a) = 1 /\ a[1] = OwnHead(j)
  <2>1. OwnHead(j) \in Thing
    BY ThingTypes
  <2>2. QED
    BY <2>1
<1>3. b \in Seq(Thing) /\ Len(b) = j /\ \A i \in 1 .. j : b[i] = Rubbish
  <2>1. b \in [1 .. j -> Thing]
    BY ThingTypes
  <2>2. b \in Seq(Thing) /\ Len(b) = j
    BY <2>1, SeqDef
  <2>3. QED
    BY <2>2
<1>4. c \in Seq(Thing) /\ Len(c) = Len(chunk) /\ \A i \in 1 .. Len(chunk) : c[i] = Flip(r, chunk[i])
  <2>1. \A i \in 1 .. Len(chunk) : Flip(r, chunk[i]) \in Thing
    BY <1>1, ThingTypes
  <2>2. c \in [1 .. Len(chunk) -> Thing]
    BY <2>1
  <2>3. c \in Seq(Thing) /\ Len(c) = Len(chunk)
    BY <1>1, <2>2, SeqDef
  <2>4. QED
    BY <2>3
<1>5. Prefix(r, j, chunk) = (a \o b) \o c
  BY DEF Prefix
<1> HIDE DEF a, b, c
<1>6. /\ a \o b \in Seq(Thing)
      /\ Len(a \o b) = 1 + j
      /\ \A i \in 1 .. 1 + j : (a \o b)[i] = IF i <= 1 THEN a[i] ELSE b[i - 1]
  <2>1. /\ a \o b \in Seq(Thing)
        /\ Len(a \o b) = Len(a) + Len(b)
        /\ \A i \in 1 .. Len(a) + Len(b) : (a \o b)[i] = IF i <= Len(a) THEN a[i] ELSE b[i - Len(a)]
    BY <1>2, <1>3, ConcatProperties
  <2>2. Len(a) = 1 /\ Len(b) = j
    BY <1>2, <1>3
  <2>3. QED
    BY <2>1, <2>2
<1> DEFINE d == a \o b
<1> HIDE DEF d
<1>7. d \in Seq(Thing) /\ Len(d) = 1 + j
  BY <1>6 DEF d
<1>8. d[1] = OwnHead(j) /\ \A i \in 1 .. j : d[1 + i] = Rubbish
  <2>1. d[1] = a[1]
    BY <1>6 DEF d
  <2>2. ASSUME NEW i \in 1 .. j
        PROVE  d[1 + i] = b[i]
    <3>1. 1 + i \in 1 .. 1 + j /\ ~(1 + i <= 1) /\ (1 + i) - 1 = i
      OBVIOUS
    <3>2. QED
      BY <1>6, <3>1 DEF d
  <2>3. QED
    BY <1>2, <1>3, <2>1, <2>2
<1>9. /\ d \o c \in Seq(Thing)
      /\ Len(d \o c) = 1 + j + Len(chunk)
      /\ \A i \in 1 .. 1 + j + Len(chunk) : (d \o c)[i] = IF i <= 1 + j THEN d[i] ELSE c[i - (1 + j)]
  <2>0. d \in Seq(Thing) /\ c \in Seq(Thing)
    BY <1>4, <1>7
  <2>1. /\ d \o c \in Seq(Thing)
        /\ Len(d \o c) = Len(d) + Len(c)
        /\ \A i \in 1 .. Len(d) + Len(c) : (d \o c)[i] = IF i <= Len(d) THEN d[i] ELSE c[i - Len(d)]
    BY <2>0, ConcatProperties
  <2>2. Len(d) = 1 + j /\ Len(c) = Len(chunk)
    BY <1>4, <1>7
  <2>3. QED
    BY <2>1, <2>2
<1>10. (d \o c)[1] = OwnHead(j)
  BY <1>1, <1>8, <1>9
<1>11. \A i \in 1 .. j : (d \o c)[1 + i] = Rubbish
  <2> SUFFICES ASSUME NEW i \in 1 .. j
               PROVE  (d \o c)[1 + i] = d[1 + i]
    BY <1>8
  <2>1. 1 + i \in 1 .. 1 + j + Len(chunk) /\ 1 + i <= 1 + j
    BY <1>1
  <2>2. QED
    BY <1>9, <2>1
<1>12. \A i \in 1 .. Len(chunk) : (d \o c)[1 + j + i] = Flip(r, chunk[i])
  <2> SUFFICES ASSUME NEW i \in 1 .. Len(chunk)
               PROVE  (d \o c)[1 + j + i] = c[i]
    BY <1>4
  <2>1. 1 + j + i \in 1 .. 1 + j + Len(chunk) /\ ~(1 + j + i <= 1 + j) /\ (1 + j + i) - (1 + j) = i
    BY <1>1
  <2>2. QED
    BY <1>9, <2>1
<1>13. QED
  BY <1>5, <1>9, <1>10, <1>11, <1>12 DEF d

-----------------------------------------------------------------------------
(* Types.                                                                  *)
LEMMA TypeInit == Init => TypeOK
<1> SUFFICES ASSUME Init
             PROVE  TypeOK
  OBVIOUS
<1>1. <<>> \in Seq(Thing)
  BY EmptySeq
<1>2. link \in [Link -> Seq(Thing)] /\ got \in [Party -> Seq(Thing)]
  BY <1>1 DEF Init, Link
<1>3. pc \in [Relay -> Label] /\ name \in [Relay -> {"client", "A", "origin"}]
  BY DEF Init, Label
<1>4. done \in [Relay -> SUBSET Dir] /\ report \in [Relay -> {"none", "success", "failure"}]
  BY DEF Init
<1>5. QED
  BY <1>2, <1>3, <1>4 DEF Init, TypeOK

(* Whatever is taken from or put on a link, it carries things.             *)
LEMMA SeqTypes ==
  ASSUME NEW q \in Seq(Thing)
  PROVE  /\ \A x \in Thing : Append(q, x) \in Seq(Thing)
         /\ q # <<>> => Tail(q) \in Seq(Thing) /\ Head(q) \in Thing
         /\ \A u \in Seq(Thing) : q \o u \in Seq(Thing)
         /\ \A k \in Nat : SubSeq(q, k + 1, Len(q)) \in Seq(Thing)
         /\ \A k \in 0 .. Len(q) : SubSeq(q, 1, k) \in Seq(Thing) /\ Len(SubSeq(q, 1, k)) = k
         /\ \A k \in 0 .. Len(q) : \A i \in 1 .. k : SubSeq(q, 1, k)[i] = q[i]
<1>1. Len(q) \in Nat /\ \A i \in 1 .. Len(q) : q[i] \in Thing
  BY LenProperties, ElementOfSeq
<1>2. \A x \in Thing : Append(q, x) \in Seq(Thing)
  BY AppendProperties
<1>3. q # <<>> => Tail(q) \in Seq(Thing) /\ Head(q) \in Thing
  BY HeadTailProperties
<1>4. \A u \in Seq(Thing) : q \o u \in Seq(Thing)
  BY ConcatProperties
<1>5. ASSUME NEW k \in Nat
      PROVE  SubSeq(q, k + 1, Len(q)) \in Seq(Thing)
  <2>1. \A i \in k + 1 .. Len(q) : q[i] \in Thing
    BY <1>1
  <2>2. QED
    BY <1>1, <2>1, SubSeqProperties
<1>6. ASSUME NEW k \in 0 .. Len(q)
      PROVE  /\ SubSeq(q, 1, k) \in Seq(Thing) /\ Len(SubSeq(q, 1, k)) = k
             /\ \A i \in 1 .. k : SubSeq(q, 1, k)[i] = q[i]
  <2>1. k \in Int /\ \A i \in 1 .. k : q[i] \in Thing
    BY <1>1
  <2>2. /\ SubSeq(q, 1, k) \in Seq(Thing)
        /\ Len(SubSeq(q, 1, k)) = IF 1 <= k THEN k - 1 + 1 ELSE 0
        /\ \A i \in 1 .. k - 1 + 1 : SubSeq(q, 1, k)[i] = q[1 + i - 1]
    BY <2>1, SubSeqProperties
  <2>3. k - 1 + 1 = k /\ \A i \in 1 .. k : 1 + i - 1 = i
    BY <2>1
  <2>4. QED
    BY <1>1, <2>2, <2>3
<1>7. QED
  BY <1>2, <1>3, <1>4, <1>5, <1>6

LEMMA LinkTypes ==
  ASSUME TypeOK, Next
  PROVE  link' \in [Link -> Seq(Thing)]
<1>1. /\ link \in [Link -> Seq(Thing)]
      /\ \A l \in Link : link[l] \in Seq(Thing)
  BY DEF TypeOK
<1>2. \A r \in Relay : name[r] \in {"nobody", "client", "A", "origin"}
  BY DEF TypeOK
<1>3. ASSUME NEW r \in Relay, NEW label, NEW verdict, Drop(r, label, verdict)
      PROVE  link' \in [Link -> Seq(Thing)]
  <2>1. PICK hard \in SUBSET {To(r, d) : d \in Dir} :
          link' = [l \in DOMAIN link |->
                     IF l \in hard THEN <<Rst>>
                     ELSE IF l \in {To(r, d) : d \in Dir \ done[r]} THEN Append(link[l], Eof)
                     ELSE link[l]]
    BY <1>3 DEF Drop
  <2>2. <<Rst>> \in Seq(Thing) /\ \A l \in Link : Append(link[l], Eof) \in Seq(Thing)
    BY <1>1, Terminators, SeqTypes
  <2>3. DOMAIN link = Link
    BY <1>1
  <2>4. QED
    BY <1>1, <2>1, <2>2, <2>3
<1>4. ASSUME NEW r \in Relay, NoProxy(r)
      PROVE  link' \in [Link -> Seq(Thing)]
  BY <1>1, <1>4 DEF NoProxy
<1>5. ASSUME NEW r \in Relay, Peek(r)
      PROVE  link' \in [Link -> Seq(Thing)]
  <2>1. From(r, "up") \in Link /\ link[From(r, "up")] # <<>>
    BY <1>5, FromWires DEF Peek, Dir
  <2>2. Tail(link[From(r, "up")]) \in Seq(Thing)
    BY <1>1, <2>1, SeqTypes
  <2>3. QED
    BY <1>1, <1>5, <2>2 DEF Peek
<1>6. ASSUME NEW r \in Relay, SendProxy(r)
      PROVE  link' \in [Link -> Seq(Thing)]
  <2>1. To(r, "up") \in Link /\ Proxy(name[r]) \in Thing
    BY <1>2, FromWires, ThingTypes DEF Dir
  <2>2. Append(link[To(r, "up")], Proxy(name[r])) \in Seq(Thing)
    BY <1>1, <2>1, SeqTypes
  <2>3. QED
    BY <1>1, <1>6, <2>2 DEF SendProxy
<1>7. ASSUME NEW r \in Relay, FirstChunk(r)
      PROVE  link' \in [Link -> Seq(Thing)]
  <2> DEFINE f == From(r, Source(r))
             g == To(r, Source(r))
  <2>1. f \in Link /\ g \in Link
    BY FromWires DEF Source, Dir
  <2>2. PICK k \in 0 .. Len(link[f]), j \in Junk : \E rest \in Unread(link[f], k) :
          link' = [link EXCEPT ![f] = rest, ![g] = @ \o Prefix(r, j, SubSeq(link[f], 1, k))]
    BY <1>7 DEF FirstChunk
  <2>3. PICK rest \in Unread(link[f], k) :
          link' = [link EXCEPT ![f] = rest, ![g] = @ \o Prefix(r, j, SubSeq(link[f], 1, k))]
    BY <2>2
  <2> HIDE DEF f, g
  <2>4. link[f] \in Seq(Thing) /\ link[g] \in Seq(Thing) /\ Len(link[f]) \in Nat /\ j \in Nat
    BY <1>1, <2>1, LenProperties, BoundsAssumption
  <2>5. SubSeq(link[f], 1, k) \in Seq(Thing) /\ SubSeq(link[f], k + 1, Len(link[f])) \in Seq(Thing)
    BY <2>4, SeqTypes
  <2>6. Prefix(r, j, SubSeq(link[f], 1, k)) \in Seq(Thing)
    BY <2>4, <2>5, PrefixIs
  <2>7. rest \in Seq(Thing)
    <3>1. <<Eof>> \in Seq(Thing)
      BY Terminators
    <3>2. rest = SubSeq(link[f], k + 1, Len(link[f])) \/ rest = <<Eof>>
      BY DEF Unread
    <3>3. QED
      BY <2>5, <3>1, <3>2
  <2>8. link[g] \o Prefix(r, j, SubSeq(link[f], 1, k)) \in Seq(Thing)
    BY <2>4, <2>6, SeqTypes
  <2>9. f # g
    BY FromWires DEF f, g, Source, Dir
  <2>10. QED
    BY <1>1, <2>1, <2>3, <2>7, <2>8, <2>9
<1>8. ASSUME NEW r \in Relay, Consume(r)
      PROVE  link' \in [Link -> Seq(Thing)]
  <2> DEFINE f == From(r, Partner(r))
  <2>1. f \in Link
    BY FromWires DEF Partner, Dir
  <2>2. link' = [link EXCEPT ![f] = SubSeq(link[f], 2 + JunkBehind(Head(link[f])), Len(link[f]))]
    BY <1>8 DEF Consume
  <2>3. link[f] # <<>>
    BY <1>8 DEF Consume
  <2> HIDE DEF f
  <2>4. link[f] \in Seq(Thing) /\ Head(link[f]) \in Thing
    BY <1>1, <2>1, <2>3, SeqTypes
  <2>5. JunkBehind(Head(link[f])) \in Nat
    BY <2>4 DEF JunkBehind, Thing
  <2> DEFINE k == 1 + JunkBehind(Head(link[f]))
  <2>6. k \in Nat /\ 2 + JunkBehind(Head(link[f])) = k + 1
    BY <2>5
  <2> HIDE DEF k
  <2>7. SubSeq(link[f], k + 1, Len(link[f])) \in Seq(Thing)
    BY <2>4, <2>6, SeqTypes
  <2>8. QED
    BY <1>1, <2>1, <2>2, <2>6, <2>7
<1>9. ASSUME NEW r \in Relay, Probed(r)
      PROVE  link' \in [Link -> Seq(Thing)]
  <2> DEFINE f == From(r, Partner(r))
  <2>1. f \in Link
    BY FromWires DEF Partner, Dir
  <2>2. link' = [link EXCEPT ![f] = Tail(link[f])] /\ link[f] # <<>>
    BY <1>9 DEF Probed
  <2> HIDE DEF f
  <2>3. Tail(link[f]) \in Seq(Thing)
    BY <1>1, <2>1, <2>2, SeqTypes
  <2>4. QED
    BY <1>1, <2>1, <2>2, <2>3
<1>10. ASSUME NEW r \in Relay, NEW d \in Dir, Copy(r, d) \/ CopyEnds(r, d)
       PROVE  link' \in [Link -> Seq(Thing)]
  <2> DEFINE f == From(r, d)
             g == To(r, d)
  <2>1. f \in Link /\ g \in Link /\ f # g
    BY FromWires
  <2>2. link[f] # <<>> /\ \E x \in {Copied(r, Head(link[f])), Eof} :
          link' = [link EXCEPT ![f] = Tail(link[f]), ![g] = Append(@, x)]
    BY <1>10 DEF Copy, CopyEnds
  <2> HIDE DEF f, g
  <2>3. /\ Tail(link[f]) \in Seq(Thing) /\ Head(link[f]) \in Thing
        /\ Copied(r, Head(link[f])) \in Thing
    BY <1>1, <2>1, <2>2, SeqTypes, ThingTypes DEF Copied
  <2>4. PICK x \in Thing : link' = [link EXCEPT ![f] = Tail(link[f]), ![g] = Append(@, x)]
    BY <2>2, <2>3, Terminators
  <2>5. Append(link[g], x) \in Seq(Thing)
    BY <1>1, <2>1, SeqTypes
  <2>6. QED
    BY <1>1, <2>1, <2>3, <2>4, <2>5
<1>11. ASSUME NEW p \in Party, Say(p) \/ Shut(p) \/ Vanish(p)
       PROVE  link' \in [Link -> Seq(Thing)]
  <2>1. Out(p) \in Link /\ sent[p] + 1 \in Nat
    BY PartyWires DEF TypeOK
  <2>2. Data(sent[p] + 1) \in Thing
    BY <2>1, ThingTypes
  <2>3. /\ Append(link[Out(p)], Data(sent[p] + 1)) \in Seq(Thing)
        /\ Append(link[Out(p)], Eof) \in Seq(Thing)
        /\ <<Rst>> \in Seq(Thing)
    BY <1>1, <2>1, <2>2, SeqTypes, Terminators
  <2>4. QED
    BY <1>1, <1>11, <2>1, <2>3 DEF Say, Shut, Vanish
<1>12. ASSUME NEW p \in Party, Get(p)
       PROVE  link' \in [Link -> Seq(Thing)]
  <2>1. In(p) \in Link /\ link[In(p)] # <<>>
    BY <1>12, PartyWires DEF Get
  <2>2. Tail(link[In(p)]) \in Seq(Thing)
    BY <1>1, <2>1, SeqTypes
  <2>3. QED
    BY <1>1, <1>12, <2>1, <2>2 DEF Get
<1>13. CASE Lead
  <2>1. <<Proxy(IF setup.lead = "tcp" THEN "origin" ELSE "nobody")>> \in Seq(Thing)
    <3>1. Proxy("origin") \in Thing /\ Proxy("nobody") \in Thing
      BY ThingTypes
    <3>2. <<Proxy("origin")>> \in Seq(Thing) /\ <<Proxy("nobody")>> \in Seq(Thing)
      BY <3>1, Single
    <3>3. QED
      BY <3>2
  <2>2. QED
    BY <1>1, <1>13, <2>1 DEF Lead
<1>14. QED
  BY <1>3, <1>4, <1>5, <1>6, <1>7, <1>8, <1>9, <1>10, <1>11, <1>12, <1>13
     DEF Next, Step, PeekFails, ConsumeFails, CopyFails, WriteFails, Finish, Deadline, Refuse, Break

LEMMA TypeStep == TypeOK /\ [Next]_vars => TypeOK'
<1> SUFFICES ASSUME TypeOK, [Next]_vars
             PROVE  TypeOK'
  OBVIOUS
<1>1. CASE UNCHANGED vars
  BY <1>1 DEF vars, relays, parties, TypeOK
<1>2. CASE Next
  <2>1. link' \in [Link -> Seq(Thing)]
    BY <1>2, LinkTypes
  <2>2. ASSUME NEW r \in Relay, NEW label \in {"done", "failed"},
               NEW verdict \in {"none", "success", "failure"}, Drop(r, label, verdict)
        PROVE  TypeOK'
    BY <2>1, <2>2 DEF Drop, GoTo, TypeOK, Label, parties
  <2>3. ASSUME NEW r \in Relay, NoProxy(r) \/ SendProxy(r)
        PROVE  TypeOK'
    BY <2>1, <2>3 DEF NoProxy, SendProxy, GoTo, Start, TypeOK, Label, parties
  <2>4. ASSUME NEW r \in Relay, Peek(r)
        PROVE  TypeOK'
    <3>1. From(r, "up") \in Link /\ link[From(r, "up")] # <<>>
      BY <2>4, FromWires DEF Peek, Dir
    <3>2. Head(link[From(r, "up")]) \in Thing
      BY <3>1, SeqTypes DEF TypeOK
    <3>3. Named(Head(link[From(r, "up")]), r) \in {"client", "A", "origin"}
      BY <3>2 DEF Named, Thing, TypeOK
    <3>4. QED
      BY <2>1, <2>4, <3>3 DEF Peek, GoTo, Start, TypeOK, Label, parties
  <2>5. ASSUME NEW r \in Relay, FirstChunk(r)
        PROVE  TypeOK'
    <3>1. heard' \in [Relay -> BOOLEAN]
      <4>1. \E h \in BOOLEAN : heard' = [heard EXCEPT ![r] = h]
        BY <2>5 DEF FirstChunk, TypeOK
      <4>2. QED
        BY <4>1 DEF TypeOK
    <3>2. QED
      BY <2>1, <2>5, <3>1 DEF FirstChunk, GoTo, AfterFirst, TypeOK, Label, parties
  <2>6. ASSUME NEW r \in Relay, Consume(r) \/ Probed(r)
        PROVE  TypeOK'
    <3>1. heard' \in [Relay -> BOOLEAN]
      BY <2>6 DEF Consume, Probed, Hear, TypeOK
    <3>2. QED
      BY <2>1, <2>6, <3>1 DEF Consume, Probed, GoTo, AfterConsume, TypeOK, Label, parties
  <2>7. ASSUME NEW r \in Relay, NEW d \in Dir, Copy(r, d)
        PROVE  TypeOK'
    BY <2>1, <2>7 DEF Copy, Hear, TypeOK, parties
  <2>8. ASSUME NEW r \in Relay, NEW d \in Dir, CopyEnds(r, d)
        PROVE  TypeOK'
    BY <2>1, <2>8 DEF CopyEnds, TypeOK, parties
  <2>9. ASSUME NEW p \in Party, Say(p) \/ Shut(p) \/ Vanish(p)
        PROVE  TypeOK'
    <3>1. CASE Say(p)
      <4>1. sent' \in [Party -> Nat]
        BY <3>1 DEF Say, TypeOK
      <4>2. QED
        BY <2>1, <3>1, <4>1 DEF Say, TypeOK, relays
    <3>2. CASE Shut(p)
      BY <2>1, <3>2 DEF Shut, TypeOK, relays
    <3>3. CASE Vanish(p)
      BY <2>1, <3>3 DEF Vanish, TypeOK, relays
    <3>4. QED
      BY <2>9, <3>1, <3>2, <3>3
  <2>10. ASSUME NEW p \in Party, Get(p)
        PROVE  TypeOK'
    <3>1. In(p) \in Link /\ link[In(p)] # <<>>
      BY <2>10, PartyWires DEF Get
    <3>2. Head(link[In(p)]) \in Thing
      BY <3>1, SeqTypes DEF TypeOK
    <3>3. got[p] \in Seq(Thing)
      BY DEF TypeOK
    <3>4. Append(got[p], Head(link[In(p)])) \in Seq(Thing)
      BY <3>2, <3>3, SeqTypes
    <3>5. QED
      BY <2>1, <2>10, <3>4 DEF Get, TypeOK, relays
  <2>11. CASE Lead
    BY <2>1, <2>11 DEF Lead, TypeOK, relays, parties
  <2>12. QED
    BY <1>2, <2>2, <2>3, <2>4, <2>5, <2>6, <2>7, <2>8, <2>9, <2>10, <2>11
       DEF Next, Step, PeekFails, ConsumeFails, CopyFails, WriteFails, Finish, Verdict,
           Deadline, Refuse, Break
<1>3. QED
  BY <1>1, <1>2
-----------------------------------------------------------------------------
(* The configuration of relays that agree.                                 *)
LEMMA Wires ==
  /\ From("A", "up") = "CA" /\ To("A", "up") = "AB" /\ From("A", "down") = "BA" /\ To("A", "down") = "AC"
  /\ From("B", "up") = "AB" /\ To("B", "up") = "BS" /\ From("B", "down") = "SB" /\ To("B", "down") = "BA"
  /\ Out("C") = "CA" /\ Out("S") = "SB" /\ In("C") = "AC" /\ In("S") = "BS"
BY DEF From, To, Out, In

LEMMA SetupType ==
  ASSUME TypeOK
  PROVE  /\ \A r \in Relay : setup.mode[r] \in 0 .. 2 /\ setup.accept[r] \in BOOLEAN /\ setup.send[r] \in BOOLEAN
         /\ setup.lead \in {"none", "tcp", "other"}
BY SetupsAssumption DEF TypeOK

LEMMA GreetConfig ==
  ASSUME TypeOK, Agreed
  PROVE  \A r \in Relay :
           /\ Greet(setup, From(r, "up")) = IF setup.accept[r] THEN 1 ELSE 0
           /\ Greet(setup, To(r, "up")) = IF setup.send[r] THEN 1 ELSE 0
           /\ Greet(setup, From(r, "down")) = 0 /\ Greet(setup, To(r, "down")) = 0
BY Wires, SetupType DEF Agreed, Relay, Greet, Greeted

LEMMA ModeConfig ==
  ASSUME TypeOK, Agreed
  PROVE  /\ Equal(setup) = Matched
         /\ Equal(setup) => setup.mode["A"] \in {0, 1} /\ setup.mode["B"] \in {0, 2}
         /\ Equal(setup) => (setup.mode["A"] = 0 <=> setup.mode["B"] = 0)
         /\ ~Equal(setup) => setup.mode["A"] = 0 /\ setup.mode["B"] = 2
BY SetupType DEF Agreed, Matched, Equal, Relay

LEMMA VeilConfig ==
  ASSUME TypeOK, Agreed, NEW r \in Relay
  PROVE  /\ setup.mode[r] = 0 \/ ~Equal(setup) =>
              \A d \in Dir : ~Veiled(setup, From(r, d)) /\ ~Veiled(setup, To(r, d))
         /\ setup.mode[r] # 0 /\ Equal(setup) =>
              /\ Veiled(setup, To(r, Source(r))) /\ ~Veiled(setup, From(r, Source(r)))
              /\ Veiled(setup, From(r, Partner(r))) /\ ~Veiled(setup, To(r, Partner(r)))
<1>1. CASE r = "A"
  BY <1>1, Wires, ModeConfig, SetupType DEF Veiled, Source, Partner, Dir, Relay
<1>2. CASE r = "B"
  BY <1>2, Wires, ModeConfig, SetupType DEF Veiled, Source, Partner, Dir, Relay
<1>3. QED
  BY <1>1, <1>2 DEF Relay

(* The nth chunk, enciphered or not.                                       *)
Coded(n, b) == [kind |-> "data", n |-> n, of |-> "nobody", enc |-> b]

LEMMA SameThing ==
  ASSUME NEW x \in Thing, NEW y \in Thing,
         x.kind = y.kind, x.n = y.n, x.of = y.of, x.enc = y.enc
  PROVE  x = y
BY DEF Thing

LEMMA CodedOver ==
  ASSUME NEW n \in Nat, NEW b \in BOOLEAN, NEW c \in BOOLEAN
  PROVE  [Coded(n, b) EXCEPT !.enc = c] = Coded(n, c)
<1> DEFINE x == [Coded(n, b) EXCEPT !.enc = c]
<1>1. x \in Thing /\ Coded(n, c) \in Thing
  BY DEF Coded, Thing
<1>2. x.kind = Coded(n, c).kind /\ x.n = Coded(n, c).n /\ x.of = Coded(n, c).of
  BY DEF Coded
<1>3. x.enc = Coded(n, c).enc
  BY DEF Coded
<1> HIDE DEF x
<1>4. x = Coded(n, c)
  BY <1>1, <1>2, <1>3, SameThing
<1>5. QED
  BY <1>4 DEF x

LEMMA ChunkIs ==
  ASSUME NEW s, NEW l, NEW n \in Nat, NEW b \in BOOLEAN, b <=> Veiled(s, l)
  PROVE  Chunk(s, l, n) = Coded(n, b)
<1>1. Veiled(s, l) = b
  BY DEF Veiled
<1>2. Data(n) = Coded(n, FALSE)
  BY DEF Data, Item, Coded
<1>3. Chunk(s, l, n) = [Coded(n, FALSE) EXCEPT !.enc = b]
  BY <1>1, <1>2, Zenon DEF Chunk
<1>4. QED
  BY <1>3, CodedOver

(* Obfuscating or not, a relay makes of a chunk what is due on its other   *)
(* side, unless it takes a neighbour for a probe.                          *)
LEMMA FlipChunk ==
  ASSUME TypeOK, Agreed, NEW r \in Relay, NEW d \in Dir, NEW x \in Nat,
         Equal(setup) \/ r = "A"
  PROVE  Flip(r, Chunk(setup, From(r, d), x)) = Chunk(setup, To(r, d), x)
<1>1. PICK b \in BOOLEAN, c \in BOOLEAN : (b <=> Veiled(setup, From(r, d))) /\ (c <=> Veiled(setup, To(r, d)))
  OBVIOUS
<1>2. Chunk(setup, From(r, d), x) = Coded(x, b) /\ Chunk(setup, To(r, d), x) = Coded(x, c)
  BY <1>1, ChunkIs
<1>3. CASE setup.mode[r] = 0
  <2>1. Veiled(setup, From(r, d)) <=> Veiled(setup, To(r, d))
    BY <1>3, VeilConfig
  <2>2. b = c
    BY <1>1, <2>1
  <2>3. QED
    BY <1>2, <1>3, <2>2 DEF Flip
<1>4. CASE setup.mode[r] # 0
  <2>1. Equal(setup)
    BY <1>4, ModeConfig
  <2>2. d = Source(r) \/ d = Partner(r)
    BY DEF Source, Partner, Dir
  <2>3. Veiled(setup, To(r, d)) <=> ~Veiled(setup, From(r, d))
    BY <1>4, <2>1, <2>2, VeilConfig
  <2>4. c = ~b
    BY <1>1, <2>3
  <2>5. Flip(r, Coded(x, b)) = [Coded(x, b) EXCEPT !.enc = c]
    BY <1>4, <2>4 DEF Flip, Coded
  <2>6. QED
    BY <1>2, <2>5, CodedOver
<1>5. QED
  BY <1>3, <1>4

(* What an ideal link holds behind its header.                             *)
LEMMA ForeIs ==
  ASSUME TypeOK, NEW l \in Link, NEW n \in Nat
  PROVE  /\ Greet(setup, l) \in Nat /\ Greet(setup, l) <= 1 /\ Fore(setup, l, n) \in Nat
         /\ Greet(setup, l) <= Fore(setup, l, n)
         /\ ~Veiled(setup, l) => Fore(setup, l, n) = Greet(setup, l)
         /\ Veiled(setup, l) => Fore(setup, l, n) = Greet(setup, l) + 1 + n
BY ForeType

-----------------------------------------------------------------------------
(* What a step leaves alone.                                               *)
Later == /\ \A p \in Party : shut[p] => shut'[p]
         /\ \A r \in Relay : /\ pc[r] \in {"done", "failed"} => pc'[r] = pc[r]
                             /\ done[r] \subseteq done'[r]
         /\ reset => reset'
         /\ setup' = setup

LEMMA OpenLater ==
  ASSUME Later, NEW l \in Link
  PROVE  /\ Unheeded(l, pc) => Unheeded(l, pc')
         /\ Open(l, shut', pc', done') => Open(l, shut, pc, done)
BY DEF Later, Open, Unheeded, Relay

LEMMA LinkKept ==
  ASSUME Later, NEW rd, NEW wr, NEW junk, Good(rd, wr, junk),
         NEW rd2, NEW wr2, NEW junk2, NEW l \in Link,
         link'[l] = link[l], rd2[l] = rd[l], wr2[l] = wr[l], junk2[l] = junk[l],
         ~Unheeded(l, pc')
  PROVE  Holds(link'[l], Ideal(setup, l, junk2[l]), rd2[l], wr2[l], Open(l, shut', pc', done'), reset')
<1>1. ~Unheeded(l, pc) /\ (Open(l, shut', pc', done') => Open(l, shut, pc, done))
  BY OpenLater
<1>2. Holds(link[l], Ideal(setup, l, junk[l]), rd[l], wr[l], Open(l, shut, pc, done), reset)
  BY <1>1 DEF Good
<1>3. reset => reset'
  BY DEF Later
<1>4. Holds(link[l], Ideal(setup, l, junk[l]), rd[l], wr[l], Open(l, shut', pc', done'), reset')
  BY <1>1, <1>2, <1>3, Weaken
<1>5. QED
  BY <1>4

LEMMA MovingKept ==
  ASSUME NEW s, NEW r, NEW d, NEW rd, NEW wr, NEW junk, NEW rd2, NEW wr2, NEW junk2,
         Moving(s, r, d, rd, wr, junk),
         rd2[From(r, d)] = rd[From(r, d)], wr2[To(r, d)] = wr[To(r, d)],
         junk2[From(r, d)] = junk[From(r, d)], junk2[To(r, d)] = junk[To(r, d)]
  PROVE  Moving(s, r, d, rd2, wr2, junk2)
BY DEF Moving

LEMMA PlacedKept ==
  ASSUME NEW s, NEW r, NEW at, NEW over, NEW known,
         NEW rd, NEW wr, NEW junk, NEW rd2, NEW wr2, NEW junk2,
         Placed(s, r, at, over, known, rd, wr, junk),
         \A d \in Dir : /\ rd2[From(r, d)] = rd[From(r, d)] /\ wr2[To(r, d)] = wr[To(r, d)]
                        /\ Moving(s, r, d, rd, wr, junk) => Moving(s, r, d, rd2, wr2, junk2)
  PROVE  Placed(s, r, at, over, known, rd2, wr2, junk2)
<1>1. "up" \in Dir /\ "down" \in Dir
  BY DEF Dir
<1>2. \A d \in Dir : Waiting(s, r, d, rd, wr) => Waiting(s, r, d, rd2, wr2)
  BY DEF Waiting
<1>3. QED
  BY <1>1, <1>2 DEF Placed

LEMMA ExcusedKept ==
  ASSUME NEW s, NEW r \in Relay, NEW at, NEW hears, NEW blame, NEW rst, NEW rst2,
         NEW said \in [Party -> Nat], NEW said2 \in [Party -> Nat],
         NEW wr \in [Link -> Nat], NEW junk \in [Link -> Nat], NEW wr2, NEW junk2,
         Excused(s, r, at, hears, blame, rst, said, wr, junk),
         rst => rst2, \A p \in Party : said[p] <= said2[p],
         \A d \in Dir : wr2[To(r, d)] = wr[To(r, d)] /\ junk2[To(r, d)] = junk[To(r, d)]
  PROVE  Excused(s, r, at, hears, blame, rst2, said2, wr2, junk2)
<1>1. "down" \in Dir
  BY DEF Dir
<1>2. Mute(s, r, wr, junk) => Mute(s, r, wr2, junk2)
  BY <1>1 DEF Mute
<1>3. ASSUME NEW d \in Dir, Short(s, r, d, said, wr, junk)
      PROVE  Short(s, r, d, said2, wr2, junk2)
  <2>1. To(r, d) \in Link /\ Sender(d) \in Party
    BY FromWires DEF Sender, Party
  <2>2. Fore(s, To(r, d), junk[To(r, d)]) \in Nat
    BY <2>1, ForeType
  <2>3. said[Sender(d)] \in Nat /\ said2[Sender(d)] \in Nat /\ said[Sender(d)] <= said2[Sender(d)]
    BY <2>1
  <2>4. wr[To(r, d)] \in Nat
    BY <2>1
  <2>5. QED
    BY <1>3, <2>2, <2>3, <2>4 DEF Short
<1>4. QED
  BY <1>2, <1>3 DEF Excused

LEMMA GottenKept ==
  ASSUME NEW s, NEW l, NEW g, NEW rd, NEW junk, NEW rd2, NEW junk2,
         Gotten(s, l, g, rd, junk), rd2[l] = rd[l], junk2[l] = junk[l]
  PROVE  Gotten(s, l, g, rd2, junk2)
BY DEF Gotten

(* The invariant of the next state, from its parts.                        *)
LEMMA GoodNext ==
  ASSUME setup' = setup, NEW rd, NEW wr, NEW junk,
         \A l \in Link : ~Unheeded(l, pc') =>
           Holds(link'[l], Ideal(setup, l, junk[l]), rd[l], wr[l], Open(l, shut', pc', done'), reset'),
         \A r \in Relay : Placed(setup, r, pc'[r], done'[r], name'[r], rd, wr, junk),
         \A r \in Relay : Excused(setup, r, pc'[r], heard'[r], report'[r], reset', sent', wr, junk),
         \A l \in Link : Whole(setup, l, wr, junk),
         Clash(setup, pc', wr),
         Supply(setup, pc', shut', sent', wr, junk),
         Behind(setup, "BS", "AB", wr, junk), Behind(setup, "AC", "BA", wr, junk),
         \A p \in Party : Gotten(setup, In(p), got'[p], rd, junk)
  PROVE  Good(rd, wr, junk)'
BY DEF Good

Kept == \E rd, wr, junk \in [Link -> Nat] : Good(rd, wr, junk)'

-----------------------------------------------------------------------------
(* The PROXY header.                                                       *)
LEMMA Begin ==
  ASSUME TypeOK, Agreed, NEW r \in Relay, NEW known,
         NEW rd \in [Link -> Nat], NEW wr \in [Link -> Nat], NEW junk \in [Link -> Nat],
         Waiting(setup, r, "up", rd, wr), Waiting(setup, r, "down", rd, wr)
  PROVE  Placed(setup, r, Start(r), {}, known, rd, wr, junk)
<1>1. setup.mode[r] \in 0 .. 2
  BY SetupType
<1>2. CASE setup.mode[r] = 0
  <2>1. ASSUME NEW d \in Dir
        PROVE  Moving(setup, r, d, rd, wr, junk)
    <3>1. From(r, d) \in Link /\ To(r, d) \in Link
      BY FromWires
    <3>2. ~Veiled(setup, From(r, d)) /\ ~Veiled(setup, To(r, d))
      BY <1>2, VeilConfig
    <3>3. /\ Fore(setup, From(r, d), junk[From(r, d)]) = Greet(setup, From(r, d))
          /\ Fore(setup, To(r, d), junk[To(r, d)]) = Greet(setup, To(r, d))
          /\ Greet(setup, From(r, d)) \in Nat /\ Greet(setup, To(r, d)) \in Nat
      BY <3>1, <3>2, ForeIs
    <3>4. Waiting(setup, r, d, rd, wr)
      BY DEF Dir
    <3>5. QED
      BY <3>3, <3>4 DEF Waiting, Moving
  <2>2. Start(r) = "copy"
    BY <1>2 DEF Start
  <2>3. QED
    BY <2>1, <2>2 DEF Placed
<1>3. CASE setup.mode[r] = 1
  BY <1>3 DEF Start, Placed
<1>4. CASE setup.mode[r] = 2
  BY <1>4 DEF Start, Placed
<1>5. QED
  BY <1>1, <1>2, <1>3, <1>4

LEMMA EnterPlaced ==
  ASSUME TypeOK, Agreed, NEW r \in Relay,
         NEW rd \in [Link -> Nat], NEW wr \in [Link -> Nat], NEW junk \in [Link -> Nat],
         rd[From(r, "up")] = Greet(setup, From(r, "up")), wr[To(r, "up")] = 0,
         Waiting(setup, r, "down", rd, wr)
  PROVE  Placed(setup, r, IF setup.send[r] THEN "send" ELSE Start(r), {},
                NameOn(setup, To(r, "up")), rd, wr, junk)
<1>1. CASE setup.send[r]
  BY <1>1 DEF Placed
<1>2. CASE ~setup.send[r]
  <2>1. Greet(setup, To(r, "up")) = 0
    BY <1>2, GreetConfig
  <2>2. Waiting(setup, r, "up", rd, wr)
    BY <2>1 DEF Waiting
  <2>3. QED
    BY <1>2, <2>2, Begin
<1>3. QED
  BY <1>1, <1>2

(* A relay that goes on to its first place behind the header leaves        *)
(* whatever was said of it before.                                         *)
LEMMA ExcusedOn ==
  ASSUME NEW s, NEW r, NEW at, NEW at2, NEW hears, NEW blame, NEW rst, NEW said, NEW wr, NEW junk,
         Excused(s, r, at, hears, blame, rst, said, wr, junk),
         at \notin {"done", "failed"}, at2 # "probed"
  PROVE  Excused(s, r, at2, hears, blame, rst, said, wr, junk)
BY DEF Excused

LEMMA ClashOn ==
  ASSUME TypeOK, Agreed, NEW wr, Clash(setup, pc, wr), NEW r \in Relay, NEW at,
         pc' = [pc EXCEPT ![r] = at], at # "probed",
         Equal(setup) \/ r = "A" \/ at \in {"proxy", "send", "consume", "failed"}
  PROVE  Clash(setup, pc', wr)
BY DEF Clash, TypeOK, Relay

LEMMA Entered ==
  ASSUME TypeOK, Agreed, NEW r \in Relay,
         NEW rd \in [Link -> Nat], NEW wr \in [Link -> Nat], NEW junk \in [Link -> Nat],
         Good(rd, wr, junk), pc[r] = "proxy",
         GoTo(r, IF setup.send[r] THEN "send" ELSE Start(r)),
         UNCHANGED <<setup, done, heard, report, parties, reset>>,
         name'[r] = NameOn(setup, To(r, "up")), \A q \in Relay : q # r => name'[q] = name[q],
         NEW rd2 \in [Link -> Nat], rd2[From(r, "up")] = Greet(setup, From(r, "up")),
         \A l \in Link : l # From(r, "up") => rd2[l] = rd[l] /\ link'[l] = link[l],
         Holds(link'[From(r, "up")], Ideal(setup, From(r, "up"), junk[From(r, "up")]),
               rd2[From(r, "up")], wr[From(r, "up")],
               Open(From(r, "up"), shut, pc, done), reset)
  PROVE  Good(rd2, wr, junk)'
<1> DEFINE at == IF setup.send[r] THEN "send" ELSE Start(r)
<1>1. /\ pc' = [pc EXCEPT ![r] = at] /\ pc'[r] = at /\ \A q \in Relay : q # r => pc'[q] = pc[q]
      /\ UNCHANGED <<setup, done, heard, report, sent, shut, got, ended, reset>>
  BY DEF GoTo, TypeOK, parties
<1>2. at \in {"send", "first", "consume", "copy"}
  BY DEF Start
<1>3. at = "first" => setup.mode[r] = 1
  BY DEF Start
<1>4. at = "copy" => setup.mode[r] \notin {1, 2}
  BY DEF Start
<1> HIDE DEF at
<1>5. Later
  BY <1>1 DEF Later
<1>6. "up" \in Dir /\ "down" \in Dir
  BY DEF Dir
<1>7. ASSUME NEW l \in Link, ~Unheeded(l, pc')
      PROVE  Holds(link'[l], Ideal(setup, l, junk[l]), rd2[l], wr[l], Open(l, shut', pc', done'), reset')
  <2>1. CASE l = From(r, "up")
    <3>1. Open(l, shut', pc', done') => Open(l, shut, pc, done)
      BY <1>5, OpenLater
    <3>2. QED
      BY <1>1, <2>1, <3>1, Weaken
  <2>2. CASE l # From(r, "up")
    BY <1>5, <1>7, <2>2, LinkKept
  <2>3. QED
    BY <2>1, <2>2
<1>8. ASSUME NEW q \in Relay
      PROVE  Placed(setup, q, pc'[q], done'[q], name'[q], rd2, wr, junk)
  <2>1. Placed(setup, q, pc[q], done[q], name[q], rd, wr, junk)
    BY DEF Good
  <2>2. CASE q = r
    <3>1. wr[To(r, "up")] = 0 /\ done[r] = {} /\ Waiting(setup, r, "down", rd, wr)
      BY <2>1, <2>2 DEF Placed
    <3>2. From(r, "down") # From(r, "up") /\ From(r, "down") \in Link
      BY <1>6, FromWires
    <3>3. Waiting(setup, r, "down", rd2, wr)
      BY <3>1, <3>2 DEF Waiting
    <3>4. Placed(setup, r, at, {}, NameOn(setup, To(r, "up")), rd2, wr, junk)
      BY <3>1, <3>3, EnterPlaced DEF at
    <3>5. QED
      BY <1>1, <2>2, <3>1, <3>4
  <2>3. CASE q # r
    <3>1. \A d \in Dir : From(q, d) \in Link /\ From(q, d) # From(r, "up")
      BY <1>6, <2>3, FromWires
    <3>2. \A d \in Dir : rd2[From(q, d)] = rd[From(q, d)]
      BY <3>1
    <3>3. \A d \in Dir : Moving(setup, q, d, rd, wr, junk) => Moving(setup, q, d, rd2, wr, junk)
      BY <3>2, MovingKept
    <3>4. Placed(setup, q, pc[q], done[q], name[q], rd2, wr, junk)
      BY <2>1, <3>2, <3>3, PlacedKept
    <3>5. QED
      BY <1>1, <2>3, <3>4
  <2>4. QED
    BY <2>2, <2>3
<1>9. ASSUME NEW q \in Relay
      PROVE  Excused(setup, q, pc'[q], heard'[q], report'[q], reset', sent', wr, junk)
  <2>1. Excused(setup, q, pc[q], heard[q], report[q], reset, sent, wr, junk)
    BY DEF Good
  <2>2. CASE q = r
    BY <1>1, <1>2, <2>1, <2>2, ExcusedOn
  <2>3. CASE q # r
    BY <1>1, <2>1, <2>3
  <2>4. QED
    BY <2>2, <2>3
<1>10. \A l \in Link : Whole(setup, l, wr, junk)
  BY DEF Good
<1>11. Clash(setup, pc', wr)
  <2>1. Equal(setup) \/ r = "A" \/ at \in {"proxy", "send", "consume", "failed"}
    BY <1>2, <1>3, <1>4, ModeConfig DEF Relay
  <2>2. QED
    BY <1>1, <1>2, <2>1, ClashOn DEF Good
<1>12. Supply(setup, pc', shut', sent', wr, junk)
  <2>1. Supply(setup, pc, shut, sent, wr, junk)
    BY DEF Good
  <2>2. CASE r = "B"
    BY <1>1, <2>1, <2>2 DEF Supply, Unheeded, Relay
  <2>3. CASE r = "A"
    <3>1. Greet(setup, "CA") <= wr["CA"] /\ Greet(setup, "CA") \in Nat
      <4>1. From(r, "up") = "CA" /\ "CA" \in Link
        BY <2>3, Wires DEF Link
      <4>2. rd2["CA"] <= wr["CA"]
        BY <4>1 DEF Holds
      <4>3. QED
        BY <4>1, <4>2, ForeIs
    <3>2. pc["A"] = "proxy" /\ pc'["A"] \notin {"proxy", "failed"}
      BY <1>1, <1>2, <2>3
    <3>3. wr["CA"] = 0 /\ sent["C"] = 0 => wr["CA"] = Greet(setup, "CA") + sent["C"]
      BY <3>1
    <3>4. QED
      BY <1>1, <2>1, <3>2, <3>3 DEF Supply, Unheeded
  <2>4. QED
    BY <2>2, <2>3 DEF Relay
<1>13. Behind(setup, "BS", "AB", wr, junk) /\ Behind(setup, "AC", "BA", wr, junk)
  BY DEF Good
<1>14. ASSUME NEW p \in Party
       PROVE  Gotten(setup, In(p), got'[p], rd2, junk)
  <2>1. In(p) \in Link /\ In(p) # From(r, "up")
    BY <1>6, PartyWires
  <2>2. rd2[In(p)] = rd[In(p)]
    BY <2>1
  <2>3. Gotten(setup, In(p), got[p], rd, junk)
    BY DEF Good
  <2>4. QED
    BY <1>1, <2>2, <2>3, GottenKept
<1>15. QED
  BY <1>1, <1>7, <1>8, <1>9, <1>10, <1>11, <1>12, <1>13, <1>14, GoodNext

(* What a running relay reads, and what it has written.                    *)
LEMMA InIs ==
  ASSUME NEW rd, NEW wr, NEW junk, Good(rd, wr, junk),
         NEW r \in Relay, NEW d \in Dir, pc[r] # "failed"
  PROVE  LET l == From(r, d)
         IN  Holds(link[l], Ideal(setup, l, junk[l]), rd[l], wr[l], Open(l, shut, pc, done), reset)
<1>1. From(r, d) \in Link /\ ~Unheeded(From(r, d), pc)
  BY FromWires, Wires DEF Unheeded, Relay, Dir
<1>2. QED
  BY <1>1 DEF Good

LEMMA OutIs ==
  ASSUME NEW rd, NEW wr, NEW junk, Good(rd, wr, junk),
         NEW r \in Relay, NEW d \in Dir, pc[r] \notin {"done", "failed"}, d \notin done[r]
  PROVE  LET l == To(r, d)
         IN  Holds(link[l], Ideal(setup, l, junk[l]), rd[l], wr[l], TRUE, reset)
<1>1. To(r, d) \in Link /\ ~Unheeded(To(r, d), pc)
  BY FromWires, Wires DEF Unheeded, Relay, Dir
<1>2. Open(To(r, d), shut, pc, done)
  <2>1. \A p \in Party : Out(p) # To(r, d)
    BY PartyWires
  <2>2. \A q \in Relay, e \in Dir : To(r, d) = To(q, e) => q = r /\ e = d
    BY FromWires
  <2>3. QED
    BY <2>1, <2>2 DEF Open
<1>3. Holds(link[To(r, d)], Ideal(setup, To(r, d), junk[To(r, d)]), rd[To(r, d)], wr[To(r, d)],
            Open(To(r, d), shut, pc, done), reset)
  BY <1>1 DEF Good
<1>4. QED
  BY <1>2, <1>3, Weaken

LEMMA NoProxyGood ==
  ASSUME TypeOK, Agreed, NEW r \in Relay,
         NEW rd \in [Link -> Nat], NEW wr \in [Link -> Nat], NEW junk \in [Link -> Nat],
         Good(rd, wr, junk), NoProxy(r)
  PROVE  Kept
<1>1. /\ pc[r] = "proxy" /\ ~setup.accept[r]
      /\ GoTo(r, IF setup.send[r] THEN "send" ELSE Start(r))
      /\ UNCHANGED <<setup, link, name, done, heard, report, parties, reset>>
  BY DEF NoProxy
<1>2. Placed(setup, r, pc[r], done[r], name[r], rd, wr, junk)
  BY DEF Good
<1>3. rd[From(r, "up")] = 0 /\ name[r] = IF r = "A" THEN "client" ELSE "A"
  BY <1>1, <1>2 DEF Placed
<1>4. Greet(setup, From(r, "up")) = 0
  BY <1>1, GreetConfig
<1>5. name[r] = NameOn(setup, To(r, "up"))
  BY <1>1, <1>3, Wires DEF NameOn, Relay
<1>6. LET l == From(r, "up")
      IN  Holds(link[l], Ideal(setup, l, junk[l]), rd[l], wr[l], Open(l, shut, pc, done), reset)
  BY <1>1, InIs DEF Dir
<1>7. Good(rd, wr, junk)'
  BY <1>1, <1>3, <1>4, <1>5, <1>6, Entered
<1>8. QED
  BY <1>7 DEF Kept

LEMMA PeekGood ==
  ASSUME TypeOK, Agreed, NEW r \in Relay,
         NEW rd \in [Link -> Nat], NEW wr \in [Link -> Nat], NEW junk \in [Link -> Nat],
         Good(rd, wr, junk), Peek(r)
  PROVE  Kept
<1> DEFINE l == From(r, "up")
           rd2 == [rd EXCEPT ![l] = 1]
<1>1. /\ pc[r] = "proxy" /\ setup.accept[r]
      /\ link[l] # <<>> /\ Head(link[l]).kind = "proxy"
      /\ name' = [name EXCEPT ![r] = Named(Head(link[l]), r)]
      /\ link' = [link EXCEPT ![l] = Tail(link[l])]
      /\ GoTo(r, IF setup.send[r] THEN "send" ELSE Start(r))
      /\ UNCHANGED <<setup, done, heard, report, parties, reset>>
  BY DEF Peek
<1>2. l \in Link
  BY FromWires DEF Dir
<1>3. rd[l] = 0 /\ name[r] = IF r = "A" THEN "client" ELSE "A"
  <2>1. Placed(setup, r, pc[r], done[r], name[r], rd, wr, junk)
    BY DEF Good
  <2>2. QED
    BY <1>1, <2>1 DEF Placed
<1>4. Greet(setup, l) = 1
  BY <1>1, GreetConfig
<1>5. Holds(link[l], Ideal(setup, l, junk[l]), rd[l], wr[l], Open(l, shut, pc, done), reset)
  BY <1>1, InIs DEF Dir
<1>6. ~Ends(Head(link[l]))
  BY <1>1 DEF Ends
<1> HIDE DEF l
<1>7. /\ Head(link[l]) = Ideal(setup, l, junk[l])[rd[l] + 1]
      /\ Holds(Tail(link[l]), Ideal(setup, l, junk[l]), rd[l] + 1, wr[l], Open(l, shut, pc, done), reset)
      /\ rd[l] + 1 = 1
  <2>1. link[l] # <<>> /\ rd[l] + 1 = 1
    BY <1>1, <1>3
  <2>2. QED
    BY <1>5, <1>6, <2>1, TakeOne
<1>8. Head(link[l]) = Proxy(NameOn(setup, l))
  <2>1. junk[l] \in Nat
    BY <1>2
  <2>2. QED
    BY <1>2, <1>4, <1>7, <2>1, IdealFront
<1>9. Named(Head(link[l]), r) = NameOn(setup, To(r, "up"))
  <2>1. Head(link[l]).of = NameOn(setup, l)
    BY <1>8 DEF Proxy, Item
  <2>2. CASE r = "A"
    BY <1>1, <1>3, <2>1, <2>2, Wires DEF Named, NameOn, l
  <2>3. CASE r = "B"
    BY <1>1, <1>3, <2>1, <2>3, Wires DEF Named, NameOn, l
  <2>4. QED
    BY <2>2, <2>3 DEF Relay
<1>10. /\ name'[r] = NameOn(setup, To(r, "up"))
       /\ \A q \in Relay : q # r => name'[q] = name[q]
  BY <1>1, <1>9 DEF TypeOK
<1>11. /\ rd2 \in [Link -> Nat] /\ rd2[l] = 1
       /\ \A k \in Link : k # l => rd2[k] = rd[k] /\ link'[k] = link[k]
       /\ link'[l] = Tail(link[l])
  BY <1>1, <1>2 DEF TypeOK
<1>12. Holds(link'[l], Ideal(setup, l, junk[l]), rd2[l], wr[l], Open(l, shut, pc, done), reset)
  BY <1>7, <1>11
<1> HIDE DEF rd2
<1>13. Good(rd2, wr, junk)'
  <2>1. /\ rd2 \in [Link -> Nat] /\ rd2[From(r, "up")] = Greet(setup, From(r, "up"))
        /\ \A k \in Link : k # From(r, "up") => rd2[k] = rd[k] /\ link'[k] = link[k]
    BY <1>4, <1>11 DEF l
  <2>2. Holds(link'[From(r, "up")], Ideal(setup, From(r, "up"), junk[From(r, "up")]),
              rd2[From(r, "up")], wr[From(r, "up")], Open(From(r, "up"), shut, pc, done), reset)
    BY <1>12 DEF l
  <2>3. QED
    BY <1>1, <1>10, <2>1, <2>2, Entered
<1>14. QED
  BY <1>11, <1>13 DEF Kept

-----------------------------------------------------------------------------
(* A step of one relay: what it does not touch need not be looked at.      *)
Touches(s, r, rd, wr, junk, rd2, wr2, junk2) ==
  /\ \A l \in Link : (\A d \in Dir : l # From(r, d)) => rd2[l] = rd[l]
  /\ \A l \in Link : (\A d \in Dir : l # To(r, d)) => wr2[l] = wr[l] /\ junk2[l] = junk[l]
  /\ \A d \in Dir : \/ junk2[To(r, d)] = junk[To(r, d)]
                    \/ Veiled(s, To(r, d)) /\ wr[To(r, d)] <= Greet(s, To(r, d))

LEMMA OtherPlaced ==
  ASSUME TypeOK, NEW r \in Relay, NEW q \in Relay, q # r,
         NEW rd \in [Link -> Nat], NEW wr \in [Link -> Nat], NEW junk \in [Link -> Nat],
         NEW rd2 \in [Link -> Nat], NEW wr2 \in [Link -> Nat], NEW junk2 \in [Link -> Nat],
         Good(rd, wr, junk),
         Touches(setup, r, rd, wr, junk, rd2, wr2, junk2)
  PROVE  Placed(setup, q, pc[q], done[q], name[q], rd2, wr2, junk2)
<1>1. Placed(setup, q, pc[q], done[q], name[q], rd, wr, junk)
  BY DEF Good
<1>2. ASSUME NEW d \in Dir
      PROVE  /\ rd2[From(q, d)] = rd[From(q, d)] /\ wr2[To(q, d)] = wr[To(q, d)]
             /\ Moving(setup, q, d, rd, wr, junk) => Moving(setup, q, d, rd2, wr2, junk2)
  <2>1. /\ From(q, d) \in Link /\ To(q, d) \in Link
        /\ \A e \in Dir : From(q, d) # From(r, e) /\ To(q, d) # To(r, e)
    BY FromWires
  <2>2. /\ rd2[From(q, d)] = rd[From(q, d)] /\ wr2[To(q, d)] = wr[To(q, d)]
        /\ junk2[To(q, d)] = junk[To(q, d)]
    BY <2>1 DEF Touches
  <2>3. CASE junk2[From(q, d)] = junk[From(q, d)]
    BY <2>2, <2>3, MovingKept
  <2>4. CASE junk2[From(q, d)] # junk[From(q, d)]
    <3>1. PICK e \in Dir : From(q, d) = To(r, e)
      BY <2>1, <2>4 DEF Touches
    <3> DEFINE k == From(q, d)
    <3>2. Veiled(setup, k) /\ wr[k] <= Greet(setup, k) /\ k \in Link
      BY <2>1, <2>4, <3>1 DEF Touches
    <3>3. ~Unheeded(k, pc)
      BY <3>1, Wires DEF Unheeded, Relay, Dir
    <3>4. rd[k] <= wr[k]
      <4> HIDE DEF k
      <4>1. Holds(link[k], Ideal(setup, k, junk[k]), rd[k], wr[k], Open(k, shut, pc, done), reset)
        BY <3>2, <3>3 DEF Good
      <4>2. QED
        BY <4>1 DEF Holds
    <3>5. /\ Fore(setup, k, junk[k]) = Greet(setup, k) + 1 + junk[k]
          /\ Greet(setup, k) \in Nat /\ junk[k] \in Nat /\ rd[k] \in Nat /\ wr[k] \in Nat
      <4> HIDE DEF k
      <4>1. junk[k] \in Nat
        BY <3>2
      <4>2. QED
        BY <3>2, <4>1, ForeIs
    <3>6. ~(rd[k] >= Fore(setup, k, junk[k]))
      <4> HIDE DEF k
      <4>1. QED
        BY <3>2, <3>4, <3>5
    <3>7. ~Moving(setup, q, d, rd, wr, junk)
      BY <3>6 DEF Moving
    <3>8. QED
      BY <2>2, <3>7
  <2>5. QED
    BY <2>3, <2>4
<1>3. QED
  BY <1>1, <1>2, PlacedKept

Sound(r, rd, wr, junk, rd2, wr2, junk2) ==
  /\ Later
  /\ \A q \in Relay : q # r => /\ pc'[q] = pc[q] /\ done'[q] = done[q] /\ name'[q] = name[q]
                               /\ heard'[q] = heard[q] /\ report'[q] = report[q]
  /\ UNCHANGED <<sent, shut, got>>
  /\ Touches(setup, r, rd, wr, junk, rd2, wr2, junk2)
  /\ \A l \in Link :
       \/ link'[l] = link[l] /\ rd2[l] = rd[l] /\ wr2[l] = wr[l] /\ junk2[l] = junk[l]
       \/ Holds(link'[l], Ideal(setup, l, junk2[l]), rd2[l], wr2[l], Open(l, shut', pc', done'), reset')
  /\ Placed(setup, r, pc'[r], done'[r], name'[r], rd2, wr2, junk2)
  /\ Excused(setup, r, pc'[r], heard'[r], report'[r], reset', sent, wr2, junk2)
  /\ \A d \in Dir : Whole(setup, To(r, d), wr2, junk2)
  /\ Clash(setup, pc', wr2)
  /\ Supply(setup, pc', shut, sent, wr2, junk2)
  /\ Behind(setup, "BS", "AB", wr2, junk2) /\ Behind(setup, "AC", "BA", wr2, junk2)

LEMMA RelayStep ==
  ASSUME TypeOK, NEW r \in Relay,
         NEW rd \in [Link -> Nat], NEW wr \in [Link -> Nat], NEW junk \in [Link -> Nat],
         NEW rd2 \in [Link -> Nat], NEW wr2 \in [Link -> Nat], NEW junk2 \in [Link -> Nat],
         Good(rd, wr, junk), Sound(r, rd, wr, junk, rd2, wr2, junk2)
  PROVE  Kept
<1>0. /\ Later /\ Touches(setup, r, rd, wr, junk, rd2, wr2, junk2)
      /\ sent' = sent /\ shut' = shut /\ got' = got
      /\ Clash(setup, pc', wr2) /\ Supply(setup, pc', shut, sent, wr2, junk2)
      /\ Behind(setup, "BS", "AB", wr2, junk2) /\ Behind(setup, "AC", "BA", wr2, junk2)
      /\ Placed(setup, r, pc'[r], done'[r], name'[r], rd2, wr2, junk2)
      /\ Excused(setup, r, pc'[r], heard'[r], report'[r], reset', sent, wr2, junk2)
  BY DEF Sound
<1>1. setup' = setup /\ (reset => reset')
  BY <1>0 DEF Later
<1>2. ASSUME NEW l \in Link, ~Unheeded(l, pc')
      PROVE  Holds(link'[l], Ideal(setup, l, junk2[l]), rd2[l], wr2[l], Open(l, shut', pc', done'), reset')
  <2>1. CASE link'[l] = link[l] /\ rd2[l] = rd[l] /\ wr2[l] = wr[l] /\ junk2[l] = junk[l]
    BY <1>0, <1>2, <2>1, LinkKept
  <2>2. QED
    BY <2>1 DEF Sound
<1>3. ASSUME NEW q \in Relay
      PROVE  Placed(setup, q, pc'[q], done'[q], name'[q], rd2, wr2, junk2)
  <2>1. CASE q = r
    BY <1>0, <2>1
  <2>2. CASE q # r
    <3>1. Placed(setup, q, pc[q], done[q], name[q], rd2, wr2, junk2)
      BY <1>0, <2>2, OtherPlaced
    <3>2. QED
      BY <2>2, <3>1 DEF Sound
  <2>3. QED
    BY <2>1, <2>2
<1>4. ASSUME NEW q \in Relay
      PROVE  Excused(setup, q, pc'[q], heard'[q], report'[q], reset', sent', wr2, junk2)
  <2>1. CASE q = r
    BY <1>0, <2>1
  <2>2. CASE q # r
    <3>1. \A d \in Dir : To(q, d) \in Link /\ \A e \in Dir : To(q, d) # To(r, e)
      BY <2>2, FromWires
    <3>2. \A d \in Dir : wr2[To(q, d)] = wr[To(q, d)] /\ junk2[To(q, d)] = junk[To(q, d)]
      BY <1>0, <3>1 DEF Touches
    <3>3. Excused(setup, q, pc[q], heard[q], report[q], reset, sent, wr, junk)
      BY DEF Good
    <3>4. sent \in [Party -> Nat] /\ \A p \in Party : sent[p] <= sent[p]
      BY DEF TypeOK
    <3>5. Excused(setup, q, pc[q], heard[q], report[q], reset', sent, wr2, junk2)
      BY <1>1, <3>2, <3>3, <3>4, ExcusedKept
    <3>6. QED
      BY <1>0, <2>2, <3>5 DEF Sound
  <2>3. QED
    BY <2>1, <2>2
<1>5. ASSUME NEW l \in Link
      PROVE  Whole(setup, l, wr2, junk2)
  <2>1. CASE \E d \in Dir : l = To(r, d)
    BY <2>1 DEF Sound
  <2>2. CASE \A d \in Dir : l # To(r, d)
    <3>1. Whole(setup, l, wr, junk) /\ wr2[l] = wr[l] /\ junk2[l] = junk[l]
      BY <1>0, <2>2 DEF Good, Touches
    <3>2. QED
      BY <3>1 DEF Whole
  <2>3. QED
    BY <2>1, <2>2
<1>6. ASSUME NEW p \in Party
      PROVE  Gotten(setup, In(p), got'[p], rd2, junk2)
  <2>1. /\ In(p) \in Link /\ \A d \in Dir : In(p) # From(r, d)
    BY PartyWires
  <2>2. rd2[In(p)] = rd[In(p)]
    BY <1>0, <2>1 DEF Touches
  <2>3. Gotten(setup, In(p), got[p], rd, junk)
    BY DEF Good
  <2>4. CASE junk2[In(p)] = junk[In(p)]
    BY <1>0, <2>2, <2>3, <2>4, GottenKept
  <2>5. CASE junk2[In(p)] # junk[In(p)]
    <3>1. \E d \in Dir : In(p) = To(r, d) /\ Veiled(setup, To(r, d))
      BY <1>0, <2>1, <2>5 DEF Touches
    <3>2. In(p) \in {"AB", "BA"}
      BY <3>1 DEF Veiled
    <3>3. QED
      BY <3>2, Wires DEF Party
  <2>6. QED
    BY <2>4, <2>5
<1>7. Supply(setup, pc', shut', sent', wr2, junk2)
  BY <1>0
<1>8. Good(rd2, wr2, junk2)'
  BY <1>0, <1>1, <1>2, <1>3, <1>4, <1>5, <1>6, <1>7, GoodNext
<1>9. QED
  BY <1>8 DEF Kept

(* What is said of supplies outlives steps that write nothing, ...         *)
LEMMA SupplyOn ==
  ASSUME NEW s, NEW at, NEW at2, NEW ends, NEW said, NEW wr, NEW junk,
         Supply(s, at, ends, said, wr, junk),
         at2["A"] \in {at["A"], "failed"} \/ at["A"] \notin {"proxy", "failed"}
  PROVE  Supply(s, at2, ends, said, wr, junk)
BY DEF Supply, Unheeded

(* ... and those of a relay that pass on no more than there is.            *)
LEMMA SupplyWritten ==
  ASSUME NEW s, NEW at, NEW ends, NEW said, NEW wr, NEW junk, NEW wr2, NEW junk2,
         Supply(s, at, ends, said, wr, junk),
         wr2["CA"] = wr["CA"], wr2["SB"] = wr["SB"],
         wr2["AB"] <= Fore(s, "AB", junk2["AB"]) + said["C"],
         wr2["BA"] <= Fore(s, "BA", junk2["BA"]) + said["S"]
  PROVE  Supply(s, at, ends, said, wr2, junk2)
BY DEF Supply

(* A relay that goes on is blamed for nothing, whatever it has written, ... *)
LEMMA ExcusedGoing ==
  ASSUME NEW s, NEW r, NEW at, NEW at2, NEW hears, NEW hears2, NEW blame, NEW rst, NEW said,
         NEW wr, NEW junk, NEW wr2, NEW junk2,
         Excused(s, r, at, hears, blame, rst, said, wr, junk),
         at \notin {"done", "failed"},
         ~hears2 \/ at2 = "probed" => Mute(s, r, wr2, junk2)
  PROVE  Excused(s, r, at2, hears2, blame, rst, said, wr2, junk2)
BY DEF Excused

(* ... and may write behind a probe's back what does not reach it.          *)
LEMMA ClashWritten ==
  ASSUME NEW s, NEW at, NEW wr, NEW wr2, Clash(s, at, wr),
         Equal(s) \/ (wr2["BS"] <= Greet(s, "BS") /\ wr2["BA"] = 0)
  PROVE  Clash(s, at, wr2)
BY DEF Clash

LEMMA BehindOn ==
  ASSUME NEW s, NEW l \in Link, NEW k \in Link, NEW wr \in [Link -> Nat], NEW junk \in [Link -> Nat],
         NEW wr2 \in [Link -> Nat], NEW junk2 \in [Link -> Nat],
         Behind(s, l, k, wr, junk),
         wr2[l] = wr[l], wr[k] <= wr2[k], junk2[k] = junk[k]
  PROVE  Behind(s, l, k, wr2, junk2)
<1>1. wr[l] \in Nat /\ wr[k] \in Nat /\ wr2[k] \in Nat /\ junk[k] \in Nat
  OBVIOUS
<1>2. Greet(s, l) \in Nat /\ Fore(s, k, junk[k]) \in Nat
  BY <1>1, ForeType
<1>3. QED
  BY <1>1, <1>2 DEF Behind

LEMMA SendGood ==
  ASSUME TypeOK, Agreed, NEW r \in Relay,
         NEW rd \in [Link -> Nat], NEW wr \in [Link -> Nat], NEW junk \in [Link -> Nat],
         Good(rd, wr, junk), SendProxy(r)
  PROVE  Kept
<1> DEFINE l == From(r, "up")
           m == To(r, "up")
           wr2 == [wr EXCEPT ![m] = 1]
<1>1. /\ pc[r] = "send"
      /\ link' = [link EXCEPT ![m] = Append(@, Proxy(name[r]))]
      /\ pc' = [pc EXCEPT ![r] = Start(r)]
      /\ UNCHANGED <<setup, name, done, heard, report, sent, shut, got, ended, reset>>
  BY DEF SendProxy, GoTo, parties
<1>2. l \in Link /\ m \in Link /\ m # To(r, "down") /\ To(r, "down") \in Link
  BY FromWires DEF Dir
<1>3. /\ setup.send[r] /\ rd[l] = Greet(setup, l) /\ wr[m] = 0
      /\ name[r] = NameOn(setup, m) /\ Waiting(setup, r, "down", rd, wr) /\ done[r] = {}
  <2>1. Placed(setup, r, pc[r], done[r], name[r], rd, wr, junk)
    BY DEF Good
  <2>2. QED
    BY <1>1, <2>1 DEF Placed
<1>4. Greet(setup, m) = 1
  BY <1>3, GreetConfig
<1>5. Holds(link[m], Ideal(setup, m, junk[m]), rd[m], wr[m], TRUE, reset)
  BY <1>1, <1>3, OutIs DEF Dir
<1>6. m \in {"AB", "BS"} /\ (m = "AB" => r = "A") /\ (m = "BS" => r = "B")
  BY Wires DEF Relay
<1> HIDE DEF l, m
<1>7. Holds(Append(link[m], Proxy(name[r])), Ideal(setup, m, junk[m]), rd[m], wr[m] + 1, TRUE, reset)
  <2>1. wr[m] + 1 = 1 /\ junk[m] \in Nat
    BY <1>2, <1>3
  <2>2. Proxy(name[r]) = Ideal(setup, m, junk[m])[wr[m] + 1]
    BY <1>2, <1>3, <1>4, <2>1, IdealFront
  <2>3. Ideal(setup, m, junk[m])[wr[m] + 1] \in Thing
    BY <1>2, <2>1, IdealType
  <2>4. QED
    BY <1>5, <2>2, <2>3, PutOne
<1>8. /\ wr2 \in [Link -> Nat] /\ wr2[m] = 1 /\ wr2[m] = wr[m] + 1
      /\ \A k \in Link : k # m => wr2[k] = wr[k] /\ link'[k] = link[k]
      /\ link'[m] = Append(link[m], Proxy(name[r]))
  BY <1>1, <1>2, <1>3 DEF TypeOK
<1> HIDE DEF wr2
<1>9. /\ pc'[r] = Start(r) /\ Start(r) \in {"first", "consume", "copy"}
      /\ \A q \in Relay : q # r => pc'[q] = pc[q]
  BY <1>1 DEF TypeOK, Start
<1>10. Later
  BY <1>1, <1>9 DEF Later
<1>11. ASSUME NEW k \in Link
       PROVE  \/ link'[k] = link[k] /\ rd[k] = rd[k] /\ wr2[k] = wr[k] /\ junk[k] = junk[k]
              \/ Holds(link'[k], Ideal(setup, k, junk[k]), rd[k], wr2[k], Open(k, shut', pc', done'), reset')
  <2>1. CASE k = m
    <3>1. Holds(link'[m], Ideal(setup, m, junk[m]), rd[m], wr2[m], TRUE, reset')
      BY <1>1, <1>7, <1>8
    <3>2. Holds(link'[m], Ideal(setup, m, junk[m]), rd[m], wr2[m], Open(m, shut', pc', done'), reset')
      BY <3>1 DEF Holds
    <3>3. QED
      BY <2>1, <3>2
  <2>2. QED
    BY <1>8, <2>1
<1>12. Touches(setup, r, rd, wr, junk, rd, wr2, junk)
  BY <1>8 DEF Touches, m, Dir
<1>13. Placed(setup, r, pc'[r], done'[r], name'[r], rd, wr2, junk)
  <2>1. Waiting(setup, r, "up", rd, wr2)
    BY <1>3, <1>4, <1>8 DEF Waiting, l, m
  <2>2. Waiting(setup, r, "down", rd, wr2)
    BY <1>2, <1>3, <1>8 DEF Waiting
  <2>3. Placed(setup, r, Start(r), {}, name[r], rd, wr2, junk)
    BY <1>8, <2>1, <2>2, Begin
  <2>4. QED
    BY <1>1, <1>3, <1>9, <2>3
<1>14. Excused(setup, r, pc'[r], heard'[r], report'[r], reset', sent, wr2, junk)
  <2>1. Excused(setup, r, pc[r], heard[r], report[r], reset, sent, wr, junk)
    BY DEF Good
  <2>2. ~heard[r] \/ Start(r) = "probed" => Mute(setup, r, wr2, junk)
    BY <1>2, <1>8, <1>9, <2>1 DEF Excused, Mute
  <2>3. QED
    BY <1>1, <1>9, <2>1, <2>2, ExcusedGoing
<1>15. \A d \in Dir : Whole(setup, To(r, d), wr2, junk)
  <2>1. Whole(setup, m, wr2, junk)
    BY <1>4, <1>8 DEF Whole
  <2>2. Whole(setup, To(r, "down"), wr2, junk)
    BY <1>2, <1>8 DEF Whole, Good
  <2>3. QED
    BY <2>1, <2>2 DEF m, Dir
<1>16. Clash(setup, pc', wr2)
  <2>1. Start(r) # "probed" /\ (Equal(setup) \/ r = "A" \/ Start(r) = "consume")
    BY ModeConfig DEF Start, Relay
  <2>2. Clash(setup, pc', wr)
    BY <1>1, <2>1, ClashOn DEF Good
  <2>3. Equal(setup) \/ (wr["BS"] <= Greet(setup, "BS") /\ wr["BA"] = 0)
    BY <2>2 DEF Clash
  <2>4. wr2["BA"] = wr["BA"] /\ (wr2["BS"] = wr["BS"] \/ wr2["BS"] = Greet(setup, "BS"))
    BY <1>4, <1>6, <1>8 DEF Link
  <2>5. Greet(setup, "BS") \in Nat
    BY ForeIs DEF Link
  <2>6. Equal(setup) \/ (wr2["BS"] <= Greet(setup, "BS") /\ wr2["BA"] = 0)
    BY <2>3, <2>4, <2>5
  <2>7. QED
    BY <2>2, <2>6, ClashWritten
<1>17. Supply(setup, pc', shut, sent, wr2, junk)
  <2>1. Supply(setup, pc, shut, sent, wr, junk)
    BY DEF Good
  <2>2. pc'["A"] \in {pc["A"], "failed"} \/ pc["A"] \notin {"proxy", "failed"}
    BY <1>1, <1>9 DEF Relay
  <2>3. Supply(setup, pc', shut, sent, wr, junk)
    BY <2>1, <2>2, SupplyOn
  <2>4. wr2["CA"] = wr["CA"] /\ wr2["SB"] = wr["SB"] /\ wr2["BA"] = wr["BA"]
    BY <1>6, <1>8 DEF Link
  <2>5. wr2["AB"] <= Fore(setup, "AB", junk["AB"]) + sent["C"]
    <3>1. CASE m = "AB"
      <4>1. /\ Greet(setup, m) <= Fore(setup, m, junk[m])
            /\ Fore(setup, m, junk[m]) \in Nat /\ sent["C"] \in Nat
        BY <1>2, ForeIs DEF TypeOK, Party
      <4>2. QED
        BY <1>4, <1>8, <3>1, <4>1
    <3>2. CASE m # "AB"
      BY <1>8, <2>3, <3>2 DEF Supply, Link
    <3>3. QED
      BY <3>1, <3>2
  <2>6. wr2["BA"] <= Fore(setup, "BA", junk["BA"]) + sent["S"]
    BY <2>3, <2>4 DEF Supply
  <2>7. QED
    BY <2>3, <2>4, <2>5, <2>6, SupplyWritten
<1>18. Behind(setup, "BS", "AB", wr2, junk)
  <2>1. CASE m = "BS"
    BY <1>4, <1>8, <2>1 DEF Behind
  <2>2. CASE m = "AB"
    <3>1. /\ Behind(setup, "BS", "AB", wr, junk)
          /\ wr2["BS"] = wr["BS"] /\ wr["AB"] <= wr2["AB"]
          /\ "BS" \in Link /\ "AB" \in Link
      BY <1>3, <1>8, <2>2 DEF Good, Link
    <3>2. QED
      BY <1>8, <3>1, BehindOn
  <2>3. QED
    BY <1>6, <2>1, <2>2
<1>19. Behind(setup, "AC", "BA", wr2, junk)
  BY <1>6, <1>8 DEF Good, Behind, Link
<1>20. /\ \A q \in Relay : q # r => /\ pc'[q] = pc[q] /\ done'[q] = done[q] /\ name'[q] = name[q]
                                   /\ heard'[q] = heard[q] /\ report'[q] = report[q]
       /\ UNCHANGED <<sent, shut, got>>
       /\ wr2 \in [Link -> Nat]
  BY <1>1, <1>8, <1>9
<1>21. Sound(r, rd, wr, junk, rd, wr2, junk)
  BY <1>10, <1>11, <1>12, <1>13, <1>14, <1>15, <1>16, <1>17, <1>18, <1>19, <1>20 DEF Sound
<1>22. QED
  BY <1>20, <1>21, RelayStep

LEMMA BehindFresh ==
  ASSUME NEW s, NEW l \in Link, NEW k \in Link, NEW wr \in [Link -> Nat], NEW junk \in [Link -> Nat],
         NEW wr2, NEW junk2,
         Behind(s, l, k, wr, junk), wr[k] <= Greet(s, k), wr2[l] = wr[l]
  PROVE  Behind(s, l, k, wr2, junk2)
<1>1. wr[l] \in Nat /\ wr[k] \in Nat /\ junk[k] \in Nat
  OBVIOUS
<1>2. Greet(s, l) \in Nat /\ Greet(s, k) \in Nat /\ Fore(s, k, junk[k]) \in Nat /\ Greet(s, k) <= Fore(s, k, junk[k])
  BY <1>1, ForeType
<1>3. QED
  BY <1>1, <1>2 DEF Behind

-----------------------------------------------------------------------------
(* The handshake.                                                          *)

(* The head, its junk and the first chunk are what is due next.            *)
LEMMA FirstDue ==
  ASSUME TypeOK, Agreed, NEW r \in Relay, NEW d \in Dir, NEW j \in Nat, NEW n \in Nat,
         NEW q \in Seq(Thing), NEW lo, NEW hi, NEW rst,
         Equal(setup), Veiled(setup, To(r, d)), ~Veiled(setup, From(r, d)),
         Holds(q, Ideal(setup, To(r, d), n), lo, Greet(setup, To(r, d)), TRUE, rst),
         NEW chunk \in Seq(Thing), \A i \in 1 .. Len(chunk) : chunk[i] = Chunk(setup, From(r, d), i),
         hi = Fore(setup, To(r, d), j) + Len(chunk)
  PROVE  Holds(q \o Prefix(r, j, chunk), Ideal(setup, To(r, d), j), lo, hi, TRUE, rst)
<1> DEFINE m == To(r, d)
           f == Ideal(setup, m, j)
           g == Greet(setup, m)
           u == Prefix(r, j, chunk)
<1>1. m \in Link /\ From(r, d) \in Link
  BY FromWires
<1>2. /\ u \in Seq(Thing) /\ Len(u) = 1 + j + Len(chunk)
      /\ u[1] = OwnHead(j) /\ \A i \in 1 .. j : u[1 + i] = Rubbish
      /\ \A i \in 1 .. Len(chunk) : u[1 + j + i] = Flip(r, chunk[i])
  <2>1. /\ Prefix(r, j, chunk) \in Seq(Thing)
        /\ Len(Prefix(r, j, chunk)) = 1 + j + Len(chunk)
        /\ Prefix(r, j, chunk)[1] = OwnHead(j)
        /\ \A i \in 1 .. j : Prefix(r, j, chunk)[1 + i] = Rubbish
        /\ \A i \in 1 .. Len(chunk) : Prefix(r, j, chunk)[1 + j + i] = Flip(r, chunk[i])
    BY PrefixIs, Zenon
  <2>2. QED
    BY <2>1 DEF u
<1>3. g \in Nat /\ Fore(setup, m, j) = g + 1 + j /\ Len(chunk) \in Nat
  BY <1>1, ForeIs, LenProperties
<1>4. f[g + 1] = OwnHead(j) /\ \A i \in 1 .. j : f[g + 1 + i] = Rubbish
  BY <1>1, IdealFront
<1>5. ASSUME NEW i \in 1 .. Len(chunk)
      PROVE  f[g + 1 + j + i] = u[1 + j + i]
  <2>1. i \in Nat \ {0} /\ i \in Nat
    BY <1>3
  <2>2. f[Fore(setup, m, j) + i] = Chunk(setup, m, i)
    BY <1>1, <2>1, IdealChunk
  <2>3. Flip(r, Chunk(setup, From(r, d), i)) = Chunk(setup, m, i)
    BY <2>1, FlipChunk
  <2>4. u[1 + j + i] = Chunk(setup, m, i)
    BY <1>2, <2>3
  <2>5. QED
    BY <1>3, <2>2, <2>4
<1> HIDE DEF f, g, u
<1>6. ASSUME NEW i \in 1 .. Len(u)
      PROVE  u[i] = f[g + i]
  <2>1. CASE i = 1
    BY <1>2, <1>4, <2>1
  <2>2. CASE i > 1 /\ i <= 1 + j
    <3>1. i - 1 \in 1 .. j /\ 1 + (i - 1) = i /\ g + 1 + (i - 1) = g + i
      BY <1>2, <1>3, <2>2
    <3>2. u[1 + (i - 1)] = Rubbish /\ f[g + 1 + (i - 1)] = Rubbish
      BY <1>2, <1>4, <3>1
    <3>3. QED
      BY <3>1, <3>2
  <2>3. CASE i > 1 + j
    <3>1. i - (1 + j) \in 1 .. Len(chunk) /\ 1 + j + (i - (1 + j)) = i /\ g + 1 + j + (i - (1 + j)) = g + i
      BY <1>2, <1>3, <2>3
    <3>2. f[g + 1 + j + (i - (1 + j))] = u[1 + j + (i - (1 + j))]
      BY <1>5, <3>1
    <3>3. QED
      BY <3>1, <3>2
  <2>4. QED
    BY <1>2, <1>3, <2>1, <2>2, <2>3
<1>7. Holds(q, f, lo, g, TRUE, rst)
  <2>1. ASSUME NEW x \in Nat \ {0}, x <= g
        PROVE  Ideal(setup, m, n)[x] = f[x]
    BY <2>1 DEF Ideal, f, g
  <2>2. Holds(q, Ideal(setup, m, n), lo, g, TRUE, rst)
    BY DEF g
  <2>3. QED
    BY <2>1, <2>2, OtherIdeal
<1>8. Holds(q \o u, f, lo, g + Len(u), TRUE, rst)
  BY <1>2, <1>6, <1>7, PutMany
<1>9. hi = g + Len(u)
  BY <1>2, <1>3 DEF m
<1>10. QED
  BY <1>8, <1>9 DEF f, u, m

(* Where a relay before its first chunk is. *)
LEMMA AtFirst ==
  ASSUME TypeOK, Agreed, NEW r \in Relay,
         NEW rd \in [Link -> Nat], NEW wr \in [Link -> Nat], NEW junk \in [Link -> Nat],
         Good(rd, wr, junk), pc[r] = "first"
  PROVE  /\ Equal(setup) /\ done[r] = {}
         /\ setup.mode[r] = IF r = "A" THEN 1 ELSE 2
         /\ Source(r) = IF r = "A" THEN "up" ELSE "down"
         /\ Waiting(setup, r, Source(r), rd, wr)
         /\ r = "A" => Waiting(setup, r, "down", rd, wr)
         /\ r = "B" => Moving(setup, r, "up", rd, wr, junk)
<1>1. Placed(setup, r, pc[r], done[r], name[r], rd, wr, junk) /\ Clash(setup, pc, wr)
  BY DEF Good
<1>2. setup.mode[r] # 0 /\ done[r] = {} /\ Waiting(setup, r, "down", rd, wr)
  BY <1>1 DEF Placed
<1>3. Equal(setup)
  BY <1>1, <1>2, ModeConfig DEF Clash, Relay
<1>4. setup.mode[r] = IF r = "A" THEN 1 ELSE 2
  BY <1>2, <1>3, ModeConfig DEF Relay
<1>5. IF r = "A" THEN Waiting(setup, r, "up", rd, wr) ELSE Moving(setup, r, "up", rd, wr, junk)
  BY <1>1, <1>4 DEF Placed
<1>6. QED
  BY <1>2, <1>3, <1>4, <1>5 DEF Source, Relay

LEMMA FirstRead ==
  ASSUME TypeOK, Agreed, NEW r \in Relay, NEW l, l = From(r, Source(r)),
         NEW rd \in [Link -> Nat], NEW wr \in [Link -> Nat], NEW junk \in [Link -> Nat],
         Good(rd, wr, junk), pc[r] = "first",
         NEW k \in 0 .. Len(link[l]), \A i \in 1 .. k : ~Ends(link[l][i]),
         NEW rest \in Unread(link[l], k)
  PROVE  /\ rd[l] = Greet(setup, l) /\ ~Veiled(setup, l) /\ l \in Link
         /\ rd[l] + k <= wr[l]
         /\ \A i \in 1 .. k : link[l][i] = Chunk(setup, l, i)
         /\ Holds(rest, Ideal(setup, l, junk[l]), rd[l] + k, wr[l], Open(l, shut, pc, done), reset)
<1> DEFINE f == Ideal(setup, l, junk[l])
           op == Open(l, shut, pc, done)
<1>1. l \in Link /\ junk[l] \in Nat /\ rd[l] \in Nat
  BY FromWires DEF Source, Dir
<1>2. rd[l] = Greet(setup, l) /\ ~Veiled(setup, l)
  <2>1. /\ Equal(setup) /\ setup.mode[r] = IF r = "A" THEN 1 ELSE 2
        /\ Waiting(setup, r, Source(r), rd, wr)
    BY AtFirst
  <2>2. setup.mode[r] # 0
    BY <2>1
  <2>3. QED
    BY <2>1, <2>2, VeilConfig DEF Waiting
<1>3. Holds(link[l], f, rd[l], wr[l], op, reset)
  BY InIs DEF Source, Dir
<1>4. \A x \in Nat \ {0} : ~Ends(f[x])
  BY <1>1, IdealType
<1>5. Fore(setup, l, junk[l]) = rd[l]
  BY <1>1, <1>2, ForeIs
<1>6. \A i \in 1 .. k : i \in Nat \ {0}
  OBVIOUS
<1>7. \A i \in 1 .. k : f[rd[l] + i] = Chunk(setup, l, i)
  BY <1>1, <1>5, <1>6, IdealChunk
<1> HIDE DEF f, op
<1>8. /\ rd[l] + k <= wr[l]
      /\ \A i \in 1 .. k : link[l][i] = f[rd[l] + i]
      /\ Holds(SubSeq(link[l], k + 1, Len(link[l])), f, rd[l] + k, wr[l], op, reset)
  BY <1>3, TakeMany
<1>9. Holds(rest, f, rd[l] + k, wr[l], op, reset)
  <2>1. CASE rest = SubSeq(link[l], k + 1, Len(link[l]))
    BY <1>8, <2>1
  <2>2. CASE link[l] = <<Rst>> /\ rest = <<Eof>>
    <3>1. link[l] # <<>> /\ Ends(Head(link[l])) /\ Len(link[l]) = 1 /\ link[l][1] = Rst
      BY <2>2, Terminators
    <3>2. k = 0
      BY <3>1, Terminators
    <3>3. Holds(<<Eof>>, f, rd[l], wr[l], op, reset)
      BY <1>3, <1>4, <3>1, TakeEnd
    <3>4. QED
      BY <1>1, <2>2, <3>2, <3>3
  <2>3. QED
    BY <2>1, <2>2 DEF Unread
<1>10. QED
  BY <1>1, <1>2, <1>7, <1>8, <1>9 DEF f, op

LEMMA FirstGood ==
  ASSUME TypeOK, Agreed, NEW r \in Relay,
         NEW rd \in [Link -> Nat], NEW wr \in [Link -> Nat], NEW junk \in [Link -> Nat],
         Good(rd, wr, junk), FirstChunk(r)
  PROVE  Kept
<1> DEFINE l == From(r, Source(r))
           m == To(r, Source(r))
<1>1. PICK k \in 0 .. Len(link[l]), j \in Junk : \E rest \in Unread(link[l], k) :
        /\ \A i \in 1 .. k : ~Ends(link[l][i])
        /\ link' = [link EXCEPT ![l] = rest, ![m] = @ \o Prefix(r, j, SubSeq(link[l], 1, k))]
        /\ heard' = [heard EXCEPT ![r] = @ \/ (Source(r) = "down" /\ k > 0)]
  BY DEF FirstChunk
<1>2. PICK rest \in Unread(link[l], k) :
        /\ \A i \in 1 .. k : ~Ends(link[l][i])
        /\ link' = [link EXCEPT ![l] = rest, ![m] = @ \o Prefix(r, j, SubSeq(link[l], 1, k))]
        /\ heard' = [heard EXCEPT ![r] = @ \/ (Source(r) = "down" /\ k > 0)]
  BY <1>1
<1>3. /\ pc[r] = "first" /\ pc' = [pc EXCEPT ![r] = AfterFirst(r)]
      /\ UNCHANGED <<setup, name, done, report, sent, shut, got, ended, reset>>
  BY DEF FirstChunk, GoTo, parties
<1>4. /\ Equal(setup) /\ done[r] = {}
      /\ setup.mode[r] = IF r = "A" THEN 1 ELSE 2
      /\ Source(r) = IF r = "A" THEN "up" ELSE "down"
      /\ Waiting(setup, r, Source(r), rd, wr)
      /\ r = "A" => Waiting(setup, r, "down", rd, wr)
      /\ r = "B" => Moving(setup, r, "up", rd, wr, junk)
  BY <1>3, AtFirst
<1>5. Veiled(setup, m) /\ ~Veiled(setup, l)
  <2>1. setup.mode[r] # 0
    BY <1>4
  <2>2. QED
    BY <1>4, <2>1, VeilConfig
<1>6. rd[l] = Greet(setup, l) /\ wr[m] = Greet(setup, m)
  BY <1>4 DEF Waiting
<1>7. /\ l \in Link /\ m \in Link /\ l # m
      /\ r = "A" => l = "CA" /\ m = "AB"
      /\ r = "B" => l = "SB" /\ m = "BA"
  BY <1>4, Wires DEF Link, Relay
<1>8. /\ j \in Nat /\ k \in Nat /\ junk[m] \in Nat /\ junk[l] \in Nat
      /\ link[l] \in Seq(Thing) /\ link[m] \in Seq(Thing)
  BY <1>7, BoundsAssumption DEF TypeOK
<1>9. /\ rd[l] + k <= wr[l]
      /\ \A i \in 1 .. k : link[l][i] = Chunk(setup, l, i)
      /\ Holds(rest, Ideal(setup, l, junk[l]), rd[l] + k, wr[l], Open(l, shut, pc, done), reset)
  <2>1. k \in 0 .. Len(link[l]) /\ (\A i \in 1 .. k : ~Ends(link[l][i])) /\ rest \in Unread(link[l], k)
    BY <1>1, <1>2
  <2>2. pc[r] = "first" /\ l = From(r, Source(r))
    BY <1>3
  <2> HIDE DEF l
  <2>3. QED
    BY <2>1, <2>2, FirstRead
<1> DEFINE chunk == SubSeq(link[l], 1, k)
           hi == Fore(setup, m, j) + k
<1>10. chunk \in Seq(Thing) /\ Len(chunk) = k /\ \A i \in 1 .. k : chunk[i] = link[l][i]
  BY <1>8, SeqTypes
<1>11. Holds(link[m] \o Prefix(r, j, chunk), Ideal(setup, m, j), rd[m], hi, TRUE, reset)
  <2>0. Source(r) \in Dir
    BY DEF Source, Dir
  <2>1. Holds(link[m], Ideal(setup, m, junk[m]), rd[m], Greet(setup, m), TRUE, reset)
    <3>1. Holds(link[m], Ideal(setup, m, junk[m]), rd[m], wr[m], TRUE, reset)
      BY <1>3, <1>4, <2>0, OutIs
    <3>2. QED
      BY <1>6, <3>1
  <2>2. \A i \in 1 .. Len(chunk) : chunk[i] = Chunk(setup, l, i)
    BY <1>9, <1>10
  <2>3. hi = Fore(setup, m, j) + Len(chunk)
    BY <1>10
  <2> HIDE DEF chunk, hi
  <2>4. QED
    <3>1. /\ junk[m] \in Nat /\ j \in Nat /\ link[m] \in Seq(Thing) /\ chunk \in Seq(Thing)
          /\ Equal(setup) /\ Veiled(setup, m) /\ ~Veiled(setup, l)
      BY <1>4, <1>5, <1>8, <1>10
    <3>2. QED
      BY <2>0, <2>1, <2>2, <2>3, <3>1, FirstDue
<1> HIDE DEF l, m, hi
<1> DEFINE rd2 == [rd EXCEPT ![l] = @ + k]
           wr2 == [wr EXCEPT ![m] = hi]
           junk2 == [junk EXCEPT ![m] = j]
<1>12. /\ Greet(setup, m) \in Nat /\ Fore(setup, m, j) \in Nat /\ Greet(setup, l) \in Nat
       /\ Fore(setup, l, junk[l]) = Greet(setup, l) /\ hi \in Nat
       /\ Fore(setup, m, j) = Greet(setup, m) + 1 + j
  <2>1. /\ Greet(setup, m) \in Nat /\ Fore(setup, m, j) \in Nat /\ Greet(setup, l) \in Nat
        /\ Fore(setup, l, junk[l]) = Greet(setup, l)
        /\ Fore(setup, m, j) = Greet(setup, m) + 1 + j
    BY <1>5, <1>7, <1>8, ForeIs
  <2>2. QED
    <3>1. hi = Fore(setup, m, j) + k /\ k \in Nat
      BY <1>8 DEF hi
    <3>2. hi \in Nat
      BY <2>1, <3>1
    <3>3. QED
      BY <2>1, <3>2
<1>13. /\ rd2 \in [Link -> Nat] /\ rd2[l] = rd[l] + k /\ \A x \in Link : x # l => rd2[x] = rd[x]
       /\ wr2 \in [Link -> Nat] /\ wr2[m] = hi /\ \A x \in Link : x # m => wr2[x] = wr[x]
       /\ junk2 \in [Link -> Nat] /\ junk2[m] = j /\ \A x \in Link : x # m => junk2[x] = junk[x]
  <2>1. rd2 \in [Link -> Nat] /\ rd2[l] = rd[l] + k /\ \A x \in Link : x # l => rd2[x] = rd[x]
    BY <1>7, <1>8
  <2>2. wr2 \in [Link -> Nat] /\ wr2[m] = hi /\ \A x \in Link : x # m => wr2[x] = wr[x]
    BY <1>7, <1>12
  <2>3. junk2 \in [Link -> Nat] /\ junk2[m] = j /\ \A x \in Link : x # m => junk2[x] = junk[x]
    BY <1>7, <1>8
  <2>4. QED
    BY <2>1, <2>2, <2>3
<1>14. /\ link'[l] = rest /\ link'[m] = link[m] \o Prefix(r, j, chunk)
       /\ \A x \in Link : x # l /\ x # m => link'[x] = link[x]
  BY <1>2, <1>7 DEF TypeOK, l, m
<1> HIDE DEF rd2, wr2, junk2, chunk
<1>15. /\ pc'[r] = AfterFirst(r) /\ AfterFirst(r) = IF r = "A" THEN "consume" ELSE "copy"
       /\ \A q \in Relay : q # r => pc'[q] = pc[q] /\ heard'[q] = heard[q]
       /\ heard'[r] = (heard[r] \/ (Source(r) = "down" /\ k > 0))
  BY <1>2, <1>3, <1>4 DEF TypeOK, AfterFirst
<1>16. Later
  BY <1>3, <1>15 DEF Later
<1>17. ASSUME NEW x \in Link
       PROVE  \/ link'[x] = link[x] /\ rd2[x] = rd[x] /\ wr2[x] = wr[x] /\ junk2[x] = junk[x]
              \/ Holds(link'[x], Ideal(setup, x, junk2[x]), rd2[x], wr2[x], Open(x, shut', pc', done'), reset')
  <2>1. CASE x = m
    <3>1. Holds(link'[m], Ideal(setup, m, junk2[m]), rd2[m], wr2[m], TRUE, reset')
      BY <1>3, <1>7, <1>11, <1>13, <1>14
    <3>2. Holds(link'[m], Ideal(setup, m, junk2[m]), rd2[m], wr2[m], Open(m, shut', pc', done'), reset')
      BY <3>1 DEF Holds
    <3>3. QED
      BY <2>1, <3>2
  <2>2. CASE x = l
    <3>1. Holds(link'[l], Ideal(setup, l, junk2[l]), rd2[l], wr2[l], Open(l, shut, pc, done), reset)
      BY <1>7, <1>9, <1>13, <1>14
    <3>2. Open(l, shut', pc', done') => Open(l, shut, pc, done)
      BY <1>7, <1>16, OpenLater
    <3>3. Holds(link'[l], Ideal(setup, l, junk2[l]), rd2[l], wr2[l], Open(l, shut', pc', done'), reset)
      BY <3>1, <3>2 DEF Holds
    <3>4. QED
      BY <1>3, <2>2, <3>3
  <2>3. CASE x # m /\ x # l
    BY <1>13, <1>14, <2>3
  <2>4. QED
    BY <2>1, <2>2, <2>3
<1>18. Touches(setup, r, rd, wr, junk, rd2, wr2, junk2)
  <2>1. ASSUME NEW d \in Dir
        PROVE  \/ junk2[To(r, d)] = junk[To(r, d)]
               \/ Veiled(setup, To(r, d)) /\ wr[To(r, d)] <= Greet(setup, To(r, d))
    <3>1. CASE To(r, d) = m
      BY <1>5, <1>6, <1>12, <3>1
    <3>2. CASE To(r, d) # m
      BY <1>13, <3>2, FromWires
    <3>3. QED
      BY <3>1, <3>2
  <2>2. \A x \in Link : (\A d \in Dir : x # From(r, d)) => rd2[x] = rd[x]
    BY <1>13 DEF l, Source, Dir
  <2>3. \A x \in Link : (\A d \in Dir : x # To(r, d)) => wr2[x] = wr[x] /\ junk2[x] = junk[x]
    BY <1>13 DEF m, Source, Dir
  <2>4. QED
    BY <2>1, <2>2, <2>3 DEF Touches
<1>19. Placed(setup, r, pc'[r], done'[r], name'[r], rd2, wr2, junk2)
  <2>1. Moving(setup, r, Source(r), rd2, wr2, junk2)
    <3>1. rd2[l] >= Fore(setup, l, junk2[l]) /\ rd2[l] - Fore(setup, l, junk2[l]) = k
      BY <1>6, <1>7, <1>8, <1>12, <1>13
    <3>2. wr2[m] - Fore(setup, m, junk2[m]) = k
      BY <1>8, <1>12, <1>13 DEF hi
    <3>3. QED
      BY <3>1, <3>2 DEF Moving, l, m
  <2>2. CASE r = "A"
    <3>1. Waiting(setup, r, "down", rd2, wr2)
      BY <1>4, <1>7, <1>13, <2>2, Wires DEF Waiting, Link
    <3>2. QED
      BY <1>3, <1>4, <1>15, <2>1, <2>2, <3>1 DEF Placed
  <2>3. CASE r = "B"
    <3>1. Moving(setup, r, "up", rd2, wr2, junk2)
      BY <1>4, <1>7, <1>13, <2>3, Wires, MovingKept DEF Link
    <3>2. QED
      BY <1>3, <1>4, <1>15, <2>1, <2>3, <3>1 DEF Placed, Dir
  <2>4. QED
    BY <2>2, <2>3 DEF Relay
<1>20. Excused(setup, r, pc'[r], heard'[r], report'[r], reset', sent, wr2, junk2)
  <2>1. Excused(setup, r, pc[r], heard[r], report[r], reset, sent, wr, junk)
    BY DEF Good
  <2>2. ASSUME ~heard'[r]
        PROVE  Mute(setup, r, wr2, junk2)
    <3>1. CASE r = "A"
      BY <1>7, <1>13, <1>15, <2>1, <2>2, <3>1, Wires DEF Excused, Mute, Link
    <3>2. CASE r = "B"
      <4>1. ~(Source(r) = "down" /\ k > 0)
        BY <1>15, <2>2
      <4>2. k = 0
        BY <1>4, <1>8, <3>2, <4>1
      <4>3. wr2[m] = Fore(setup, m, junk2[m]) + 0 /\ junk2[m] = j
        BY <1>13, <4>2 DEF hi
      <4>4. wr2[m] <= Fore(setup, m, junk2[m])
        BY <1>12, <4>3
      <4>5. m = To(r, "down")
        BY <1>4, <3>2 DEF m
      <4>6. QED
        BY <4>4, <4>5 DEF Mute
    <3>3. QED
      BY <3>1, <3>2 DEF Relay
  <2>3. ~heard'[r] \/ pc'[r] = "probed" => Mute(setup, r, wr2, junk2)
    BY <1>15, <2>2
  <2>4. pc[r] \notin {"done", "failed"} /\ report'[r] = report[r] /\ reset' = reset
    BY <1>3
  <2>5. QED
    BY <2>1, <2>3, <2>4, ExcusedGoing
<1>21. \A d \in Dir : Whole(setup, To(r, d), wr2, junk2)
  <2>1. Whole(setup, m, wr2, junk2)
    BY <1>8, <1>12, <1>13 DEF Whole, hi
  <2>2. \A x \in Link : x # m => Whole(setup, x, wr2, junk2)
    BY <1>13 DEF Whole, Good
  <2>3. QED
    BY <2>1, <2>2, FromWires
<1>22. Clash(setup, pc', wr2)
  <2>1. Clash(setup, pc', wr)
    BY <1>3, <1>4, <1>15, ClashOn DEF Good
  <2>2. QED
    BY <1>4, <2>1, ClashWritten
<1>23. Supply(setup, pc', shut, sent, wr2, junk2)
  <2>1. Supply(setup, pc, shut, sent, wr, junk)
    BY DEF Good
  <2>2. Supply(setup, pc', shut, sent, wr, junk)
    <3>1. pc'["A"] \in {pc["A"], "failed"} \/ pc["A"] \notin {"proxy", "failed"}
      BY <1>3, <1>15 DEF Relay
    <3>2. QED
      BY <2>1, <3>1, SupplyOn
  <2>3. wr2["CA"] = wr["CA"] /\ wr2["SB"] = wr["SB"]
    BY <1>7, <1>13 DEF Link, Relay
  <2>4. sent["C"] \in Nat /\ sent["S"] \in Nat
    BY DEF TypeOK, Party
  <2>5. CASE r = "A"
    <3>1. k <= sent["C"]
      <4>1. wr["CA"] <= Greet(setup, "CA") + sent["C"]
        BY <1>3, <2>1, <2>5 DEF Supply, Unheeded
      <4>2. Greet(setup, "CA") + k <= wr["CA"] /\ wr["CA"] \in Nat
        BY <1>6, <1>7, <1>9, <2>5
      <4>3. QED
        BY <1>7, <1>8, <1>12, <2>4, <2>5, <4>1, <4>2
    <3>2. wr2["AB"] <= Fore(setup, "AB", junk2["AB"]) + sent["C"]
      <4>1. m = "AB" /\ wr2[m] = Fore(setup, m, junk2[m]) + k /\ junk2[m] = j
        BY <1>7, <1>13, <2>5 DEF hi
      <4>2. QED
        BY <1>8, <1>12, <2>4, <3>1, <4>1
    <3>3. wr2["BA"] <= Fore(setup, "BA", junk2["BA"]) + sent["S"]
      BY <1>7, <1>13, <2>1, <2>5 DEF Supply, Link
    <3>4. QED
      BY <2>2, <2>3, <3>2, <3>3, SupplyWritten
  <2>6. CASE r = "B"
    <3>1. k <= sent["S"]
      <4>1. wr["SB"] <= sent["S"]
        BY <2>1 DEF Supply
      <4>2. k <= wr["SB"] /\ wr["SB"] \in Nat
        BY <1>6, <1>7, <1>8, <1>9, <1>12, <2>6
      <4>3. QED
        BY <1>8, <2>4, <4>1, <4>2
    <3>2. wr2["BA"] <= Fore(setup, "BA", junk2["BA"]) + sent["S"]
      <4>1. m = "BA" /\ wr2[m] = Fore(setup, m, junk2[m]) + k /\ junk2[m] = j
        BY <1>7, <1>13, <2>6 DEF hi
      <4>2. QED
        BY <1>8, <1>12, <2>4, <3>1, <4>1
    <3>3. wr2["AB"] <= Fore(setup, "AB", junk2["AB"]) + sent["C"]
      BY <1>7, <1>13, <2>1, <2>6 DEF Supply, Link
    <3>4. QED
      BY <2>2, <2>3, <3>2, <3>3, SupplyWritten
  <2>7. QED
    BY <2>5, <2>6 DEF Relay
<1>24. Behind(setup, "BS", "AB", wr2, junk2) /\ Behind(setup, "AC", "BA", wr2, junk2)
  <2>1. Behind(setup, "BS", "AB", wr, junk) /\ Behind(setup, "AC", "BA", wr, junk)
    BY DEF Good
  <2>2. /\ "BS" \in Link /\ "AB" \in Link /\ "AC" \in Link /\ "BA" \in Link
        /\ wr2["BS"] = wr["BS"] /\ wr2["AC"] = wr["AC"]
    BY <1>7, <1>13 DEF Link, Relay
  <2>3. wr[m] <= Greet(setup, m)
    BY <1>6, <1>12
  <2>4. CASE r = "A"
    <3>1. Behind(setup, "BS", "AB", wr2, junk2)
      BY <1>7, <2>1, <2>2, <2>3, <2>4, BehindFresh
    <3>2. wr2["BA"] = wr["BA"] /\ junk2["BA"] = junk["BA"]
      BY <1>7, <1>13, <2>2, <2>4
    <3>3. QED
      BY <2>1, <2>2, <3>1, <3>2 DEF Behind
  <2>5. CASE r = "B"
    <3>1. Behind(setup, "AC", "BA", wr2, junk2)
      BY <1>7, <2>1, <2>2, <2>3, <2>5, BehindFresh
    <3>2. wr2["AB"] = wr["AB"] /\ junk2["AB"] = junk["AB"]
      BY <1>7, <1>13, <2>2, <2>5
    <3>3. QED
      BY <2>1, <2>2, <3>1, <3>2 DEF Behind
  <2>6. QED
    BY <2>4, <2>5 DEF Relay
<1>25. /\ \A q \in Relay : q # r => /\ pc'[q] = pc[q] /\ done'[q] = done[q] /\ name'[q] = name[q]
                                   /\ heard'[q] = heard[q] /\ report'[q] = report[q]
       /\ UNCHANGED <<sent, shut, got>>
  BY <1>3, <1>15
<1>26. Sound(r, rd, wr, junk, rd2, wr2, junk2)
  BY <1>16, <1>17, <1>18, <1>19, <1>20, <1>21, <1>22, <1>23, <1>24, <1>25 DEF Sound
<1>27. QED
  BY <1>13, <1>26, RelayStep

(* A step of a relay that only reads. *)
Reads(r, l, at, rd, wr, junk, rd2) ==
  /\ pc[r] \notin {"proxy", "done", "failed"} /\ at \notin {"done", "failed"}
  /\ \A x \in Link : x # l => rd2[x] = rd[x] /\ link'[x] = link[x]
  /\ pc' = [pc EXCEPT ![r] = at]
  /\ \A q \in Relay : q # r => heard'[q] = heard[q]
  /\ UNCHANGED <<setup, name, done, report, sent, shut, got, reset>>
  /\ Holds(link'[l], Ideal(setup, l, junk[l]), rd2[l], wr[l], Open(l, shut, pc, done), reset)
  /\ Placed(setup, r, at, done[r], name[r], rd2, wr, junk)
  /\ ~heard'[r] \/ at = "probed" => Mute(setup, r, wr, junk)
  /\ Clash(setup, pc', wr)

LEMMA ReadStep ==
  ASSUME TypeOK, NEW r \in Relay, NEW d \in Dir, NEW l, l = From(r, d), NEW at,
         NEW rd \in [Link -> Nat], NEW wr \in [Link -> Nat], NEW junk \in [Link -> Nat],
         NEW rd2 \in [Link -> Nat],
         Good(rd, wr, junk), Reads(r, l, at, rd, wr, junk, rd2)
  PROVE  Kept
<1>0. /\ pc[r] \notin {"proxy", "done", "failed"} /\ at \notin {"done", "failed"}
      /\ \A x \in Link : x # l => rd2[x] = rd[x] /\ link'[x] = link[x]
      /\ \A q \in Relay : q # r => heard'[q] = heard[q]
      /\ Holds(link'[l], Ideal(setup, l, junk[l]), rd2[l], wr[l], Open(l, shut, pc, done), reset)
      /\ Placed(setup, r, at, done[r], name[r], rd2, wr, junk)
      /\ ~heard'[r] \/ at = "probed" => Mute(setup, r, wr, junk)
      /\ Clash(setup, pc', wr)
  BY DEF Reads
<1>1. /\ setup' = setup /\ name' = name /\ done' = done /\ report' = report /\ sent' = sent
      /\ shut' = shut /\ got' = got /\ reset' = reset
      /\ pc'[r] = at /\ \A q \in Relay : q # r => pc'[q] = pc[q]
  BY DEF TypeOK, Reads
<1>2. Later
  BY <1>0, <1>1 DEF Later
<1>3. l \in Link
  BY FromWires
<1>4. Holds(link'[l], Ideal(setup, l, junk[l]), rd2[l], wr[l], Open(l, shut', pc', done'), reset')
  <2>1. Open(l, shut', pc', done') => Open(l, shut, pc, done)
    BY <1>2, <1>3, OpenLater
  <2>2. Holds(link'[l], Ideal(setup, l, junk[l]), rd2[l], wr[l], Open(l, shut', pc', done'), reset)
    BY <1>0, <2>1 DEF Holds
  <2>3. QED
    BY <1>1, <2>2
<1>5. \A x \in Link :
        \/ link'[x] = link[x] /\ rd2[x] = rd[x] /\ wr[x] = wr[x] /\ junk[x] = junk[x]
        \/ Holds(link'[x], Ideal(setup, x, junk[x]), rd2[x], wr[x], Open(x, shut', pc', done'), reset')
  BY <1>0, <1>4
<1>6. Touches(setup, r, rd, wr, junk, rd2, wr, junk)
  BY <1>0 DEF Touches
<1>7. Excused(setup, r, pc'[r], heard'[r], report'[r], reset', sent, wr, junk)
  <2>1. Excused(setup, r, pc[r], heard[r], report[r], reset, sent, wr, junk)
    BY DEF Good
  <2>2. ~heard'[r] \/ pc'[r] = "probed" => Mute(setup, r, wr, junk)
    BY <1>0, <1>1
  <2>3. pc[r] \notin {"done", "failed"} /\ report'[r] = report[r] /\ reset' = reset
    BY <1>0, <1>1
  <2>4. QED
    BY <2>1, <2>2, <2>3, ExcusedGoing
<1>8. Supply(setup, pc', shut, sent, wr, junk)
  <2>1. pc'["A"] \in {pc["A"], "failed"} \/ pc["A"] \notin {"proxy", "failed"}
    BY <1>0, <1>1 DEF Relay
  <2>2. QED
    BY <2>1, SupplyOn DEF Good
<1>9. \A e \in Dir : Whole(setup, To(r, e), wr, junk)
  BY FromWires DEF Good
<1>10. /\ \A q \in Relay : q # r => /\ pc'[q] = pc[q] /\ done'[q] = done[q] /\ name'[q] = name[q]
                                   /\ heard'[q] = heard[q] /\ report'[q] = report[q]
       /\ UNCHANGED <<sent, shut, got>>
       /\ Placed(setup, r, pc'[r], done'[r], name'[r], rd2, wr, junk)
       /\ Clash(setup, pc', wr)
       /\ Behind(setup, "BS", "AB", wr, junk) /\ Behind(setup, "AC", "BA", wr, junk)
  BY <1>0, <1>1 DEF Good
<1>11. Sound(r, rd, wr, junk, rd2, wr, junk)
  BY <1>2, <1>5, <1>6, <1>7, <1>8, <1>9, <1>10 DEF Sound
<1>12. QED
  BY <1>11, RelayStep

(* Where a relay before its neighbour's head is, ... *)
LEMMA AtConsume ==
  ASSUME TypeOK, Agreed, NEW r \in Relay,
         NEW rd \in [Link -> Nat], NEW wr \in [Link -> Nat], NEW junk \in [Link -> Nat],
         Good(rd, wr, junk), pc[r] = "consume"
  PROVE  /\ done[r] = {}
         /\ Equal(setup) \/ r = "B"
         /\ setup.mode[r] = IF r = "A" THEN 1 ELSE 2
         /\ Partner(r) = IF r = "A" THEN "down" ELSE "up"
         /\ Waiting(setup, r, Partner(r), rd, wr) /\ Waiting(setup, r, "down", rd, wr)
         /\ r = "A" => Moving(setup, r, "up", rd, wr, junk)
<1>1. Placed(setup, r, pc[r], done[r], name[r], rd, wr, junk)
  BY DEF Good
<1>2. setup.mode[r] # 0 /\ done[r] = {} /\ Waiting(setup, r, "down", rd, wr)
  BY <1>1 DEF Placed
<1>3. Equal(setup) \/ r = "B"
  BY <1>2, ModeConfig DEF Relay
<1>4. setup.mode[r] = IF r = "A" THEN 1 ELSE 2
  BY <1>2, <1>3, ModeConfig DEF Relay
<1>5. IF r = "A" THEN Moving(setup, r, "up", rd, wr, junk) ELSE Waiting(setup, r, "up", rd, wr)
  BY <1>1, <1>4 DEF Placed
<1>6. QED
  BY <1>2, <1>3, <1>4, <1>5 DEF Partner, Relay

(* ... and what it finds there. *)
LEMMA HeadRead ==
  ASSUME TypeOK, Agreed, NEW r \in Relay, NEW l, l = From(r, Partner(r)),
         NEW rd \in [Link -> Nat], NEW wr \in [Link -> Nat], NEW junk \in [Link -> Nat],
         Good(rd, wr, junk), pc[r] = "consume", link[l] # <<>>, ~Ends(Head(link[l]))
  PROVE  /\ rd[l] = Greet(setup, l) /\ rd[l] + 1 <= wr[l]
         /\ Equal(setup) => Veiled(setup, l) /\ Head(link[l]) = OwnHead(junk[l])
         /\ ~Equal(setup) => Head(link[l]) = Chunk(setup, l, 1)
         /\ Holds(Tail(link[l]), Ideal(setup, l, junk[l]), rd[l] + 1, wr[l], Open(l, shut, pc, done), reset)
<1>1. /\ l \in Link /\ junk[l] \in Nat /\ Partner(r) \in Dir
  BY FromWires DEF Partner, Dir
<1>2. /\ setup.mode[r] = IF r = "A" THEN 1 ELSE 2
      /\ Waiting(setup, r, Partner(r), rd, wr)
  BY AtConsume
<1>3. setup.mode[r] # 0 /\ rd[l] = Greet(setup, l)
  BY <1>2 DEF Waiting
<1>4. Holds(link[l], Ideal(setup, l, junk[l]), rd[l], wr[l], Open(l, shut, pc, done), reset)
  BY <1>1, InIs
<1>5. /\ rd[l] + 1 <= wr[l] /\ Head(link[l]) = Ideal(setup, l, junk[l])[rd[l] + 1]
      /\ Holds(Tail(link[l]), Ideal(setup, l, junk[l]), rd[l] + 1, wr[l], Open(l, shut, pc, done), reset)
  BY <1>4, TakeOne
<1>6. ASSUME Equal(setup)
      PROVE  Veiled(setup, l) /\ Head(link[l]) = OwnHead(junk[l])
  <2>1. Veiled(setup, l)
    BY <1>3, <1>6, VeilConfig
  <2>2. QED
    BY <1>1, <1>3, <1>5, <2>1, IdealFront
<1>7. ASSUME ~Equal(setup)
      PROVE  Head(link[l]) = Chunk(setup, l, 1)
  <2>1. ~Veiled(setup, l)
    BY <1>1, <1>7, VeilConfig
  <2>2. Fore(setup, l, junk[l]) = rd[l]
    BY <1>1, <1>3, <2>1, ForeIs
  <2>3. Ideal(setup, l, junk[l])[Fore(setup, l, junk[l]) + 1] = Chunk(setup, l, 1)
    BY <1>1, IdealChunk
  <2>4. QED
    BY <1>5, <2>2, <2>3
<1>8. QED
  BY <1>3, <1>5, <1>6, <1>7

LEMMA ConsumeGood ==
  ASSUME TypeOK, Agreed, NEW r \in Relay,
         NEW rd \in [Link -> Nat], NEW wr \in [Link -> Nat], NEW junk \in [Link -> Nat],
         Good(rd, wr, junk), Consume(r)
  PROVE  Kept
<1> DEFINE l == From(r, Partner(r))
           f == Ideal(setup, l, junk[l])
           op == Open(l, shut, pc, done)
           k == 1 + junk[l]
           rd2 == [rd EXCEPT ![l] = @ + k]
<1>1. /\ pc[r] = "consume" /\ link[l] # <<>> /\ Genuine(Head(link[l]))
      /\ link' = [link EXCEPT ![l] = SubSeq(link[l], 2 + JunkBehind(Head(link[l])), Len(link[l]))]
      /\ heard' = [heard EXCEPT ![r] = @ \/ Partner(r) = "down"]
      /\ pc' = [pc EXCEPT ![r] = AfterConsume(r)]
      /\ UNCHANGED <<setup, name, done, report, sent, shut, got, ended, reset>>
  BY DEF Consume, Hear, GoTo, parties
<1>2. /\ l \in Link /\ junk[l] \in Nat /\ rd[l] \in Nat /\ wr[l] \in Nat /\ Partner(r) \in Dir
      /\ link[l] \in Seq(Thing) /\ k \in Nat
  <2>1. Partner(r) \in Dir /\ l \in Link
    BY FromWires DEF Partner, Dir
  <2>2. junk[l] \in Nat /\ rd[l] \in Nat /\ wr[l] \in Nat /\ link[l] \in Seq(Thing)
    BY <2>1 DEF TypeOK
  <2>3. QED
    BY <2>1, <2>2
<1>3. /\ done[r] = {}
      /\ setup.mode[r] = IF r = "A" THEN 1 ELSE 2
      /\ Partner(r) = IF r = "A" THEN "down" ELSE "up"
      /\ Waiting(setup, r, Partner(r), rd, wr) /\ Waiting(setup, r, "down", rd, wr)
      /\ r = "A" => Moving(setup, r, "up", rd, wr, junk)
  BY <1>1, AtConsume
<1>4. ~Ends(Head(link[l]))
  BY <1>1 DEF Genuine, Ends
<1>5. /\ rd[l] = Greet(setup, l) /\ rd[l] + 1 <= wr[l]
      /\ Equal(setup) => Veiled(setup, l) /\ Head(link[l]) = OwnHead(junk[l])
      /\ ~Equal(setup) => Head(link[l]) = Chunk(setup, l, 1)
  BY <1>1, <1>4, HeadRead
<1>6. Equal(setup)
  <2>1. Chunk(setup, l, 1).kind = "data"
    BY DEF Chunk, Data, Item
  <2>2. QED
    BY <1>1, <1>5, <2>1 DEF Genuine
<1>7. /\ Fore(setup, l, junk[l]) = Greet(setup, l) + 1 + junk[l] /\ Greet(setup, l) \in Nat
      /\ ~Veiled(setup, To(r, Partner(r))) /\ To(r, Partner(r)) \in Link
  <2>1. setup.mode[r] # 0
    BY <1>3
  <2>2. Veiled(setup, l) /\ ~Veiled(setup, To(r, Partner(r)))
    BY <1>6, <2>1, VeilConfig
  <2>3. QED
    BY <1>2, <2>2, ForeIs, FromWires
<1>8. 2 + JunkBehind(Head(link[l])) = k + 1
  BY <1>2, <1>5, <1>6 DEF JunkBehind, OwnHead, Item
<1>9. rd[l] + k <= wr[l] /\ rd[l] + k = Fore(setup, l, junk[l])
  <2>1. Whole(setup, l, wr, junk)
    BY <1>2 DEF Good
  <2> HIDE DEF l
  <2>2. /\ rd[l] = Greet(setup, l) /\ rd[l] + 1 <= wr[l] /\ rd[l] \in Nat /\ wr[l] \in Nat
        /\ junk[l] \in Nat /\ Fore(setup, l, junk[l]) = rd[l] + 1 + junk[l]
    BY <1>2, <1>5, <1>7
  <2>3. wr[l] >= Fore(setup, l, junk[l])
    BY <2>1, <2>2 DEF Whole
  <2>4. QED
    BY <2>2, <2>3
<1>10. Holds(link[l], f, rd[l], wr[l], op, reset)
  BY <1>1, <1>2, InIs
<1>11. \A x \in Nat \ {0} : ~Ends(f[x])
  BY <1>2, IdealType
<1> HIDE DEF f, op
<1>12. Holds(SubSeq(link[l], k + 1, Len(link[l])), f, rd[l] + k, wr[l], op, reset)
  <2>1. wr[l] - rd[l] <= Len(link[l]) /\ \A i \in 1 .. wr[l] - rd[l] : ~Ends(link[l][i])
    <3>1. link[l] # <<>>
      BY <1>1
    <3>2. QED
      BY <1>4, <1>10, <1>11, <3>1, AllThere
  <2>2. k \in 0 .. Len(link[l]) /\ \A i \in 1 .. k : ~Ends(link[l][i])
    <3>1. Len(link[l]) \in Nat
      BY <1>2, LenProperties
    <3>2. QED
      BY <1>2, <1>9, <2>1, <3>1
  <2> HIDE DEF k
  <2>3. QED
    BY <1>10, <2>2, TakeMany
<1>13. link' = [link EXCEPT ![l] = SubSeq(link[l], k + 1, Len(link[l]))]
  BY <1>1, <1>8
<1> HIDE DEF l, k
<1>14. /\ rd2 \in [Link -> Nat] /\ rd2[l] = rd[l] + k
       /\ \A x \in Link : x # l => rd2[x] = rd[x] /\ link'[x] = link[x]
       /\ link'[l] = SubSeq(link[l], k + 1, Len(link[l]))
  BY <1>2, <1>13 DEF TypeOK
<1> HIDE DEF rd2
<1>15. Holds(link'[l], Ideal(setup, l, junk[l]), rd2[l], wr[l], Open(l, shut, pc, done), reset)
  BY <1>12, <1>14 DEF f, op
<1>16. Moving(setup, r, Partner(r), rd2, wr, junk)
  <2> DEFINE m == To(r, Partner(r))
  <2>1. Fore(setup, m, junk[m]) = Greet(setup, m) /\ Greet(setup, m) \in Nat
    <3>1. junk[m] \in Nat
      BY <1>7
    <3>2. QED
      BY <1>7, <3>1, ForeIs
  <2>2. wr[m] = Greet(setup, m)
    BY <1>3 DEF Waiting
  <2>3. rd2[l] = Fore(setup, l, junk[l]) /\ Fore(setup, l, junk[l]) \in Nat
    BY <1>2, <1>7, <1>9, <1>14
  <2> HIDE DEF m
  <2>4. /\ rd2[l] >= Fore(setup, l, junk[l])
        /\ wr[m] - Fore(setup, m, junk[m]) = rd2[l] - Fore(setup, l, junk[l])
    BY <2>1, <2>2, <2>3
  <2>5. QED
    BY <2>4 DEF Moving, l, m
<1>17. Placed(setup, r, AfterConsume(r), done[r], name[r], rd2, wr, junk)
  <2>1. CASE r = "A"
    <3>1. From(r, "up") # l /\ From(r, "up") \in Link
      BY <1>3, <2>1, Wires DEF l, Link
    <3>2. Moving(setup, r, "up", rd2, wr, junk)
      BY <1>3, <1>14, <2>1, <3>1, MovingKept
    <3>3. AfterConsume(r) = "copy"
      BY <1>3, <2>1 DEF AfterConsume
    <3>4. QED
      BY <1>3, <1>16, <2>1, <3>2, <3>3 DEF Placed, Dir
  <2>2. CASE r = "B"
    <3>1. From(r, "down") # l /\ From(r, "down") \in Link
      BY <1>3, <2>2, Wires DEF l, Link
    <3>2. Waiting(setup, r, "down", rd2, wr)
      BY <1>3, <1>14, <3>1 DEF Waiting
    <3>3. AfterConsume(r) = "first"
      BY <1>3, <2>2 DEF AfterConsume
    <3>4. QED
      BY <1>3, <1>16, <2>2, <3>2, <3>3 DEF Placed
  <2>3. QED
    BY <2>1, <2>2 DEF Relay
<1>18. AfterConsume(r) \in {"copy", "first"}
  BY DEF AfterConsume
<1>19. ~heard'[r] \/ AfterConsume(r) = "probed" => Mute(setup, r, wr, junk)
  <2>1. Excused(setup, r, pc[r], heard[r], report[r], reset, sent, wr, junk)
    BY DEF Good
  <2>2. ~heard'[r] => ~heard[r]
    BY <1>1 DEF TypeOK
  <2>3. QED
    BY <1>18, <2>1, <2>2 DEF Excused
<1>20. Clash(setup, pc', wr)
  BY <1>1, <1>6, <1>18, ClashOn DEF Good
<1>21. /\ pc[r] \notin {"proxy", "done", "failed"} /\ AfterConsume(r) \notin {"done", "failed"}
       /\ pc' = [pc EXCEPT ![r] = AfterConsume(r)]
       /\ \A q \in Relay : q # r => heard'[q] = heard[q]
       /\ UNCHANGED <<setup, name, done, report, sent, shut, got, reset>>
       /\ l = From(r, Partner(r)) /\ Partner(r) \in Dir
  BY <1>1, <1>2, <1>18 DEF l, TypeOK
<1>22. Reads(r, l, AfterConsume(r), rd, wr, junk, rd2)
  BY <1>14, <1>15, <1>17, <1>19, <1>20, <1>21 DEF Reads
<1>23. QED
  BY <1>14, <1>21, <1>22, ReadStep

LEMMA ProbedGood ==
  ASSUME TypeOK, Agreed, NEW r \in Relay,
         NEW rd \in [Link -> Nat], NEW wr \in [Link -> Nat], NEW junk \in [Link -> Nat],
         Good(rd, wr, junk), Probed(r)
  PROVE  Kept
<1> DEFINE l == From(r, Partner(r))
           rd2 == [rd EXCEPT ![l] = @ + 1]
<1>1. /\ pc[r] = "consume" /\ link[l] # <<>> /\ ~Ends(Head(link[l])) /\ ~Genuine(Head(link[l]))
      /\ link' = [link EXCEPT ![l] = Tail(link[l])]
      /\ heard' = [heard EXCEPT ![r] = @ \/ Partner(r) = "down"]
      /\ pc' = [pc EXCEPT ![r] = "probed"]
      /\ UNCHANGED <<setup, name, done, report, sent, shut, got, ended, reset>>
  BY DEF Probed, Hear, GoTo, parties
<1>2. /\ l \in Link /\ rd[l] \in Nat /\ Partner(r) \in Dir
      /\ To(r, "down") \in Link /\ junk[To(r, "down")] \in Nat
  BY FromWires DEF Partner, Dir
<1>3. /\ done[r] = {}
      /\ setup.mode[r] = IF r = "A" THEN 1 ELSE 2
      /\ Equal(setup) \/ r = "B"
      /\ Waiting(setup, r, "down", rd, wr)
  BY <1>1, AtConsume
<1>4. /\ Equal(setup) => Head(link[l]) = OwnHead(junk[l])
      /\ Holds(Tail(link[l]), Ideal(setup, l, junk[l]), rd[l] + 1, wr[l], Open(l, shut, pc, done), reset)
  BY <1>1, HeadRead
<1>5. ~Equal(setup) /\ r = "B"
  BY <1>1, <1>3, <1>4 DEF Genuine, OwnHead, Item
<1> HIDE DEF l
<1>6. /\ rd2 \in [Link -> Nat] /\ rd2[l] = rd[l] + 1
      /\ \A x \in Link : x # l => rd2[x] = rd[x] /\ link'[x] = link[x]
      /\ link'[l] = Tail(link[l])
  BY <1>1, <1>2 DEF TypeOK
<1> HIDE DEF rd2
<1>7. Holds(link'[l], Ideal(setup, l, junk[l]), rd2[l], wr[l], Open(l, shut, pc, done), reset)
  BY <1>4, <1>6
<1>8. Placed(setup, r, "probed", done[r], name[r], rd2, wr, junk)
  BY <1>3 DEF Placed
<1>9. Mute(setup, r, wr, junk)
  BY <1>2, <1>3, ForeIs DEF Waiting, Mute
<1>10. Clash(setup, pc', wr)
  <2>1. Clash(setup, pc, wr)
    BY DEF Good
  <2>2. pc'["B"] = "probed"
    BY <1>1, <1>5 DEF TypeOK
  <2>3. QED
    BY <1>5, <2>1, <2>2 DEF Clash
<1>11. /\ pc[r] \notin {"proxy", "done", "failed"}
       /\ \A q \in Relay : q # r => heard'[q] = heard[q]
       /\ UNCHANGED <<setup, name, done, report, sent, shut, got, reset>>
       /\ pc' = [pc EXCEPT ![r] = "probed"]
       /\ l = From(r, Partner(r)) /\ Partner(r) \in Dir
       /\ "probed" \notin {"done", "failed"}
       /\ ~heard'[r] \/ "probed" = "probed" => Mute(setup, r, wr, junk)
  BY <1>1, <1>2, <1>9 DEF l, TypeOK
<1>12. Reads(r, l, "probed", rd, wr, junk, rd2)
  BY <1>6, <1>7, <1>8, <1>10, <1>11 DEF Reads
<1>13. QED
  BY <1>6, <1>11, <1>12, ReadStep

-----------------------------------------------------------------------------
(* The copy.                                                               *)
LEMMA PlainLinks ==
  ASSUME NEW s, NEW n
  PROVE  \A k \in {"CA", "BS", "SB", "AC"} : Fore(s, k, n) = Greet(s, k)
BY DEF Fore, Veiled, Greet

LEMMA LinkPairs ==
  ASSUME NEW r \in Relay, NEW d \in Dir
  PROVE  \/ From(r, d) = "CA" /\ To(r, d) = "AB" /\ r = "A" /\ d = "up"
         \/ From(r, d) = "AB" /\ To(r, d) = "BS" /\ r = "B" /\ d = "up"
         \/ From(r, d) = "SB" /\ To(r, d) = "BA" /\ r = "B" /\ d = "down"
         \/ From(r, d) = "BA" /\ To(r, d) = "AC" /\ r = "A" /\ d = "down"
BY Wires DEF Relay, Dir

(* The next chunk is read and passed on. *)
LEMMA NextChunk ==
  ASSUME TypeOK, Agreed, NEW r \in Relay, NEW d \in Dir, NEW l, l = From(r, d), NEW m, m = To(r, d),
         NEW rd \in [Link -> Nat], NEW wr \in [Link -> Nat], NEW junk \in [Link -> Nat],
         Good(rd, wr, junk),
         pc[r] = "copy", d \notin done[r], link[l] # <<>>, ~Ends(Head(link[l]))
  PROVE  /\ Equal(setup) \/ r = "A"
         /\ rd[l] + 1 <= wr[l]
         /\ rd[l] >= Fore(setup, l, junk[l])
         /\ wr[m] - Fore(setup, m, junk[m]) = rd[l] - Fore(setup, l, junk[l])
         /\ wr[m] >= Fore(setup, m, junk[m])
         /\ Holds(Tail(link[l]), Ideal(setup, l, junk[l]), rd[l] + 1, wr[l], Open(l, shut, pc, done), reset)
         /\ Holds(Append(link[m], Copied(r, Head(link[l]))), Ideal(setup, m, junk[m]), rd[m], wr[m] + 1, TRUE, reset)
<1> DEFINE f == Ideal(setup, l, junk[l])
           g == Ideal(setup, m, junk[m])
           x == rd[l] - Fore(setup, l, junk[l]) + 1
<1>1. pc[r] = "copy" /\ d \notin done[r] /\ link[l] # <<>> /\ ~Ends(Head(link[l]))
  OBVIOUS
<1>2. /\ l \in Link /\ m \in Link /\ junk[l] \in Nat /\ junk[m] \in Nat
      /\ rd[l] \in Nat /\ wr[m] \in Nat
  BY FromWires
<1>3. Equal(setup) \/ r = "A"
  BY <1>1 DEF Good, Clash, Relay
<1>4. Fore(setup, l, junk[l]) \in Nat /\ Fore(setup, m, junk[m]) \in Nat
  BY <1>2, ForeIs
<1>5. /\ rd[l] >= Fore(setup, l, junk[l])
      /\ wr[m] - Fore(setup, m, junk[m]) = rd[l] - Fore(setup, l, junk[l])
  <2>1. Placed(setup, r, pc[r], done[r], name[r], rd, wr, junk)
    BY DEF Good
  <2>2. Moving(setup, r, d, rd, wr, junk)
    BY <1>1, <2>1 DEF Placed
  <2>3. QED
    BY <2>2 DEF Moving
<1>6. /\ x \in Nat \ {0} /\ rd[l] + 1 = Fore(setup, l, junk[l]) + x
      /\ wr[m] + 1 = Fore(setup, m, junk[m]) + x /\ wr[m] >= Fore(setup, m, junk[m])
  BY <1>2, <1>4, <1>5
<1> HIDE DEF x
<1>7. f[rd[l] + 1] = Chunk(setup, l, x) /\ g[wr[m] + 1] = Chunk(setup, m, x)
  <2>1. f[Fore(setup, l, junk[l]) + x] = Chunk(setup, l, x)
    BY <1>2, <1>6, IdealChunk
  <2>2. g[Fore(setup, m, junk[m]) + x] = Chunk(setup, m, x)
    BY <1>2, <1>6, IdealChunk
  <2>3. QED
    BY <1>6, <2>1, <2>2
<1>8. Holds(link[l], f, rd[l], wr[l], Open(l, shut, pc, done), reset)
  BY <1>1, InIs
<1>9. Holds(link[m], g, rd[m], wr[m], TRUE, reset)
  BY <1>1, OutIs
<1>10. g[wr[m] + 1] \in Thing
  <2>1. wr[m] + 1 \in Nat \ {0}
    BY <1>2
  <2>2. QED
    BY <1>2, <2>1, IdealType
<1> HIDE DEF f, g
<1>11. /\ rd[l] + 1 <= wr[l] /\ Head(link[l]) = f[rd[l] + 1]
       /\ Holds(Tail(link[l]), f, rd[l] + 1, wr[l], Open(l, shut, pc, done), reset)
  BY <1>1, <1>8, TakeOne
<1>12. Copied(r, Head(link[l])) = g[wr[m] + 1]
  <2>1. x \in Nat
    BY <1>6
  <2>2. Flip(r, Chunk(setup, l, x)) = Chunk(setup, m, x)
    BY <1>3, <2>1, FlipChunk
  <2>3. QED
    BY <1>7, <1>11, <2>2 DEF Copied
<1>13. Holds(Append(link[m], g[wr[m] + 1]), g, rd[m], wr[m] + 1, TRUE, reset)
  BY <1>9, <1>10, PutOne
<1>14. QED
  BY <1>3, <1>5, <1>6, <1>11, <1>12, <1>13 DEF f, g

LEMMA CopyGood ==
  ASSUME TypeOK, Agreed, NEW r \in Relay, NEW d \in Dir,
         NEW rd \in [Link -> Nat], NEW wr \in [Link -> Nat], NEW junk \in [Link -> Nat],
         Good(rd, wr, junk), Copy(r, d)
  PROVE  Kept
<1> DEFINE l == From(r, d)
           m == To(r, d)
           rd2 == [rd EXCEPT ![l] = @ + 1]
           wr2 == [wr EXCEPT ![m] = @ + 1]
<1>1. /\ pc[r] = "copy" /\ d \notin done[r] /\ link[l] # <<>> /\ ~Ends(Head(link[l]))
      /\ link' = [link EXCEPT ![l] = Tail(link[l]), ![m] = Append(@, Copied(r, Head(link[l])))]
      /\ heard' = [heard EXCEPT ![r] = @ \/ d = "down"]
      /\ UNCHANGED <<setup, pc, name, done, report, sent, shut, got, ended, reset>>
  BY DEF Copy, Hear, parties
<1>2. /\ l \in Link /\ m \in Link /\ l # m
      /\ \A e \in Dir : e # d => /\ From(r, e) \in Link /\ To(r, e) \in Link
                                 /\ From(r, e) # l /\ To(r, e) # m
  BY FromWires
<1>3. /\ Equal(setup) \/ r = "A"
      /\ rd[l] + 1 <= wr[l]
      /\ rd[l] >= Fore(setup, l, junk[l])
      /\ wr[m] - Fore(setup, m, junk[m]) = rd[l] - Fore(setup, l, junk[l])
      /\ wr[m] >= Fore(setup, m, junk[m])
      /\ Holds(Tail(link[l]), Ideal(setup, l, junk[l]), rd[l] + 1, wr[l], Open(l, shut, pc, done), reset)
      /\ Holds(Append(link[m], Copied(r, Head(link[l]))), Ideal(setup, m, junk[m]), rd[m], wr[m] + 1, TRUE, reset)
  BY <1>1, NextChunk
<1>4. \/ l = "CA" /\ m = "AB" /\ r = "A" /\ d = "up"
      \/ l = "AB" /\ m = "BS" /\ r = "B" /\ d = "up"
      \/ l = "SB" /\ m = "BA" /\ r = "B" /\ d = "down"
      \/ l = "BA" /\ m = "AC" /\ r = "A" /\ d = "down"
  BY LinkPairs
<1> HIDE DEF l, m
<1>5. /\ rd[l] \in Nat /\ wr[l] \in Nat /\ wr[m] \in Nat /\ junk[l] \in Nat /\ junk[m] \in Nat
      /\ Fore(setup, l, junk[l]) \in Nat /\ Fore(setup, m, junk[m]) \in Nat
  <2>1. rd[l] \in Nat /\ wr[l] \in Nat /\ wr[m] \in Nat /\ junk[l] \in Nat /\ junk[m] \in Nat
    BY <1>2
  <2>2. QED
    BY <1>2, <2>1, ForeIs
<1>6. /\ rd2 \in [Link -> Nat] /\ rd2[l] = rd[l] + 1 /\ \A x \in Link : x # l => rd2[x] = rd[x]
      /\ wr2 \in [Link -> Nat] /\ wr2[m] = wr[m] + 1 /\ \A x \in Link : x # m => wr2[x] = wr[x]
  BY <1>2, <1>5
<1>7. /\ link'[l] = Tail(link[l]) /\ link'[m] = Append(link[m], Copied(r, Head(link[l])))
      /\ \A x \in Link : x # l /\ x # m => link'[x] = link[x]
  BY <1>1, <1>2 DEF TypeOK
<1> HIDE DEF rd2, wr2
<1>8. /\ setup' = setup /\ pc' = pc /\ name' = name /\ done' = done /\ report' = report
      /\ sent' = sent /\ shut' = shut /\ got' = got /\ reset' = reset
      /\ \A q \in Relay : q # r => heard'[q] = heard[q]
      /\ heard'[r] = (heard[r] \/ d = "down")
  BY <1>1 DEF TypeOK
<1>9. Later
  BY <1>8 DEF Later
<1>10. ASSUME NEW x \in Link
       PROVE  \/ link'[x] = link[x] /\ rd2[x] = rd[x] /\ wr2[x] = wr[x] /\ junk[x] = junk[x]
              \/ Holds(link'[x], Ideal(setup, x, junk[x]), rd2[x], wr2[x], Open(x, shut', pc', done'), reset')
  <2>1. CASE x = m
    <3>1. Holds(link'[m], Ideal(setup, m, junk[m]), rd2[m], wr2[m], TRUE, reset')
      BY <1>2, <1>3, <1>6, <1>7, <1>8
    <3>2. Holds(link'[m], Ideal(setup, m, junk[m]), rd2[m], wr2[m], Open(m, shut', pc', done'), reset')
      BY <3>1 DEF Holds
    <3>3. QED
      BY <2>1, <3>2
  <2>2. CASE x = l
    BY <1>2, <1>3, <1>6, <1>7, <1>8, <2>2
  <2>3. CASE x # m /\ x # l
    BY <1>6, <1>7, <2>3
  <2>4. QED
    BY <2>1, <2>2, <2>3
<1>11. Touches(setup, r, rd, wr, junk, rd2, wr2, junk)
  BY <1>6 DEF Touches, l, m
<1>12. Moving(setup, r, d, rd2, wr2, junk)
  <2>1. /\ rd2[l] >= Fore(setup, l, junk[l])
        /\ wr2[m] - Fore(setup, m, junk[m]) = rd2[l] - Fore(setup, l, junk[l])
    BY <1>3, <1>5, <1>6
  <2>2. QED
    BY <2>1 DEF Moving, l, m
<1>13. Placed(setup, r, pc'[r], done'[r], name'[r], rd2, wr2, junk)
  <2>1. Placed(setup, r, pc[r], done[r], name[r], rd, wr, junk)
    BY DEF Good
  <2>2. ASSUME NEW e \in Dir
        PROVE  Moving(setup, r, e, rd2, wr2, junk)
    <3>1. CASE e = d
      BY <1>12, <3>1
    <3>2. CASE e # d
      <4>1. Moving(setup, r, e, rd, wr, junk)
        BY <1>1, <2>1 DEF Placed
      <4>2. rd2[From(r, e)] = rd[From(r, e)] /\ wr2[To(r, e)] = wr[To(r, e)]
        BY <1>2, <1>6, <3>2
      <4>3. QED
        BY <4>1, <4>2, MovingKept
    <3>3. QED
      BY <3>1, <3>2
  <2>3. QED
    BY <1>1, <1>8, <2>1, <2>2 DEF Placed
<1>14. Excused(setup, r, pc'[r], heard'[r], report'[r], reset', sent, wr2, junk)
  <2>1. Excused(setup, r, pc[r], heard[r], report[r], reset, sent, wr, junk)
    BY DEF Good
  <2>2. ASSUME ~heard'[r]
        PROVE  Mute(setup, r, wr2, junk)
    <3>1. ~heard[r] /\ d # "down"
      BY <1>8, <2>2
    <3>2. Mute(setup, r, wr, junk)
      BY <2>1, <3>1 DEF Excused
    <3>3. wr2[To(r, "down")] = wr[To(r, "down")]
      BY <1>2, <1>6, <3>1 DEF Dir
    <3>4. QED
      BY <3>2, <3>3 DEF Mute
  <2>3. ~heard'[r] \/ pc'[r] = "probed" => Mute(setup, r, wr2, junk)
    BY <1>1, <1>8, <2>2
  <2>4. pc[r] \notin {"done", "failed"} /\ report'[r] = report[r] /\ reset' = reset
    BY <1>1, <1>8
  <2>5. QED
    BY <2>1, <2>3, <2>4, ExcusedGoing
<1>15. \A e \in Dir : Whole(setup, To(r, e), wr2, junk)
  <2>1. Whole(setup, m, wr2, junk)
    BY <1>3, <1>5, <1>6 DEF Whole
  <2>2. \A x \in Link : x # m => Whole(setup, x, wr2, junk)
    BY <1>6 DEF Whole, Good
  <2>3. QED
    BY <2>1, <2>2, FromWires
<1>16. Clash(setup, pc', wr2)
  <2>1. Clash(setup, pc, wr)
    BY DEF Good
  <2>2. Equal(setup) \/ (wr2["BS"] = wr["BS"] /\ wr2["BA"] = wr["BA"])
    BY <1>3, <1>4, <1>6 DEF Link
  <2>3. QED
    BY <1>8, <2>1, <2>2 DEF Clash
<1>17. Supply(setup, pc', shut, sent, wr2, junk)
  <2>1. Supply(setup, pc, shut, sent, wr, junk)
    BY DEF Good
  <2>2. wr2["CA"] = wr["CA"] /\ wr2["SB"] = wr["SB"]
    BY <1>4, <1>6 DEF Link
  <2>3. sent["C"] \in Nat /\ sent["S"] \in Nat
    BY DEF TypeOK, Party
  <2>4. wr2["AB"] <= Fore(setup, "AB", junk["AB"]) + sent["C"]
    <3>1. CASE m = "AB"
      <4>1. l = "CA" /\ pc["A"] = "copy"
        BY <1>1, <1>4, <3>1
      <4>2. wr[l] <= Fore(setup, l, junk[l]) + sent["C"]
        BY <2>1, <4>1, PlainLinks DEF Supply, Unheeded
      <4>3. wr2[m] <= Fore(setup, m, junk[m]) + sent["C"]
        BY <1>3, <1>5, <1>6, <2>3, <4>2
      <4>4. QED
        BY <3>1, <4>3
    <3>2. CASE m # "AB"
      BY <1>6, <2>1, <3>2 DEF Supply, Link
    <3>3. QED
      BY <3>1, <3>2
  <2>5. wr2["BA"] <= Fore(setup, "BA", junk["BA"]) + sent["S"]
    <3>1. CASE m = "BA"
      <4>1. l = "SB"
        BY <1>4, <3>1
      <4>2. Fore(setup, l, junk[l]) = Greet(setup, l) /\ Greet(setup, l) = 0
        BY <4>1, PlainLinks DEF Greet, Greeted
      <4>3. wr[l] <= Fore(setup, l, junk[l]) + sent["S"]
        BY <1>5, <2>1, <2>3, <4>1, <4>2 DEF Supply
      <4>4. wr2[m] <= Fore(setup, m, junk[m]) + sent["S"]
        BY <1>3, <1>5, <1>6, <2>3, <4>3
      <4>5. QED
        BY <3>1, <4>4
    <3>2. CASE m # "BA"
      BY <1>6, <2>1, <3>2 DEF Supply, Link
    <3>3. QED
      BY <3>1, <3>2
  <2>6. Supply(setup, pc, shut, sent, wr2, junk)
    BY <2>1, <2>2, <2>4, <2>5, SupplyWritten
  <2>7. QED
    BY <1>8, <2>6
<1>18. ASSUME NEW x \in Link, NEW y \in Link, <<x, y>> \in {<<"BS", "AB">>, <<"AC", "BA">>}
       PROVE  Behind(setup, x, y, wr2, junk)
  <2>1. Behind(setup, x, y, wr, junk)
    BY <1>18 DEF Good
  <2>2. CASE m = x
    <3>1. l = y /\ Fore(setup, m, junk[m]) = Greet(setup, m)
      BY <1>4, <1>18, <2>2, PlainLinks
    <3>2. wr2[m] - Greet(setup, m) <= wr2[l] - Fore(setup, l, junk[l])
      BY <1>2, <1>3, <1>5, <1>6, <3>1
    <3>3. QED
      BY <2>2, <3>1, <3>2 DEF Behind
  <2>3. CASE m # x
    <3>1. wr2[x] = wr[x] /\ wr[y] <= wr2[y]
      BY <1>5, <1>6, <2>3
    <3>2. QED
      BY <1>6, <2>1, <3>1, BehindOn
  <2>4. QED
    BY <2>2, <2>3
<1>19. Behind(setup, "BS", "AB", wr2, junk) /\ Behind(setup, "AC", "BA", wr2, junk)
  BY <1>18 DEF Link
<1>20. /\ \A q \in Relay : q # r => /\ pc'[q] = pc[q] /\ done'[q] = done[q] /\ name'[q] = name[q]
                                   /\ heard'[q] = heard[q] /\ report'[q] = report[q]
       /\ UNCHANGED <<sent, shut, got>>
  BY <1>8
<1>21. Sound(r, rd, wr, junk, rd2, wr2, junk)
  BY <1>9, <1>10, <1>11, <1>13, <1>14, <1>15, <1>16, <1>17, <1>19, <1>20 DEF Sound
<1>22. QED
  BY <1>6, <1>21, RelayStep

LEMMA CopyEndsGood ==
  ASSUME TypeOK, Agreed, NEW r \in Relay, NEW d \in Dir,
         NEW rd \in [Link -> Nat], NEW wr \in [Link -> Nat], NEW junk \in [Link -> Nat],
         Good(rd, wr, junk), CopyEnds(r, d)
  PROVE  Kept
<1> DEFINE l == From(r, d)
           m == To(r, d)
<1>1. /\ pc[r] = "copy" /\ d \notin done[r] /\ link[l] # <<>> /\ Head(link[l]) = Eof
      /\ link' = [link EXCEPT ![l] = Tail(link[l]), ![m] = Append(@, Eof)]
      /\ done' = [done EXCEPT ![r] = @ \cup {d}]
      /\ UNCHANGED <<setup, pc, name, heard, report, sent, shut, got, ended, reset>>
  BY DEF CopyEnds, parties
<1>2. l \in Link /\ m \in Link /\ l # m /\ junk[l] \in Nat
  BY FromWires
<1>3. /\ setup' = setup /\ pc' = pc /\ name' = name /\ heard' = heard /\ report' = report
      /\ sent' = sent /\ shut' = shut /\ got' = got /\ reset' = reset
      /\ d \in done'[r] /\ done[r] \subseteq done'[r] /\ \A q \in Relay : q # r => done'[q] = done[q]
  BY <1>1 DEF TypeOK
<1>4. /\ link'[l] = Tail(link[l]) /\ link'[m] = Append(link[m], Eof)
      /\ \A x \in Link : x # l /\ x # m => link'[x] = link[x]
  BY <1>1, <1>2 DEF TypeOK
<1>5. Later
  BY <1>3 DEF Later
<1>6. Holds(link'[l], Ideal(setup, l, junk[l]), rd[l], wr[l], Open(l, shut', pc', done'), reset')
  <2>1. Holds(link[l], Ideal(setup, l, junk[l]), rd[l], wr[l], Open(l, shut, pc, done), reset)
    BY <1>1, InIs
  <2>2. \A x \in Nat \ {0} : ~Ends(Ideal(setup, l, junk[l])[x])
    BY <1>2, IdealType
  <2>3. link[l] # <<>> /\ Ends(Head(link[l]))
    BY <1>1, Terminators
  <2> DEFINE f == Ideal(setup, l, junk[l])
  <2> HIDE DEF l, f
  <2>4. Holds(Tail(link[l]), f, rd[l], wr[l], Open(l, shut, pc, done), reset)
    BY <2>1, <2>2, <2>3, TakeEnd DEF f
  <2>5. Open(l, shut', pc', done') => Open(l, shut, pc, done)
    BY <1>2, <1>5, OpenLater
  <2>6. Holds(link'[l], f, rd[l], wr[l], Open(l, shut', pc', done'), reset)
    BY <1>4, <2>4, <2>5 DEF Holds
  <2>7. QED
    BY <1>3, <2>6 DEF f
<1>7. Holds(link'[m], Ideal(setup, m, junk[m]), rd[m], wr[m], Open(m, shut', pc', done'), reset')
  <2>1. Holds(link[m], Ideal(setup, m, junk[m]), rd[m], wr[m], TRUE, reset)
    BY <1>1, OutIs
  <2>2. ~Open(m, shut', pc', done')
    BY <1>3 DEF Open
  <2> DEFINE f == Ideal(setup, m, junk[m])
  <2> HIDE DEF m, f
  <2>3. Holds(link'[m], f, rd[m], wr[m], FALSE, reset)
    BY <1>4, <2>1, PutEnd DEF f
  <2>4. Holds(link'[m], f, rd[m], wr[m], Open(m, shut', pc', done'), reset)
    BY <2>2, <2>3 DEF Holds
  <2>5. QED
    BY <1>3, <2>4 DEF f
<1> HIDE DEF l, m
<1>8. \A x \in Link :
        \/ link'[x] = link[x] /\ rd[x] = rd[x] /\ wr[x] = wr[x] /\ junk[x] = junk[x]
        \/ Holds(link'[x], Ideal(setup, x, junk[x]), rd[x], wr[x], Open(x, shut', pc', done'), reset')
  BY <1>4, <1>6, <1>7
<1>9. Placed(setup, r, pc'[r], done'[r], name'[r], rd, wr, junk)
  <2>1. Placed(setup, r, pc[r], done[r], name[r], rd, wr, junk)
    BY DEF Good
  <2>2. QED
    BY <1>1, <1>3, <2>1 DEF Placed
<1>10. Touches(setup, r, rd, wr, junk, rd, wr, junk)
  BY DEF Touches
<1>11. Excused(setup, r, pc'[r], heard'[r], report'[r], reset', sent, wr, junk)
  BY <1>3 DEF Good
<1>12. /\ \A e \in Dir : Whole(setup, To(r, e), wr, junk)
       /\ Clash(setup, pc', wr) /\ Supply(setup, pc', shut, sent, wr, junk)
       /\ Behind(setup, "BS", "AB", wr, junk) /\ Behind(setup, "AC", "BA", wr, junk)
  BY <1>3, FromWires DEF Good
<1>13. /\ \A q \in Relay : q # r => /\ pc'[q] = pc[q] /\ done'[q] = done[q] /\ name'[q] = name[q]
                                   /\ heard'[q] = heard[q] /\ report'[q] = report[q]
       /\ UNCHANGED <<sent, shut, got>>
  BY <1>3
<1>14. Sound(r, rd, wr, junk, rd, wr, junk)
  BY <1>5, <1>8, <1>9, <1>10, <1>11, <1>12, <1>13 DEF Sound
<1>15. QED
  BY <1>14, RelayStep

-----------------------------------------------------------------------------
(* The end of a relay: both its streams are dropped.                       *)
LEMMA DropGood ==
  ASSUME TypeOK, Agreed, NEW r \in Relay, NEW label \in {"done", "failed"}, NEW verdict,
         NEW rd \in [Link -> Nat], NEW wr \in [Link -> Nat], NEW junk \in [Link -> Nat],
         Good(rd, wr, junk), Drop(r, label, verdict),
         pc[r] \notin {"done", "failed"}, label = "done" => pc[r] = "copy",
         verdict = "failure" =>
           reset \/ Mute(setup, r, wr, junk) \/ \E d \in Dir : Short(setup, r, d, sent, wr, junk)
  PROVE  Kept
<1>1. PICK hard \in SUBSET {To(r, d) : d \in Dir} :
        /\ reset' = (reset \/ hard # {})
        /\ link' = [l \in DOMAIN link |->
                      IF l \in hard THEN <<Rst>>
                      ELSE IF l \in {To(r, d) : d \in Dir \ done[r]} THEN Append(link[l], Eof)
                      ELSE link[l]]
  BY DEF Drop
<1>2. /\ setup' = setup /\ name' = name /\ done' = done /\ heard' = heard
      /\ sent' = sent /\ shut' = shut /\ got' = got
      /\ pc' = [pc EXCEPT ![r] = label] /\ pc'[r] = label
      /\ report'[r] = verdict
      /\ \A q \in Relay : q # r => pc'[q] = pc[q] /\ report'[q] = report[q]
      /\ reset => reset'
  BY <1>1 DEF Drop, GoTo, parties, TypeOK
<1>3. Later
  BY <1>2 DEF Later
<1>4. ASSUME NEW x \in Link
      PROVE  \/ link'[x] = link[x] /\ rd[x] = rd[x] /\ wr[x] = wr[x] /\ junk[x] = junk[x]
             \/ Holds(link'[x], Ideal(setup, x, junk[x]), rd[x], wr[x], Open(x, shut', pc', done'), reset')
  <2> DEFINE f == Ideal(setup, x, junk[x])
  <2>0. link'[x] = IF x \in hard THEN <<Rst>>
                   ELSE IF x \in {To(r, d) : d \in Dir \ done[r]} THEN Append(link[x], Eof)
                   ELSE link[x]
    BY <1>1 DEF TypeOK
  <2>1. CASE x \in hard
    <3>1. PICK d \in Dir : x = To(r, d)
      BY <2>1
    <3>2. ~Open(x, shut', pc', done') /\ ~Unheeded(x, pc)
      BY <1>2, <3>1, LinkPairs DEF Open, Unheeded
    <3>3. Holds(link[x], f, rd[x], wr[x], Open(x, shut, pc, done), reset)
      BY <3>2 DEF Good
    <3> HIDE DEF f
    <3>4. Holds(<<Rst>>, f, rd[x], wr[x], FALSE, TRUE)
      BY <3>3, PutReset
    <3>5. reset' /\ link'[x] = <<Rst>>
      BY <1>1, <2>0, <2>1
    <3>6. Holds(<<Rst>>, f, rd[x], wr[x], Open(x, shut', pc', done'), reset')
      BY <3>2, <3>4, <3>5 DEF Holds
    <3>7. QED
      BY <3>5, <3>6 DEF f
  <2>2. CASE x \notin hard /\ x \in {To(r, d) : d \in Dir \ done[r]}
    <3>1. PICK d \in Dir : x = To(r, d) /\ d \notin done[r]
      BY <2>2
    <3>2. ~Open(x, shut', pc', done')
      BY <1>2, <3>1 DEF Open
    <3>3. Holds(link[x], f, rd[x], wr[x], TRUE, reset)
      BY <3>1, OutIs
    <3> HIDE DEF f
    <3>4. Holds(Append(link[x], Eof), f, rd[x], wr[x], FALSE, reset)
      BY <3>3, PutEnd
    <3>5. Holds(Append(link[x], Eof), f, rd[x], wr[x], Open(x, shut', pc', done'), reset')
      BY <1>2, <3>2, <3>4 DEF Holds
    <3>6. link'[x] = Append(link[x], Eof)
      BY <2>0, <2>2
    <3>7. QED
      BY <3>5, <3>6 DEF f
  <2>3. CASE x \notin hard /\ x \notin {To(r, d) : d \in Dir \ done[r]}
    BY <2>0, <2>3
  <2>4. QED
    BY <2>1, <2>2, <2>3
<1>5. Placed(setup, r, pc'[r], done'[r], name'[r], rd, wr, junk)
  BY <1>2 DEF Placed
<1>6. Touches(setup, r, rd, wr, junk, rd, wr, junk)
  BY DEF Touches
<1>7. Excused(setup, r, pc'[r], heard'[r], report'[r], reset', sent, wr, junk)
  <2>1. Excused(setup, r, pc[r], heard[r], report[r], reset, sent, wr, junk)
    BY DEF Good
  <2>2. QED
    BY <1>2, <2>1 DEF Excused
<1>8. Clash(setup, pc', wr)
  <2>1. Clash(setup, pc, wr)
    BY DEF Good
  <2>2. Equal(setup) \/ r = "A" \/ label = "failed"
    BY <2>1 DEF Clash, Relay
  <2>3. QED
    BY <1>2, <2>1, <2>2, ClashOn
<1>9. Supply(setup, pc', shut, sent, wr, junk)
  <2>1. pc'["A"] \in {pc["A"], "failed"} \/ pc["A"] \notin {"proxy", "failed"}
    BY <1>2 DEF Relay
  <2>2. QED
    BY <2>1, SupplyOn DEF Good
<1>10. /\ \A e \in Dir : Whole(setup, To(r, e), wr, junk)
       /\ Behind(setup, "BS", "AB", wr, junk) /\ Behind(setup, "AC", "BA", wr, junk)
  BY FromWires DEF Good
<1>11. /\ \A q \in Relay : q # r => /\ pc'[q] = pc[q] /\ done'[q] = done[q] /\ name'[q] = name[q]
                                   /\ heard'[q] = heard[q] /\ report'[q] = report[q]
       /\ UNCHANGED <<sent, shut, got>>
  BY <1>2
<1>12. Sound(r, rd, wr, junk, rd, wr, junk)
  BY <1>3, <1>4, <1>5, <1>6, <1>7, <1>8, <1>9, <1>10, <1>11 DEF Sound
<1>13. QED
  BY <1>12, RelayStep

(* Before its copy a relay has passed nothing down, ...                    *)
LEMMA WaitingMute ==
  ASSUME NEW s, NEW r \in Relay, NEW rd, NEW wr \in [Link -> Nat], NEW junk \in [Link -> Nat],
         Waiting(s, r, "down", rd, wr)
  PROVE  Mute(s, r, wr, junk)
<1>1. To(r, "down") \in Link /\ junk[To(r, "down")] \in Nat
  BY FromWires DEF Dir
<1>2. /\ Greet(s, To(r, "down")) \in Nat /\ Fore(s, To(r, "down"), junk[To(r, "down")]) \in Nat
      /\ Greet(s, To(r, "down")) <= Fore(s, To(r, "down"), junk[To(r, "down")])
  BY <1>1, ForeType
<1>3. QED
  BY <1>2 DEF Waiting, Mute

(* ... and what is left unread when its copy fails was sent by somebody.   *)
LEMMA LeftUnread ==
  ASSUME TypeOK, Agreed, NEW r \in Relay, NEW d \in Dir,
         NEW rd \in [Link -> Nat], NEW wr \in [Link -> Nat], NEW junk \in [Link -> Nat],
         Good(rd, wr, junk), pc[r] = "copy", d \notin done[r],
         link[From(r, d)] # <<>>, ~Ends(Head(link[From(r, d)]))
  PROVE  Short(setup, r, d, sent, wr, junk)
<1> DEFINE l == From(r, d)
           m == To(r, d)
<1>1. /\ Equal(setup) \/ r = "A"
      /\ rd[l] + 1 <= wr[l]
      /\ rd[l] >= Fore(setup, l, junk[l])
      /\ wr[m] - Fore(setup, m, junk[m]) = rd[l] - Fore(setup, l, junk[l])
      /\ wr[m] >= Fore(setup, m, junk[m])
      /\ Holds(Tail(link[l]), Ideal(setup, l, junk[l]), rd[l] + 1, wr[l], Open(l, shut, pc, done), reset)
      /\ Holds(Append(link[m], Copied(r, Head(link[l]))), Ideal(setup, m, junk[m]), rd[m], wr[m] + 1, TRUE, reset)
  BY NextChunk
<1>2. /\ l \in Link /\ m \in Link
      /\ junk[l] \in Nat /\ junk[m] \in Nat /\ rd[l] \in Nat /\ wr[l] \in Nat /\ wr[m] \in Nat
      /\ sent[Sender(d)] \in Nat
  BY FromWires DEF Sender, Party, TypeOK
<1>3. Fore(setup, l, junk[l]) \in Nat /\ Fore(setup, m, junk[m]) \in Nat
  BY <1>2, ForeIs
<1>4. wr[l] <= Fore(setup, l, junk[l]) + sent[Sender(d)]
  <2>1. Supply(setup, pc, shut, sent, wr, junk)
    BY DEF Good
  <2>2. CASE l = "CA" /\ r = "A" /\ d = "up"
    BY <2>1, <2>2, PlainLinks DEF Supply, Unheeded, Sender
  <2>3. CASE l = "AB" /\ d = "up"
    BY <2>1, <2>3 DEF Supply, Sender
  <2>4. CASE l = "SB" /\ d = "down"
    <3>1. Fore(setup, l, junk[l]) = 0
      BY <2>4, PlainLinks DEF Greet, Greeted
    <3>2. wr[l] <= sent[Sender(d)]
      BY <2>1, <2>4 DEF Supply, Sender
    <3>3. QED
      BY <1>2, <3>1, <3>2
  <2>5. CASE l = "BA" /\ d = "down"
    BY <2>1, <2>5 DEF Supply, Sender
  <2>6. QED
    BY <2>2, <2>3, <2>4, <2>5, LinkPairs
<1> HIDE DEF l, m
<1>5. sent[Sender(d)] > 0 /\ wr[m] < Fore(setup, m, junk[m]) + sent[Sender(d)]
  BY <1>1, <1>2, <1>3, <1>4
<1>6. QED
  BY <1>5 DEF Short, m

LEMMA EndsGood ==
  ASSUME TypeOK, Agreed, NEW r \in Relay,
         NEW rd \in [Link -> Nat], NEW wr \in [Link -> Nat], NEW junk \in [Link -> Nat],
         Good(rd, wr, junk),
         PeekFails(r) \/ ConsumeFails(r) \/ CopyFails(r) \/ WriteFails(r) \/ Finish(r) \/ Deadline(r)
  PROVE  Kept
<1>1. Excused(setup, r, pc[r], heard[r], report[r], reset, sent, wr, junk)
  BY DEF Good
<1>2. Placed(setup, r, pc[r], done[r], name[r], rd, wr, junk)
  BY DEF Good
<1>3. ASSUME pc[r] \in {"proxy", "send"}, Refuse(r)
      PROVE  Kept
  BY <1>3, DropGood DEF Refuse
<1>4. ASSUME pc[r] \in {"first", "consume", "probed", "copy"}, Break(r),
             reset \/ Mute(setup, r, wr, junk) \/ \E d \in Dir : Short(setup, r, d, sent, wr, junk)
      PROVE  Kept
  BY <1>4, DropGood DEF Break
<1>5. pc[r] \in {"first", "consume"} => Mute(setup, r, wr, junk)
  <2>1. ASSUME pc[r] \in {"first", "consume"}
        PROVE  Waiting(setup, r, "down", rd, wr)
    BY <1>2, <2>1 DEF Placed
  <2>2. QED
    BY <2>1, WaitingMute
<1>6. CASE PeekFails(r)
  BY <1>3, <1>6 DEF PeekFails
<1>7. CASE ConsumeFails(r)
  <2>1. pc[r] \in {"probed", "consume"} /\ Break(r)
    BY <1>7 DEF ConsumeFails
  <2>2. Mute(setup, r, wr, junk)
    BY <1>1, <1>5, <2>1 DEF Excused
  <2>3. QED
    BY <1>4, <2>1, <2>2
<1>8. CASE CopyFails(r)
  <2>1. PICK d \in Dir \ done[r] :
          /\ pc[r] = "copy" /\ Break(r) /\ link[From(r, d)] # <<>>
          /\ Head(link[From(r, d)]) = Rst \/ ~Ends(Head(link[From(r, d)]))
    BY <1>8 DEF CopyFails
  <2>2. CASE ~Ends(Head(link[From(r, d)]))
    <3>1. Short(setup, r, d, sent, wr, junk)
      BY <2>1, <2>2, LeftUnread
    <3>2. QED
      BY <1>4, <2>1, <3>1
  <2>3. CASE Head(link[From(r, d)]) = Rst
    <3> DEFINE l == From(r, d)
               f == Ideal(setup, l, junk[l])
    <3>1. l \in Link /\ junk[l] \in Nat
      BY FromWires
    <3>2. Holds(link[l], f, rd[l], wr[l], Open(l, shut, pc, done), reset)
      BY <2>1, InIs
    <3>3. \A x \in Nat \ {0} : ~Ends(f[x])
      BY <3>1, IdealType
    <3>4. link[l] # <<>> /\ Ends(Head(link[l])) /\ Head(link[l]) = Rst
      BY <2>1, <2>3, Terminators
    <3> HIDE DEF l, f
    <3>5. /\ ~Open(l, shut, pc, done)
          /\ Head(link[l]) = Rst => reset
          /\ link[l] = <<Head(link[l])>>
          /\ Holds(Tail(link[l]), f, rd[l], wr[l], Open(l, shut, pc, done), reset)
          /\ Holds(<<Eof>>, f, rd[l], wr[l], Open(l, shut, pc, done), reset)
      BY <3>2, <3>3, <3>4, TakeEnd
    <3>6. QED
      BY <1>4, <2>1, <3>4, <3>5
  <2>4. QED
    BY <2>1, <2>2, <2>3
<1>9. CASE WriteFails(r)
  BY <1>3, <1>4, <1>5, <1>9 DEF WriteFails
<1>10. CASE Finish(r)
  <2>1. pc[r] = "copy" /\ Drop(r, "done", Verdict(r))
    BY <1>10 DEF Finish
  <2>2. Verdict(r) = "failure" => Mute(setup, r, wr, junk)
    BY <1>1 DEF Verdict, Slow, Excused
  <2>3. QED
    BY <2>1, <2>2, DropGood
<1>11. CASE Deadline(r)
  <2>1. pc[r] \in {"first", "consume", "probed", "copy"} /\ Break(r) /\ ~heard[r]
    BY <1>11 DEF Deadline, Slow
  <2>2. Mute(setup, r, wr, junk)
    BY <1>1, <2>1 DEF Excused
  <2>3. QED
    BY <1>4, <2>1, <2>2
<1>12. QED
  BY <1>6, <1>7, <1>8, <1>9, <1>10, <1>11

-----------------------------------------------------------------------------
(* C and S.                                                                *)
Speaks(rd, wr, junk, rd2, wr2) ==
  /\ UNCHANGED <<setup, pc, name, done, heard, report>>
  /\ \A p \in Party : (shut[p] => shut'[p]) /\ sent[p] <= sent'[p]
  /\ reset => reset'
  /\ \A r \in Relay, d \in Dir : rd2[From(r, d)] = rd[From(r, d)] /\ wr2[To(r, d)] = wr[To(r, d)]
  /\ \A l \in Link : ~Unheeded(l, pc) =>
       \/ link'[l] = link[l] /\ rd2[l] = rd[l] /\ wr2[l] = wr[l]
       \/ Holds(link'[l], Ideal(setup, l, junk[l]), rd2[l], wr2[l], Open(l, shut', pc, done), reset')
  /\ Supply(setup, pc, shut', sent', wr2, junk)
  /\ \A p \in Party : Gotten(setup, In(p), got'[p], rd2, junk)

LEMMA PartyStep ==
  ASSUME TypeOK, TypeOK',
         NEW rd \in [Link -> Nat], NEW wr \in [Link -> Nat], NEW junk \in [Link -> Nat],
         NEW rd2 \in [Link -> Nat], NEW wr2 \in [Link -> Nat],
         Good(rd, wr, junk), Speaks(rd, wr, junk, rd2, wr2)
  PROVE  Kept
<1>1. /\ setup' = setup /\ pc' = pc /\ name' = name /\ done' = done /\ heard' = heard /\ report' = report
      /\ reset => reset'
      /\ \A r \in Relay, d \in Dir : rd2[From(r, d)] = rd[From(r, d)] /\ wr2[To(r, d)] = wr[To(r, d)]
      /\ Supply(setup, pc, shut', sent', wr2, junk)
      /\ \A p \in Party : Gotten(setup, In(p), got'[p], rd2, junk)
  BY DEF Speaks
<1>2. Later
  BY <1>1 DEF Later, Speaks
<1>3. ASSUME NEW l \in Link, ~Unheeded(l, pc')
      PROVE  Holds(link'[l], Ideal(setup, l, junk[l]), rd2[l], wr2[l], Open(l, shut', pc', done'), reset')
  <2>1. CASE link'[l] = link[l] /\ rd2[l] = rd[l] /\ wr2[l] = wr[l]
    <3>1. junk[l] = junk[l]
      OBVIOUS
    <3>2. QED
      BY <1>2, <1>3, <2>1, <3>1, LinkKept
  <2>2. CASE Holds(link'[l], Ideal(setup, l, junk[l]), rd2[l], wr2[l], Open(l, shut', pc, done), reset')
    BY <1>1, <2>2
  <2>3. QED
    BY <1>1, <1>3, <2>1, <2>2 DEF Speaks
<1>4. ASSUME NEW r \in Relay
      PROVE  Placed(setup, r, pc'[r], done'[r], name'[r], rd2, wr2, junk)
  <2>1. Placed(setup, r, pc[r], done[r], name[r], rd, wr, junk)
    BY DEF Good
  <2>2. \A d \in Dir : rd2[From(r, d)] = rd[From(r, d)] /\ wr2[To(r, d)] = wr[To(r, d)]
    BY <1>1
  <2>3. \A d \in Dir : Moving(setup, r, d, rd, wr, junk) => Moving(setup, r, d, rd2, wr2, junk)
    BY <2>2, MovingKept
  <2>4. Placed(setup, r, pc[r], done[r], name[r], rd2, wr2, junk)
    BY <2>1, <2>2, <2>3, PlacedKept
  <2>5. QED
    BY <1>1, <2>4
<1>5. ASSUME NEW r \in Relay
      PROVE  Excused(setup, r, pc'[r], heard'[r], report'[r], reset', sent', wr2, junk)
  <2>1. Excused(setup, r, pc[r], heard[r], report[r], reset, sent, wr, junk)
    BY DEF Good
  <2>2. sent \in [Party -> Nat] /\ sent' \in [Party -> Nat] /\ \A p \in Party : sent[p] <= sent'[p]
    BY DEF TypeOK, Speaks
  <2>3. \A d \in Dir : wr2[To(r, d)] = wr[To(r, d)] /\ junk[To(r, d)] = junk[To(r, d)]
    BY <1>1
  <2>4. Excused(setup, r, pc[r], heard[r], report[r], reset', sent', wr2, junk)
    BY <1>1, <2>1, <2>2, <2>3, ExcusedKept
  <2>5. QED
    BY <1>1, <2>4
<1>6. wr2["AB"] = wr["AB"] /\ wr2["BS"] = wr["BS"] /\ wr2["BA"] = wr["BA"] /\ wr2["AC"] = wr["AC"]
  <2>1. "A" \in Relay /\ "B" \in Relay /\ "up" \in Dir /\ "down" \in Dir
    BY DEF Relay, Dir
  <2>2. QED
    BY <1>1, <2>1, Wires
<1>7. ASSUME NEW l \in Link
      PROVE  Whole(setup, l, wr2, junk)
  <2>1. CASE l \in {"CA", "SB"}
    <3>1. /\ wr2[l] \in Nat /\ Fore(setup, l, junk[l]) = Greet(setup, l)
          /\ Greet(setup, l) \in Nat
      <4>1. junk[l] \in Nat
        OBVIOUS
      <4>2. QED
        BY <2>1, <4>1, PlainLinks, ForeIs
    <3>2. QED
      BY <3>1 DEF Whole
  <2>2. CASE l \notin {"CA", "SB"}
    BY <1>6, <2>2 DEF Good, Whole, Link
  <2>3. QED
    BY <2>1, <2>2
<1>8. Clash(setup, pc', wr2)
  BY <1>1, <1>6 DEF Good, Clash
<1>9. Supply(setup, pc', shut', sent', wr2, junk)
  BY <1>1
<1>10. Behind(setup, "BS", "AB", wr2, junk) /\ Behind(setup, "AC", "BA", wr2, junk)
  BY <1>6 DEF Good, Behind
<1>11. Good(rd2, wr2, junk)'
  BY <1>1, <1>3, <1>4, <1>5, <1>7, <1>8, <1>9, <1>10, GoodNext
<1>12. QED
  BY <1>11 DEF Kept

(* What a party writes is read by its relay, whatever has become of that.  *)
LEMMA PartyOut ==
  ASSUME TypeOK, NEW p \in Party, NEW o, o = Out(p), ~shut[p],
         NEW rd \in [Link -> Nat], NEW wr \in [Link -> Nat], NEW junk \in [Link -> Nat],
         Good(rd, wr, junk), ~Unheeded(o, pc)
  PROVE  Holds(link[o], Ideal(setup, o, junk[o]), rd[o], wr[o], TRUE, reset)
<1>1. o \in Link /\ \A r \in Relay, d \in Dir : o # To(r, d)
  BY PartyWires
<1>2. Open(o, shut, pc, done)
  <2>1. \A q \in Party : o = Out(q) => q = p
    BY PartyWires
  <2>2. QED
    BY <1>1, <2>1 DEF Open
<1>3. Holds(link[o], Ideal(setup, o, junk[o]), rd[o], wr[o], Open(o, shut, pc, done), reset)
  BY <1>1 DEF Good
<1>4. QED
  BY <1>2, <1>3 DEF Holds

(* ... and every chunk is the next one. *)
LEMMA OutWritten ==
  ASSUME TypeOK, Agreed, NEW p \in Party, NEW o, o = Out(p), ~shut[p], p = "C" => Led,
         NEW rd \in [Link -> Nat], NEW wr \in [Link -> Nat], NEW junk \in [Link -> Nat],
         Good(rd, wr, junk), ~Unheeded(o, pc)
  PROVE  wr[o] = Greet(setup, o) + sent[p]
<1>1. Supply(setup, pc, shut, sent, wr, junk)
  BY DEF Good
<1>2. CASE p = "S"
  <2>1. Greet(setup, o) = 0 /\ o = "SB" /\ sent[p] \in Nat
    BY <1>2, Wires DEF Greet, Greeted, TypeOK
  <2>2. wr["SB"] = sent["S"]
    BY <1>1, <1>2 DEF Supply
  <2>3. QED
    BY <1>2, <2>1, <2>2
<1>3. CASE p = "C"
  <2>1. o = "CA" /\ sent[p] \in Nat
    BY <1>3, Wires DEF TypeOK
  <2>2. \/ wr["CA"] = Greet(setup, "CA") + sent["C"]
        \/ wr["CA"] = 0 /\ sent["C"] = 0 /\ pc["A"] = "proxy"
    BY <1>1, <1>3, <2>1 DEF Supply
  <2>3. CASE wr["CA"] = 0 /\ sent["C"] = 0 /\ pc["A"] = "proxy"
    <3>1. link["CA"] = <<>>
      <4>1. Holds(link[o], Ideal(setup, o, junk[o]), rd[o], wr[o], TRUE, reset)
        BY PartyOut
      <4>2. Len(link[o]) = 0 /\ link[o] \in Seq(Thing)
        BY <2>1, <2>3, <4>1 DEF Holds
      <4>3. QED
        BY <2>1, <4>2, EmptySeq
    <3>2. setup.lead = "none"
      BY <1>3, <2>3, <3>1 DEF Led
    <3>3. Greet(setup, "CA") = 0
      BY <3>2 DEF Greet, Greeted
    <3>4. QED
      BY <1>3, <2>1, <2>3, <3>3
  <2>4. QED
    BY <1>3, <2>1, <2>2, <2>3
<1>4. QED
  BY <1>2, <1>3 DEF Party

(* What a party does with its own stream: at most one item of it is put    *)
(* down as written.                                                        *)
LEMMA PartyWrites ==
  ASSUME TypeOK, TypeOK', NEW p \in Party, NEW o, o = Out(p),
         NEW rd \in [Link -> Nat], NEW wr \in [Link -> Nat], NEW junk \in [Link -> Nat],
         NEW wr2 \in [Link -> Nat],
         Good(rd, wr, junk), UNCHANGED <<setup, relays, got>>,
         \A q \in Party : (shut[q] => shut'[q]) /\ sent[q] <= sent'[q],
         reset => reset',
         \A l \in Link : l # o => link'[l] = link[l] /\ wr2[l] = wr[l],
         ~Unheeded(o, pc) =>
           Holds(link'[o], Ideal(setup, o, junk[o]), rd[o], wr2[o], Open(o, shut', pc, done), reset'),
         Supply(setup, pc, shut', sent', wr2, junk)
  PROVE  Kept
<1>1. UNCHANGED <<setup, pc, name, done, heard, report, got>>
  BY DEF relays
<1>2. \A r \in Relay, d \in Dir : rd[From(r, d)] = rd[From(r, d)] /\ wr2[To(r, d)] = wr[To(r, d)]
  BY FromWires, PartyWires
<1>3. \A l \in Link : ~Unheeded(l, pc) =>
        \/ link'[l] = link[l] /\ rd[l] = rd[l] /\ wr2[l] = wr[l]
        \/ Holds(link'[l], Ideal(setup, l, junk[l]), rd[l], wr2[l], Open(l, shut', pc, done), reset')
  OBVIOUS
<1>4. \A q \in Party : Gotten(setup, In(q), got'[q], rd, junk)
  BY <1>1 DEF Good
<1>5. Speaks(rd, wr, junk, rd, wr2)
  BY <1>1, <1>2, <1>3, <1>4 DEF Speaks
<1>6. QED
  BY <1>5, PartyStep

LEMMA SayGood ==
  ASSUME TypeOK, TypeOK', Agreed, NEW p \in Party,
         NEW rd \in [Link -> Nat], NEW wr \in [Link -> Nat], NEW junk \in [Link -> Nat],
         Good(rd, wr, junk), Say(p)
  PROVE  Kept
<1> DEFINE o == Out(p)
           wr2 == IF Unheeded(o, pc) THEN wr ELSE [wr EXCEPT ![o] = @ + 1]
<1>1. o \in Link
  BY PartyWires
<1>2. wr2 \in [Link -> Nat] /\ \A l \in Link : l # o => wr2[l] = wr[l]
  BY <1>1
<1>3. /\ Unheeded(o, pc) => wr2[o] = wr[o]
      /\ ~Unheeded(o, pc) => wr2[o] = wr[o] + 1
  BY <1>1
<1> HIDE DEF wr2
<1>4. /\ p = "C" => Led
      /\ ~shut[p]
      /\ sent' = [sent EXCEPT ![p] = @ + 1]
      /\ link' = [link EXCEPT ![o] = Append(@, Data(sent[p] + 1))]
      /\ UNCHANGED <<setup, relays, shut, got, ended, reset>>
  BY DEF Say
<1> HIDE DEF o
<1>5. o = Out(p)
  BY DEF o
<1>6. /\ link'[o] = Append(link[o], Data(sent[p] + 1))
      /\ \A l \in Link : l # o => link'[l] = link[l]
  BY <1>1, <1>4 DEF TypeOK
<1>7. /\ sent'[p] = sent[p] + 1 /\ \A q \in Party : q # p => sent'[q] = sent[q]
      /\ \A q \in Party : sent[q] \in Nat
  BY <1>4 DEF TypeOK
<1>8. \A q \in Party : (shut[q] => shut'[q]) /\ sent[q] <= sent'[q]
  <2>1. TAKE q \in Party
  <2>2. sent[q] <= sent'[q]
    <3>1. CASE q = p
      BY <1>7, <3>1
    <3>2. CASE q # p
      BY <1>7, <3>2
    <3>3. QED
      BY <3>1, <3>2
  <2>3. QED
    BY <1>4, <2>2
<1>9. ASSUME ~Unheeded(o, pc)
      PROVE  Holds(link'[o], Ideal(setup, o, junk[o]), rd[o], wr2[o], Open(o, shut', pc, done), reset')
  <2>1. wr[o] = Greet(setup, o) + sent[p]
    BY <1>4, <1>5, <1>9, OutWritten
  <2>2. Holds(link[o], Ideal(setup, o, junk[o]), rd[o], wr[o], TRUE, reset)
    BY <1>4, <1>5, <1>9, PartyOut
  <2>3. o \in {"CA", "SB"}
    BY <1>5, Wires DEF Party
  <2>4. Fore(setup, o, junk[o]) = Greet(setup, o)
    BY <2>3, PlainLinks
  <2> DEFINE x == sent[p] + 1
  <2>5. x \in Nat \ {0} /\ junk[o] \in Nat
    BY <1>1, <1>7
  <2>6. Ideal(setup, o, junk[o])[Fore(setup, o, junk[o]) + x] = Chunk(setup, o, x)
    BY <1>1, <2>5, IdealChunk
  <2>7. FALSE <=> Veiled(setup, o)
    BY <2>3 DEF Veiled
  <2>8. Chunk(setup, o, x) = Coded(x, FALSE)
    <3>1. FALSE \in BOOLEAN /\ x \in Nat
      BY <2>5
    <3>2. QED
      BY <2>7, <3>1, ChunkIs
  <2>9. Data(x) = Coded(x, FALSE)
    BY DEF Data, Item, Coded
  <2>10. Fore(setup, o, junk[o]) + x = wr[o] + 1
    <3>1. Greet(setup, o) \in Nat
      BY <1>1, <2>5, ForeIs
    <3>2. QED
      BY <1>7, <2>1, <2>4, <3>1
  <2>11. Data(x) = Ideal(setup, o, junk[o])[wr[o] + 1]
    BY <2>6, <2>8, <2>9, <2>10
  <2>12. Data(x) \in Thing
    BY <2>5, ThingTypes
  <2> DEFINE f == Ideal(setup, o, junk[o])
  <2>13. f[wr[o] + 1] \in Thing /\ Holds(link[o], f, rd[o], wr[o], TRUE, reset)
    BY <2>2, <2>11, <2>12
  <2>14. link'[o] = Append(link[o], f[wr[o] + 1])
    BY <1>6, <2>11
  <2> HIDE DEF f, x
  <2>15. Holds(Append(link[o], f[wr[o] + 1]), f, rd[o], wr[o] + 1, TRUE, reset)
    BY <2>13, PutOne
  <2>16. Holds(link'[o], f, rd[o], wr2[o], TRUE, reset')
    BY <1>3, <1>4, <1>9, <2>14, <2>15
  <2>17. QED
    BY <2>16 DEF Holds, f
<1>10. Supply(setup, pc, shut', sent', wr2, junk)
  <2>1. Supply(setup, pc, shut, sent, wr, junk)
    BY DEF Good
  <2>2. wr["AB"] \in Nat /\ wr["BA"] \in Nat /\ wr["CA"] \in Nat /\ wr["SB"] \in Nat
    BY DEF Link
  <2>3. shut' = shut /\ "C" \in Party /\ "S" \in Party
    BY <1>4 DEF Party
  <2>4. Fore(setup, "AB", junk["AB"]) \in Nat /\ Fore(setup, "BA", junk["BA"]) \in Nat
    <3>1. "AB" \in Link /\ "BA" \in Link /\ junk["AB"] \in Nat /\ junk["BA"] \in Nat
      BY DEF Link
    <3>2. QED
      BY <3>1, ForeIs
  <2>5. sent["C"] \in Nat /\ sent["S"] \in Nat
    BY <1>7, <2>3
  <2>6. CASE p = "C"
    <3>1. o = "CA"
      BY <1>5, <2>6, Wires
    <3>2. wr2["AB"] = wr["AB"] /\ wr2["BA"] = wr["BA"] /\ wr2["SB"] = wr["SB"]
      BY <1>2, <3>1 DEF Link
    <3>3. sent'["C"] = sent["C"] + 1 /\ sent'["S"] = sent["S"]
      BY <1>7, <2>3, <2>6
    <3>4. ~Unheeded("CA", pc) => wr2["CA"] = Greet(setup, "CA") + sent'["C"]
      <4>1. ASSUME ~Unheeded("CA", pc)
            PROVE  wr2["CA"] = Greet(setup, "CA") + sent'["C"]
        <5>1. ~Unheeded(o, pc)
          BY <3>1, <4>1
        <5>2. wr[o] = Greet(setup, o) + sent[p]
          BY <1>4, <1>5, <5>1, OutWritten
        <5>3. Greet(setup, o) \in Nat
          BY DEF Greet
        <5>4. QED
          BY <1>3, <2>5, <2>6, <3>1, <3>3, <5>1, <5>2, <5>3
      <4>2. QED
        BY <4>1
    <3>5. wr2["AB"] <= Fore(setup, "AB", junk["AB"]) + sent'["C"]
      BY <2>1, <2>2, <2>4, <2>5, <3>2, <3>3 DEF Supply
    <3>6. Greet(setup, "CA") + sent'["C"] \in Nat
      BY <2>5, <3>3 DEF Greet
    <3>7. ~Unheeded("CA", pc) => wr2["CA"] <= Greet(setup, "CA") + sent'["C"]
      BY <3>4, <3>6
    <3>8. QED
      BY <2>1, <2>3, <3>2, <3>3, <3>4, <3>5, <3>7 DEF Supply
  <2>7. CASE p = "S"
    <3>1. o = "SB" /\ ~Unheeded(o, pc)
      BY <1>5, <2>7, Wires DEF Unheeded
    <3>2. wr2["AB"] = wr["AB"] /\ wr2["BA"] = wr["BA"] /\ wr2["CA"] = wr["CA"] /\ wr2["SB"] = wr["SB"] + 1
      BY <1>2, <1>3, <3>1 DEF Link
    <3>3. sent'["S"] = sent["S"] + 1 /\ sent'["C"] = sent["C"]
      BY <1>7, <2>3, <2>7
    <3>4. wr2["SB"] = sent'["S"]
      BY <1>4, <2>1, <2>5, <2>7, <3>2, <3>3 DEF Supply
    <3>5. wr2["BA"] <= Fore(setup, "BA", junk["BA"]) + sent'["S"]
      BY <2>1, <2>2, <2>4, <2>5, <3>2, <3>3 DEF Supply
    <3>6. wr2["SB"] <= sent'["S"]
      BY <2>5, <3>3, <3>4
    <3>7. QED
      BY <2>1, <2>3, <3>2, <3>3, <3>4, <3>5, <3>6 DEF Supply
  <2>8. QED
    BY <2>6, <2>7 DEF Party
<1>11. UNCHANGED <<setup, relays, got>>
  BY <1>4
<1>12. reset => reset'
  BY <1>4
<1>13. \A l \in Link : l # o => link'[l] = link[l] /\ wr2[l] = wr[l]
  BY <1>2, <1>6
<1>14. wr2 \in [Link -> Nat]
  BY <1>2
<1>15. QED
  BY <1>5, <1>8, <1>9, <1>10, <1>11, <1>12, <1>13, <1>14, PartyWrites

LEMMA LeavesGood ==
  ASSUME TypeOK, TypeOK', Agreed, NEW p \in Party,
         NEW rd \in [Link -> Nat], NEW wr \in [Link -> Nat], NEW junk \in [Link -> Nat],
         Good(rd, wr, junk), Shut(p) \/ Vanish(p)
  PROVE  Kept
<1> DEFINE o == Out(p)
<1>1. o \in Link
  BY PartyWires
<1>2. /\ ~shut[p]
      /\ shut' = [shut EXCEPT ![p] = TRUE]
      /\ UNCHANGED <<setup, relays, got, sent>>
      /\ reset => reset'
  BY DEF Shut, Vanish
<1>3. /\ \A l \in Link : l # o => link'[l] = link[l]
      /\ link'[o] = Append(link[o], Eof) \/ (link'[o] = <<Rst>> /\ reset')
  BY <1>1 DEF Shut, Vanish, TypeOK
<1> HIDE DEF o
<1>4. o = Out(p)
  BY DEF o
<1>5. shut'[p] /\ \A q \in Party : shut[q] => shut'[q]
  BY <1>2 DEF TypeOK
<1>6. ~Open(o, shut', pc, done)
  BY <1>4, <1>5 DEF Open
<1>7. ASSUME ~Unheeded(o, pc)
      PROVE  Holds(link'[o], Ideal(setup, o, junk[o]), rd[o], wr[o], Open(o, shut', pc, done), reset')
  <2>1. Holds(link[o], Ideal(setup, o, junk[o]), rd[o], wr[o], TRUE, reset)
    BY <1>2, <1>4, <1>7, PartyOut
  <2> DEFINE f == Ideal(setup, o, junk[o])
  <2>2. Holds(link[o], f, rd[o], wr[o], TRUE, reset)
    BY <2>1
  <2> HIDE DEF f
  <2>3. Holds(Append(link[o], Eof), f, rd[o], wr[o], FALSE, reset)
    BY <2>2, PutEnd
  <2>4. Holds(<<Rst>>, f, rd[o], wr[o], FALSE, TRUE)
    BY <2>2, PutReset
  <2>5. \/ Holds(link'[o], f, rd[o], wr[o], FALSE, reset)
        \/ Holds(link'[o], f, rd[o], wr[o], FALSE, TRUE) /\ reset'
    BY <1>3, <2>3, <2>4
  <2>6. Holds(link'[o], f, rd[o], wr[o], Open(o, shut', pc, done), reset')
    BY <1>2, <1>6, <2>5 DEF Holds
  <2>7. QED
    BY <2>6 DEF f
<1>8. Supply(setup, pc, shut', sent', wr, junk)
  <2>1. Supply(setup, pc, shut, sent, wr, junk) /\ sent' = sent
    BY <1>2 DEF Good
  <2>2. "C" \in Party /\ "S" \in Party
    BY DEF Party
  <2>3. QED
    BY <1>5, <2>1, <2>2 DEF Supply
<1>9. \A q \in Party : (shut[q] => shut'[q]) /\ sent[q] <= sent'[q]
  <2>1. sent' = sent /\ sent \in [Party -> Nat]
    BY <1>2 DEF TypeOK
  <2>2. QED
    BY <1>5, <2>1
<1>10. UNCHANGED <<setup, relays, got>>
  BY <1>2
<1>11. \A l \in Link : l # o => link'[l] = link[l] /\ wr[l] = wr[l]
  BY <1>3
<1>12. reset => reset'
  BY <1>2
<1>13. QED
  BY <1>4, <1>7, <1>8, <1>9, <1>10, <1>11, <1>12, PartyWrites

LEMMA LeadGood ==
  ASSUME TypeOK, TypeOK', Agreed,
         NEW rd \in [Link -> Nat], NEW wr \in [Link -> Nat], NEW junk \in [Link -> Nat],
         Good(rd, wr, junk), Lead
  PROVE  Kept
<1> DEFINE name0 == IF setup.lead = "tcp" THEN "origin" ELSE "nobody"
           wr2 == [wr EXCEPT !["CA"] = 1]
           f == Ideal(setup, "CA", junk["CA"])
<1>1. /\ setup.lead # "none" /\ ~shut["C"] /\ link["CA"] = <<>> /\ pc["A"] = "proxy"
      /\ link' = [link EXCEPT !["CA"] = <<Proxy(name0)>>]
      /\ UNCHANGED <<setup, relays, parties, reset>>
  BY DEF Lead
<1>2. "C" \in Party /\ "CA" = Out("C") /\ "CA" \in Link /\ "A" \in Relay /\ ~Unheeded("CA", pc)
  BY <1>1, Wires DEF Party, Link, Relay, Unheeded
<1>3. UNCHANGED <<setup, relays, sent, shut, got, ended, reset>>
  BY <1>1 DEF parties
<1>4. link'["CA"] = <<Proxy(name0)>> /\ \A l \in Link : l # "CA" => link'[l] = link[l]
  BY <1>1, <1>2 DEF TypeOK
<1>5. wr2 \in [Link -> Nat] /\ wr2["CA"] = 1 /\ \A l \in Link : l # "CA" => wr2[l] = wr[l]
  BY <1>2
<1>6. Holds(link["CA"], f, rd["CA"], wr["CA"], TRUE, reset)
  BY <1>1, <1>2, PartyOut
<1>7. rd["CA"] = 0
  <2>1. Placed(setup, "A", pc["A"], done["A"], name["A"], rd, wr, junk)
    BY <1>2 DEF Good
  <2>2. QED
    BY <1>1, <2>1, Wires DEF Placed
<1>8. wr["CA"] = 0
  <2>1. Len(link["CA"]) = 0
    BY <1>1
  <2>2. rd["CA"] \in Nat /\ wr["CA"] \in Nat
    BY <1>2
  <2>3. QED
    BY <1>6, <1>7, <2>1, <2>2 DEF Holds
<1>9. Greet(setup, "CA") = 1
  BY <1>1 DEF Greet, Greeted
<1>10. f[1] = Proxy(name0)
  <2>1. junk["CA"] \in Nat /\ NameOn(setup, "CA") = name0
    BY <1>2 DEF NameOn
  <2>2. Ideal(setup, "CA", junk["CA"])[1] = Proxy(NameOn(setup, "CA"))
    BY <1>2, <1>9, <2>1, IdealFront
  <2>3. QED
    BY <2>1, <2>2
<1>11. f[1] \in Thing
  BY <1>10, ThingTypes
<1> HIDE DEF f, wr2, name0
<1>12. Holds(<<f[1]>>, f, 0, 1, TRUE, reset)
  <2>1. f[0 + 1] \in Thing /\ Holds(<<>>, f, 0, 0, TRUE, reset)
    <3>1. 0 + 1 = 1
      OBVIOUS
    <3>2. f[0 + 1] \in Thing
      BY <1>11, <3>1
    <3>3. Holds(<<>>, f, 0, 0, TRUE, reset)
      BY <1>1, <1>6, <1>7, <1>8, Zenon
    <3>4. QED
      BY <3>2, <3>3
  <2>2. Holds(Append(<<>>, f[0 + 1]), f, 0, 0 + 1, TRUE, reset)
    BY <2>1, PutOne
  <2>3. Append(<<>>, f[0 + 1]) = <<f[1]>> /\ 0 + 1 = 1
    OBVIOUS
  <2>4. QED
    BY <2>2, <2>3
<1>13. Holds(link'["CA"], f, rd["CA"], wr2["CA"], Open("CA", shut', pc, done), reset')
  <2>1. Holds(link'["CA"], f, rd["CA"], wr2["CA"], TRUE, reset)
    BY <1>4, <1>5, <1>7, <1>10, <1>12
  <2>2. QED
    BY <1>3, <2>1 DEF Holds
<1>14. Supply(setup, pc, shut', sent', wr2, junk)
  <2>1. Supply(setup, pc, shut, sent, wr, junk) /\ sent \in [Party -> Nat]
    BY DEF Good, TypeOK
  <2>2. sent["C"] = 0
    <3>1. sent["C"] \in Nat
      BY <1>2, <2>1
    <3>2. wr["CA"] = 1 + sent["C"] \/ sent["C"] = 0
      BY <1>1, <1>2, <1>9, <2>1 DEF Supply
    <3>3. QED
      BY <1>8, <3>1, <3>2
  <2>3. /\ wr2["CA"] = Greet(setup, "CA") + sent["C"] /\ wr2["CA"] <= Greet(setup, "CA") + sent["C"]
        /\ wr2["AB"] = wr["AB"] /\ wr2["BA"] = wr["BA"] /\ wr2["SB"] = wr["SB"]
    BY <1>5, <1>9, <2>2 DEF Link
  <2>4. QED
    BY <1>3, <2>1, <2>3 DEF Supply
<1>15. ~Unheeded("CA", pc) =>
         Holds(link'["CA"], Ideal(setup, "CA", junk["CA"]), rd["CA"], wr2["CA"], Open("CA", shut', pc, done), reset')
  BY <1>13 DEF f
<1>16. \A l \in Link : l # "CA" => link'[l] = link[l] /\ wr2[l] = wr[l]
  BY <1>4, <1>5
<1>17. \A q \in Party : (shut[q] => shut'[q]) /\ sent[q] <= sent'[q]
  BY <1>3 DEF TypeOK
<1>18. UNCHANGED <<setup, relays, got>>
  BY <1>3
<1>19. reset => reset'
  BY <1>3
<1>20. wr2 \in [Link -> Nat]
  BY <1>5
<1>21. QED
  BY <1>2, <1>14, <1>15, <1>16, <1>17, <1>18, <1>19, <1>20, PartyWrites

(* What a party gets is the next item, or the end.                         *)
LEMMA GetGood ==
  ASSUME TypeOK, TypeOK', Agreed, NEW p \in Party,
         NEW rd \in [Link -> Nat], NEW wr \in [Link -> Nat], NEW junk \in [Link -> Nat],
         Good(rd, wr, junk), Get(p)
  PROVE  Kept
<1> DEFINE i == In(p)
           f == Ideal(setup, i, junk[i])
           ends == Ends(Head(link[i]))
           rd2 == IF ends THEN rd ELSE [rd EXCEPT ![i] = @ + 1]
           open == Open(i, shut, pc, done)
<1>1. i \in Link
  BY PartyWires
<1>2. /\ link[i] # <<>>
      /\ link' = [link EXCEPT ![i] = Tail(@)]
      /\ IF ends THEN got' = got ELSE got' = [got EXCEPT ![p] = Append(@, Head(link[i]))]
      /\ UNCHANGED <<setup, relays, sent, shut, reset>>
  BY DEF Get
<1>3. /\ link'[i] = Tail(link[i]) /\ \A l \in Link : l # i => link'[l] = link[l]
      /\ UNCHANGED <<setup, pc, name, done, heard, report, sent, shut, reset>>
  BY <1>1, <1>2 DEF TypeOK, relays
<1>4. /\ rd2 \in [Link -> Nat] /\ \A l \in Link : l # i => rd2[l] = rd[l]
      /\ ends => rd2[i] = rd[i]
      /\ ~ends => rd2[i] = rd[i] + 1
  BY <1>1
<1>5. /\ got[p] \in Seq(Thing)
      /\ ends => got'[p] = got[p]
      /\ ~ends => got'[p] = Append(got[p], Head(link[i]))
      /\ \A q \in Party : q # p => got'[q] = got[q]
  BY <1>2 DEF TypeOK
<1>6. \A q \in Party : Gotten(setup, In(q), got[q], rd, junk)
  BY DEF Good
<1>7. Holds(link[i], f, rd[i], wr[i], open, reset)
  <2>1. ~Unheeded(i, pc)
    BY Wires DEF Unheeded, Party
  <2>2. QED
    BY <1>1, <2>1 DEF Good
<1>8. \A x \in Nat \ {0} : ~Ends(f[x])
  <2>1. junk[i] \in Nat
    BY <1>1
  <2>2. QED
    BY <1>1, <2>1, IdealType
<1> HIDE DEF f, open, rd2
<1>9. /\ Holds(link'[i], f, rd2[i], wr[i], open, reset)
      /\ Gotten(setup, i, got'[p], rd2, junk)
  <2>1. Gotten(setup, i, got[p], rd, junk)
    BY <1>6
  <2>2. CASE Ends(Head(link[i]))
    <3>1. Holds(Tail(link[i]), f, rd[i], wr[i], open, reset)
      BY <1>2, <1>7, <1>8, <2>2, TakeEnd
    <3>2. rd2[i] = rd[i] /\ got'[p] = got[p]
      BY <1>4, <1>5, <2>2
    <3>3. QED
      BY <1>3, <2>1, <3>1, <3>2 DEF Gotten
  <2>3. CASE ~Ends(Head(link[i]))
    <3>1. /\ rd[i] + 1 <= wr[i]
          /\ Head(link[i]) = f[rd[i] + 1]
          /\ Holds(Tail(link[i]), f, rd[i] + 1, wr[i], open, reset)
      BY <1>2, <1>7, <2>3, TakeOne
    <3>2. rd2[i] = rd[i] + 1 /\ got'[p] = Append(got[p], Head(link[i]))
      BY <1>4, <1>5, <2>3
    <3>3. Holds(link'[i], f, rd2[i], wr[i], open, reset)
      BY <1>3, <3>1, <3>2
    <3>4. link[i] \in Seq(Thing) /\ Head(link[i]) \in Thing
      BY <1>2, <1>7, SeqTypes DEF Holds
    <3>5. /\ Len(got'[p]) = Len(got[p]) + 1
          /\ \A k \in 1 .. Len(got[p]) : got'[p][k] = got[p][k]
          /\ got'[p][Len(got[p]) + 1] = Head(link[i])
          /\ Len(got[p]) \in Nat
      BY <1>5, <3>2, <3>4, AppendProperties, LenProperties
    <3>6. rd[i] = Len(got[p]) /\ \A k \in 1 .. Len(got[p]) : got[p][k] = f[k]
      BY <2>1 DEF Gotten, f
    <3>7. rd2[i] = Len(got'[p])
      BY <3>2, <3>5, <3>6
    <3>8. ASSUME NEW k \in 1 .. Len(got'[p])
          PROVE  got'[p][k] = f[k]
      <4>1. CASE k \in 1 .. Len(got[p])
        BY <3>5, <3>6, <4>1
      <4>2. CASE k = Len(got[p]) + 1
        BY <3>1, <3>5, <3>6, <4>2
      <4>3. QED
        BY <3>5, <3>8, <4>1, <4>2
    <3>9. Gotten(setup, i, got'[p], rd2, junk)
      BY <3>7, <3>8 DEF Gotten, f
    <3>10. QED
      BY <3>3, <3>9
  <2>4. QED
    BY <2>2, <2>3
<1>10. \A q \in Party : Gotten(setup, In(q), got'[q], rd2, junk)
  <2>1. ASSUME NEW q \in Party, q # p
        PROVE  Gotten(setup, In(q), got'[q], rd2, junk)
    <3>1. In(q) # i /\ In(q) \in Link
      BY <2>1, PartyWires
    <3>2. rd2[In(q)] = rd[In(q)] /\ got'[q] = got[q]
      BY <1>4, <1>5, <2>1, <3>1
    <3>3. QED
      BY <1>6, <3>2 DEF Gotten
  <2>2. QED
    BY <1>9, <2>1
<1>11. \A r \in Relay, d \in Dir : rd2[From(r, d)] = rd[From(r, d)] /\ wr[To(r, d)] = wr[To(r, d)]
  BY <1>4, FromWires, PartyWires
<1>12. \A l \in Link : ~Unheeded(l, pc) =>
         \/ link'[l] = link[l] /\ rd2[l] = rd[l] /\ wr[l] = wr[l]
         \/ Holds(link'[l], Ideal(setup, l, junk[l]), rd2[l], wr[l], Open(l, shut', pc, done), reset')
  <2>1. Holds(link'[i], Ideal(setup, i, junk[i]), rd2[i], wr[i], Open(i, shut', pc, done), reset')
    BY <1>3, <1>9 DEF f, open
  <2> HIDE DEF i
  <2>2. QED
    BY <1>3, <1>4, <2>1
<1>13. Supply(setup, pc, shut', sent', wr, junk)
  BY <1>3 DEF Good
<1>14. \A q \in Party : (shut[q] => shut'[q]) /\ sent[q] <= sent'[q]
  BY <1>3 DEF TypeOK
<1>15. Speaks(rd, wr, junk, rd2, wr)
  BY <1>3, <1>10, <1>11, <1>12, <1>13, <1>14 DEF Speaks
<1>16. rd2 \in [Link -> Nat]
  BY <1>4
<1>17. QED
  BY <1>15, <1>16, PartyStep

-----------------------------------------------------------------------------
(* The invariant.                                                          *)
LEMMA GoodInit ==
  ASSUME Init
  PROVE  \E rd, wr, junk \in [Link -> Nat] : Good(rd, wr, junk)
<1> DEFINE z == [l \in Link |-> 0]
<1>1. z \in [Link -> Nat] /\ \A l \in Link : z[l] = 0
  OBVIOUS
<1> HIDE DEF z
<1>2. /\ \A r \in Relay, d \in Dir : z[From(r, d)] = 0 /\ z[To(r, d)] = 0
      /\ z["AB"] = 0 /\ z["BA"] = 0 /\ z["CA"] = 0 /\ z["SB"] = 0 /\ z["BS"] = 0 /\ z["AC"] = 0
      /\ z["AB"] \in Nat /\ z["BA"] \in Nat
  BY <1>1, FromWires DEF Link
<1>3. /\ \A r \in Relay : pc[r] = "proxy" /\ done[r] = {} /\ ~heard[r] /\ report[r] = "none"
      /\ \A r \in Relay : name[r] = IF r = "A" THEN "client" ELSE "A"
      /\ \A l \in Link : link[l] = <<>>
      /\ sent["C"] = 0 /\ sent["S"] = 0
      /\ \A p \in Party : got[p] = <<>>
  BY DEF Init, Link, Party
<1>4. \A l \in Link : Greet(setup, l) \in Nat /\ Fore(setup, l, z[l]) \in Nat
  <2>1. TAKE l \in Link
  <2>2. z[l] \in Nat
    BY <1>1
  <2>3. QED
    BY <2>2, ForeType
<1>5. ASSUME NEW l \in Link
      PROVE  Holds(link[l], Ideal(setup, l, z[l]), z[l], z[l], Open(l, shut, pc, done), reset)
  <2>1. link[l] \in Seq(Thing) /\ Len(link[l]) = 0
    BY <1>3, EmptySeq
  <2>2. z[l] = 0
    BY <1>1
  <2> DEFINE f == Ideal(setup, l, z[l])
             open == Open(l, shut, pc, done)
  <2> HIDE DEF f, open
  <2>3. Holds(link[l], f, 0, 0, open, reset)
    BY <2>1 DEF Holds
  <2>4. QED
    BY <2>2, <2>3 DEF f, open
<1>6. ASSUME NEW r \in Relay
      PROVE  Placed(setup, r, pc[r], done[r], name[r], z, z, z)
  <2>1. "up" \in Dir /\ "down" \in Dir
    BY DEF Dir
  <2>2. Waiting(setup, r, "down", z, z)
    <3>1. Greet(setup, From(r, "down")) = 0 /\ Greet(setup, To(r, "down")) = 0
      BY DEF Greet, Greeted, From, To, Relay
    <3>2. QED
      BY <1>2, <2>1, <3>1 DEF Waiting
  <2>3. QED
    BY <1>2, <1>3, <2>1, <2>2 DEF Placed
<1>7. ASSUME NEW r \in Relay
      PROVE  Excused(setup, r, pc[r], heard[r], report[r], reset, sent, z, z)
  <2>1. "down" \in Dir /\ To(r, "down") \in Link
    BY FromWires DEF Dir
  <2>2. Mute(setup, r, z, z)
    BY <1>2, <1>4, <2>1 DEF Mute
  <2>3. QED
    BY <1>3, <2>2 DEF Excused
<1>8. \A l \in Link : Whole(setup, l, z, z)
  BY <1>1, <1>4 DEF Whole
<1>9. Clash(setup, pc, z)
  BY <1>2, <1>3, <1>4 DEF Clash, Relay, Link
<1>10. Supply(setup, pc, shut, sent, z, z)
  <2>1. /\ Greet(setup, "CA") \in Nat /\ Fore(setup, "AB", z["AB"]) \in Nat
        /\ Fore(setup, "BA", z["BA"]) \in Nat
    BY <1>4 DEF Link
  <2>2. pc["A"] = "proxy" /\ sent["C"] = 0 /\ sent["S"] = 0
    BY <1>3 DEF Relay
  <2>3. /\ 0 <= Greet(setup, "CA") + 0
        /\ 0 <= Fore(setup, "AB", z["AB"]) + 0 /\ 0 <= Fore(setup, "BA", z["BA"]) + 0
    BY <2>1
  <2>4. QED
    BY <1>2, <2>2, <2>3 DEF Supply
<1>11. Behind(setup, "BS", "AB", z, z) /\ Behind(setup, "AC", "BA", z, z)
  BY <1>2, <1>4 DEF Behind, Link
<1>12. ASSUME NEW p \in Party
       PROVE  Gotten(setup, In(p), got[p], z, z)
  <2>1. z[In(p)] = 0 /\ Len(got[p]) = 0
    BY <1>1, <1>3, PartyWires
  <2>2. QED
    BY <2>1 DEF Gotten
<1>13. Good(z, z, z)
  BY <1>5, <1>6, <1>7, <1>8, <1>9, <1>10, <1>11, <1>12 DEF Good
<1>14. QED
  BY <1>1, <1>13

LEMMA GoodStutter ==
  ASSUME UNCHANGED vars, NEW rd, NEW wr, NEW junk, Good(rd, wr, junk)
  PROVE  Good(rd, wr, junk)'
<1>1. UNCHANGED <<setup, link, pc, name, done, heard, report, sent, shut, got, ended, reset>>
  BY DEF vars, relays, parties
<1>2. QED
  BY <1>1 DEF Good

LEMMA GoodStep ==
  ASSUME TypeOK, TypeOK', Agreed,
         NEW rd \in [Link -> Nat], NEW wr \in [Link -> Nat], NEW junk \in [Link -> Nat],
         Good(rd, wr, junk), [Next]_vars
  PROVE  Kept
<1>1. ASSUME NEW r \in Relay, NoProxy(r)
      PROVE  Kept
  BY <1>1, NoProxyGood
<1>2. ASSUME NEW r \in Relay, Peek(r)
      PROVE  Kept
  BY <1>2, PeekGood
<1>3. ASSUME NEW r \in Relay, SendProxy(r)
      PROVE  Kept
  BY <1>3, SendGood
<1>4. ASSUME NEW r \in Relay, FirstChunk(r)
      PROVE  Kept
  BY <1>4, FirstGood
<1>5. ASSUME NEW r \in Relay, Consume(r)
      PROVE  Kept
  BY <1>5, ConsumeGood
<1>6. ASSUME NEW r \in Relay, Probed(r)
      PROVE  Kept
  BY <1>6, ProbedGood
<1>7. ASSUME NEW r \in Relay, NEW d \in Dir, Copy(r, d)
      PROVE  Kept
  BY <1>7, CopyGood
<1>8. ASSUME NEW r \in Relay, NEW d \in Dir, CopyEnds(r, d)
      PROVE  Kept
  BY <1>8, CopyEndsGood
<1>9. ASSUME NEW r \in Relay,
             PeekFails(r) \/ ConsumeFails(r) \/ CopyFails(r) \/ WriteFails(r) \/ Finish(r) \/ Deadline(r)
      PROVE  Kept
  BY <1>9, EndsGood
<1>10. ASSUME NEW p \in Party, Say(p)
       PROVE  Kept
  BY <1>10, SayGood
<1>11. ASSUME NEW p \in Party, Shut(p) \/ Vanish(p)
       PROVE  Kept
  BY <1>11, LeavesGood
<1>12. ASSUME NEW p \in Party, Get(p)
       PROVE  Kept
  BY <1>12, GetGood
<1>13. CASE Lead
  BY <1>13, LeadGood
<1>14. CASE UNCHANGED vars
  BY <1>14, GoodStutter DEF Kept
<1>15. ASSUME NEW r \in Relay, Step(r)
       PROVE  Kept
  BY <1>1, <1>2, <1>3, <1>4, <1>5, <1>6, <1>7, <1>8, <1>9, <1>15 DEF Step
<1>16. QED
  BY <1>9, <1>10, <1>11, <1>12, <1>13, <1>14, <1>15 DEF Next

(* Nobody changes the configuration.                                       *)
LEMMA SetupFixed == [Next]_vars => setup' = setup
<1>1. ASSUME NEW r \in Relay, Step(r) \/ Deadline(r)
      PROVE  setup' = setup
  <2>1. CASE NoProxy(r) \/ Peek(r) \/ SendProxy(r) \/ FirstChunk(r) \/ Consume(r) \/ Probed(r)
    BY <2>1 DEF NoProxy, Peek, SendProxy, FirstChunk, Consume, Probed
  <2>2. CASE PeekFails(r) \/ ConsumeFails(r) \/ CopyFails(r) \/ WriteFails(r) \/ Finish(r) \/ Deadline(r)
    BY <2>2 DEF PeekFails, ConsumeFails, CopyFails, WriteFails, Finish, Deadline, Refuse, Break, Drop
  <2>3. ASSUME NEW d \in Dir, Copy(r, d) \/ CopyEnds(r, d)
        PROVE  setup' = setup
    BY <2>3 DEF Copy, CopyEnds
  <2>4. QED
    BY <1>1, <2>1, <2>2, <2>3 DEF Step
<1>2. ASSUME NEW p \in Party, Say(p) \/ Shut(p) \/ Vanish(p) \/ Get(p)
      PROVE  setup' = setup
  BY <1>2 DEF Say, Shut, Vanish, Get
<1>3. Lead \/ UNCHANGED vars => setup' = setup
  BY DEF Lead, vars
<1>4. QED
  BY <1>1, <1>2, <1>3 DEF Next

(* Inv holds: for relays that agree, every link carries what it should.    *)
LEMMA TunnelInv == Spec => []Inv
<1>1. Init => Inv
  BY TypeInit, GoodInit DEF Inv
<1>2. Inv /\ [Next]_vars => Inv'
  <2> SUFFICES ASSUME Inv, [Next]_vars
               PROVE  Inv'
    OBVIOUS
  <2>1. TypeOK /\ TypeOK'
    BY TypeStep DEF Inv
  <2>2. ASSUME Agreed'
        PROVE  Kept
    <3>1. setup' = setup
      BY SetupFixed
    <3>2. Agreed
      BY <2>2, <3>1 DEF Agreed, Matched
    <3>3. PICK rd \in [Link -> Nat], wr \in [Link -> Nat], junk \in [Link -> Nat] : Good(rd, wr, junk)
      BY <3>2 DEF Inv
    <3>4. QED
      BY <2>1, <3>2, <3>3, GoodStep
  <2>3. QED
    BY <2>1, <2>2 DEF Inv, Kept
<1>3. QED
  BY <1>1, <1>2, PTL DEF Spec

-----------------------------------------------------------------------------
(* What it says of the two parties.                                        *)
LEMMA BodyIs ==
  ASSUME TypeOK, NEW p \in Party, NEW i, i = In(p), NEW n \in Nat,
         \A k \in 1 .. Len(got[p]) : got[p][k] = Ideal(setup, i, n)[k]
  PROVE  /\ Len(Body(p)) \in Nat
         /\ Len(Body(p)) # 0 => Len(Body(p)) = Len(got[p]) - Greet(setup, i)
         /\ \A k \in 1 .. Len(Body(p)) : Body(p)[k] = Data(k)
<1>1. i \in {"AC", "BS"} /\ i \in Link /\ got[p] \in Seq(Thing) /\ Len(got[p]) \in Nat
  BY Wires, LenProperties DEF Party, Link, TypeOK
<1> DEFINE g == got[p]
           f == Ideal(setup, i, n)
<1>2. ASSUME NEW k \in Nat \ {0}
      PROVE  f[Greet(setup, i) + k] = Data(k)
  <2>1. Fore(setup, i, n) = Greet(setup, i)
    BY <1>1, PlainLinks
  <2>2. Ideal(setup, i, n)[Fore(setup, i, n) + k] = Chunk(setup, i, k)
    BY <1>1, IdealChunk
  <2>3. (FALSE <=> Veiled(setup, i)) /\ k \in Nat /\ FALSE \in BOOLEAN
    BY <1>1 DEF Veiled
  <2>4. Chunk(setup, i, k) = Coded(k, FALSE)
    BY <2>3, ChunkIs
  <2>5. Data(k) = Coded(k, FALSE)
    BY DEF Data, Item, Coded
  <2>6. QED
    BY <2>1, <2>2, <2>4, <2>5
<1> HIDE DEF f
<1>3. \A k \in 1 .. Len(g) : g[k] = f[k]
  BY DEF f
<1>4. CASE p = "S" /\ setup.send["B"] /\ g # <<>>
  <2>1. i = "BS" /\ Greet(setup, i) = 1
    BY <1>4, Wires DEF Greet, Greeted
  <2>2. Body(p) = Tail(g)
    BY <1>4 DEF Body
  <2>3. Len(Tail(g)) = Len(g) - 1 /\ Len(g) # 0 /\ \A k \in 1 .. Len(g) - 1 : Tail(g)[k] = g[k + 1]
    BY <1>1, <1>4, EmptySeq, HeadTailProperties
  <2>4. \A k \in 1 .. Len(Body(p)) : Body(p)[k] = Data(k)
    <3>1. TAKE k \in 1 .. Len(Body(p))
    <3>2. k \in Nat \ {0} /\ k \in 1 .. Len(g) - 1 /\ k + 1 \in 1 .. Len(g) /\ k + 1 = 1 + k
      BY <1>1, <2>2, <2>3
    <3>3. Body(p)[k] = f[1 + k]
      BY <1>3, <2>2, <2>3, <3>2
    <3>4. QED
      BY <1>2, <2>1, <3>2, <3>3
  <2>5. QED
    BY <1>1, <2>1, <2>2, <2>3, <2>4
<1>5. CASE ~(p = "S" /\ setup.send["B"] /\ g # <<>>)
  <2>1. Body(p) = g
    BY <1>5 DEF Body
  <2>2. g = <<>> \/ Greet(setup, i) = 0
    BY <1>5, Wires DEF Greet, Greeted, Party
  <2>3. CASE g = <<>>
    BY <2>1, <2>3
  <2>4. CASE Greet(setup, i) = 0
    <3>1. \A k \in 1 .. Len(g) : g[k] = Data(k)
      <4>1. TAKE k \in 1 .. Len(g)
      <4>2. k \in Nat \ {0} /\ Greet(setup, i) + k = k
        BY <1>1, <2>4
      <4>3. QED
        BY <1>2, <1>3, <4>2
    <3>2. QED
      BY <1>1, <2>1, <2>4, <3>1
  <2>5. QED
    BY <2>2, <2>3, <2>4
<1>6. QED
  BY <1>4, <1>5

(* What a party has received was written by its relay, and by the other    *)
(* relay before.                                                           *)
LEMMA LastHop ==
  ASSUME TypeOK, NEW p \in Party, NEW i, i = In(p), NEW k, k = IF p = "S" THEN "AB" ELSE "BA",
         NEW rd \in [Link -> Nat], NEW wr \in [Link -> Nat], NEW junk \in [Link -> Nat],
         Good(rd, wr, junk)
  PROVE  /\ Len(Body(p)) \in Nat
         /\ \A x \in 1 .. Len(Body(p)) : Body(p)[x] = Data(x)
         /\ Len(Body(p)) # 0 => /\ Len(Body(p)) <= wr[i] - Greet(setup, i)
                                /\ Len(Body(p)) <= wr[k] - Fore(setup, k, junk[k])
<1>1. /\ i \in Link /\ k \in Link /\ junk[i] \in Nat /\ junk[k] \in Nat
      /\ ~Unheeded(i, pc)
  BY Wires DEF Unheeded, Party, Link
<1>2. Gotten(setup, i, got[p], rd, junk)
  BY DEF Good
<1>3. \A x \in 1 .. Len(got[p]) : got[p][x] = Ideal(setup, i, junk[i])[x]
  BY <1>2 DEF Gotten
<1>4. /\ Len(Body(p)) \in Nat
      /\ Len(Body(p)) # 0 => Len(Body(p)) = Len(got[p]) - Greet(setup, i)
      /\ \A x \in 1 .. Len(Body(p)) : Body(p)[x] = Data(x)
  <2>1. i = In(p) /\ junk[i] \in Nat
    BY <1>1
  <2>2. QED
    BY <1>3, <2>1, BodyIs, Zenon
<1>5. Len(got[p]) = rd[i]
  BY <1>2 DEF Gotten
<1>6. rd[i] <= wr[i]
  <2>1. Holds(link[i], Ideal(setup, i, junk[i]), rd[i], wr[i], Open(i, shut, pc, done), reset)
    BY <1>1 DEF Good
  <2>2. QED
    BY <2>1 DEF Holds
<1>7. Behind(setup, i, k, wr, junk)
  BY Wires DEF Good, Party
<1>8. Greet(setup, i) \in Nat /\ rd[i] \in Nat /\ wr[i] \in Nat /\ wr[k] \in Nat
  BY <1>1 DEF Greet
<1>9. Fore(setup, k, junk[k]) \in Nat
  BY <1>1, ForeIs
<1>10. ASSUME Len(Body(p)) # 0
       PROVE  /\ Len(Body(p)) <= wr[i] - Greet(setup, i)
              /\ Len(Body(p)) <= wr[k] - Fore(setup, k, junk[k])
  <2>1. Len(Body(p)) = rd[i] - Greet(setup, i) /\ Len(Body(p)) > 0
    BY <1>4, <1>5, <1>10
  <2>2. wr[i] > Greet(setup, i)
    BY <1>6, <1>8, <2>1
  <2>3. wr[i] - Greet(setup, i) <= wr[k] - Fore(setup, k, junk[k])
    BY <1>7, <1>8, <2>2 DEF Behind
  <2>4. QED
    BY <1>6, <1>8, <1>9, <2>1, <2>3
<1>11. QED
  BY <1>4, <1>10

LEMMA IntactInv == Inv => TunnelIntact
<1> SUFFICES ASSUME Inv, Agreed, NEW p \in Party
             PROVE  /\ Len(Body(p)) <= IF Matched THEN sent[Other(p)] ELSE 0
                    /\ \A x \in 1 .. Len(Body(p)) : Body(p)[x] = Data(x)
  BY DEF TunnelIntact
<1>1. TypeOK
  BY DEF Inv
<1>2. PICK rd \in [Link -> Nat], wr \in [Link -> Nat], junk \in [Link -> Nat] : Good(rd, wr, junk)
  BY DEF Inv
<1> DEFINE i == In(p)
           k == IF p = "S" THEN "AB" ELSE "BA"
<1>3. i = In(p) /\ k = IF p = "S" THEN "AB" ELSE "BA"
  OBVIOUS
<1>4. /\ i \in Link /\ k \in Link
      /\ p = "S" => i = "BS" /\ k = "AB" /\ Other(p) = "C"
      /\ p = "C" => i = "AC" /\ k = "BA" /\ Other(p) = "S"
  BY Wires DEF Party, Link, Other
<1> HIDE DEF i, k
<1>5. /\ Len(Body(p)) \in Nat
      /\ \A x \in 1 .. Len(Body(p)) : Body(p)[x] = Data(x)
      /\ Len(Body(p)) # 0 => /\ Len(Body(p)) <= wr[i] - Greet(setup, i)
                             /\ Len(Body(p)) <= wr[k] - Fore(setup, k, junk[k])
  <2>1. p \in Party /\ i = In(p) /\ k = IF p = "S" THEN "AB" ELSE "BA"
    BY <1>3
  <2>2. rd \in [Link -> Nat] /\ wr \in [Link -> Nat] /\ junk \in [Link -> Nat] /\ Good(rd, wr, junk)
    BY <1>2
  <2>3. QED
    BY <1>1, <2>1, <2>2, LastHop
<1>6. sent["C"] \in Nat /\ sent["S"] \in Nat /\ wr[i] \in Nat /\ wr[k] \in Nat /\ junk[k] \in Nat
  BY <1>1, <1>4 DEF TypeOK, Party
<1>7. Greet(setup, i) \in Nat /\ Fore(setup, k, junk[k]) \in Nat
  BY <1>1, <1>4, <1>6, ForeType DEF Greet
<1>8. CASE Matched
  <2>1. wr[k] <= Fore(setup, k, junk[k]) + sent[Other(p)]
    BY <1>2, <1>4 DEF Good, Supply, Party
  <2>2. sent[Other(p)] \in Nat
    BY <1>4, <1>6 DEF Party
  <2>3. QED
    BY <1>5, <1>6, <1>7, <1>8, <2>1, <2>2
<1>9. CASE ~Matched
  <2>1. ~Equal(setup) /\ Clash(setup, pc, wr)
    BY <1>1, <1>2, <1>9, ModeConfig DEF Good
  <2>2. wr["BS"] <= Greet(setup, "BS") /\ wr["BA"] = 0
    BY <2>1 DEF Clash
  <2>3. Len(Body(p)) = 0
    <3>1. CASE p = "S"
      BY <1>4, <1>5, <1>6, <1>7, <2>2, <3>1
    <3>2. CASE p = "C"
      BY <1>4, <1>5, <1>6, <1>7, <2>2, <3>2
    <3>3. QED
      BY <3>1, <3>2 DEF Party
  <2>4. QED
    BY <1>5, <1>9, <2>3
<1>10. QED
  BY <1>8, <1>9

LEMMA HeadersInv == Inv => ProperHeaders
<1> SUFFICES ASSUME Inv, Agreed
             PROVE  /\ setup.send["B"] /\ got["S"] # <<>> => got["S"][1] = Proxy(Origin)
                    /\ Matched => \A r \in Relay : pc[r] # "probed"
  BY DEF ProperHeaders
<1>1. TypeOK
  BY DEF Inv
<1>2. PICK rd \in [Link -> Nat], wr \in [Link -> Nat], junk \in [Link -> Nat] : Good(rd, wr, junk)
  BY DEF Inv
<1>3. ASSUME Matched
      PROVE  \A r \in Relay : pc[r] # "probed"
  BY <1>1, <1>2, <1>3, ModeConfig DEF Good, Clash
<1>4. ASSUME setup.send["B"], got["S"] # <<>>
      PROVE  got["S"][1] = Proxy(Origin)
  <2>1. "S" \in Party /\ In("S") = "BS" /\ "BS" \in Link /\ junk["BS"] \in Nat
    BY Wires DEF Party, Link
  <2>2. Gotten(setup, "BS", got["S"], rd, junk)
    BY <1>2, <2>1 DEF Good
  <2>3. 1 \in 1 .. Len(got["S"])
    <3>1. got["S"] \in Seq(Thing)
      BY <1>1, <2>1 DEF TypeOK
    <3>2. QED
      BY <1>4, <3>1, EmptySeq, LenProperties
  <2>4. got["S"][1] = Ideal(setup, "BS", junk["BS"])[1]
    BY <2>2, <2>3 DEF Gotten
  <2>5. Greet(setup, "BS") = 1
    BY <1>4 DEF Greet, Greeted
  <2>6. Ideal(setup, "BS", junk["BS"])[1] = Proxy(NameOn(setup, "BS"))
    BY <2>1, <2>5, IdealFront
  <2>7. NameOn(setup, "BS") = Origin
    BY DEF NameOn, Origin
  <2>8. QED
    BY <2>4, <2>6, <2>7
<1>5. QED
  BY <1>3, <1>4

LEMMA BlameInv == Inv => ServiceNotBlamed
<1> SUFFICES ASSUME Inv, Agreed, Served, NEW r \in Relay, report[r] = "failure"
             PROVE  FALSE
  BY DEF ServiceNotBlamed
<1>1. TypeOK
  BY DEF Inv
<1>2. PICK rd \in [Link -> Nat], wr \in [Link -> Nat], junk \in [Link -> Nat] : Good(rd, wr, junk)
  BY DEF Inv
<1>3. /\ ~reset /\ sent["S"] > 0
      /\ Len(Body("C")) = sent["S"] /\ Len(Body("S")) = sent["C"]
  BY DEF Served, Party, Other
<1>4. /\ sent["C"] \in Nat /\ sent["S"] \in Nat
      /\ wr["AC"] \in Nat /\ wr["BA"] \in Nat /\ wr["BS"] \in Nat /\ wr["AB"] \in Nat
  BY <1>1 DEF TypeOK, Party, Link
<1>5. sent["S"] <= wr["AC"] - Greet(setup, "AC") /\ sent["S"] <= wr["BA"] - Fore(setup, "BA", junk["BA"])
  <2>1. "C" \in Party /\ "AC" = In("C") /\ "BA" = IF "C" = "S" THEN "AB" ELSE "BA"
    BY Wires DEF Party
  <2>2. Len(Body("C")) # 0 => /\ Len(Body("C")) <= wr["AC"] - Greet(setup, "AC")
                              /\ Len(Body("C")) <= wr["BA"] - Fore(setup, "BA", junk["BA"])
    BY <1>1, <1>2, <2>1, LastHop
  <2>3. QED
    BY <1>3, <1>4, <2>2
<1>6. sent["C"] > 0 =>
        sent["C"] <= wr["BS"] - Greet(setup, "BS") /\ sent["C"] <= wr["AB"] - Fore(setup, "AB", junk["AB"])
  <2>1. "S" \in Party /\ "BS" = In("S") /\ "AB" = IF "S" = "S" THEN "AB" ELSE "BA"
    BY Wires DEF Party
  <2>2. Len(Body("S")) # 0 => /\ Len(Body("S")) <= wr["BS"] - Greet(setup, "BS")
                              /\ Len(Body("S")) <= wr["AB"] - Fore(setup, "AB", junk["AB"])
    BY <1>1, <1>2, <2>1, LastHop
  <2>3. QED
    BY <1>3, <1>4, <2>2
<1>7. /\ Fore(setup, "AC", junk["AC"]) = Greet(setup, "AC")
      /\ Fore(setup, "BS", junk["BS"]) = Greet(setup, "BS")
      /\ Greet(setup, "AC") \in Nat /\ Greet(setup, "BS") \in Nat
      /\ Fore(setup, "AB", junk["AB"]) \in Nat /\ Fore(setup, "BA", junk["BA"]) \in Nat
  <2>1. /\ "AB" \in Link /\ "BA" \in Link /\ junk["AB"] \in Nat /\ junk["BA"] \in Nat
    BY DEF Link
  <2>2. QED
    BY <2>1, PlainLinks, ForeType DEF Greet
<1>8. Mute(setup, r, wr, junk) \/ \E d \in Dir : Short(setup, r, d, sent, wr, junk)
  BY <1>2, <1>3 DEF Good, Excused
<1>9. ~Mute(setup, r, wr, junk)
  <2>1. ~(wr["AC"] <= Fore(setup, "AC", junk["AC"]))
    <3>1. sent["S"] > 0 /\ sent["S"] <= wr["AC"] - Fore(setup, "AC", junk["AC"])
      BY <1>3, <1>5, <1>7
    <3>2. QED
      BY <1>4, <1>7, <3>1
  <2>2. ~(wr["BA"] <= Fore(setup, "BA", junk["BA"]))
    <3>1. sent["S"] > 0 /\ sent["S"] <= wr["BA"] - Fore(setup, "BA", junk["BA"])
      BY <1>3, <1>5
    <3>2. QED
      BY <1>4, <1>7, <3>1
  <2>3. To(r, "down") = "AC" \/ To(r, "down") = "BA"
    BY Wires DEF Relay
  <2>4. QED
    BY <2>1, <2>2, <2>3 DEF Mute
<1>10. ASSUME NEW d \in Dir
       PROVE  ~Short(setup, r, d, sent, wr, junk)
  <2>1. CASE d = "down"
    BY <1>4, <1>5, <1>7, <2>1, Wires DEF Short, Sender, Relay
  <2>2. CASE d = "up"
    BY <1>4, <1>6, <1>7, <2>2, Wires DEF Short, Sender, Relay
  <2>3. QED
    BY <2>1, <2>2 DEF Dir
<1>11. QED
  BY <1>8, <1>9, <1>10

(* The variables of the tunnel keep their types: whatever is put on a      *)
(* link, its end included, is an item, and no relay knows its client by    *)
(* another name than its neighbour's or the far end's (middle.rs:45-78,    *)
(* proxy.rs:38-98, bidi_copy.rs:317-387).                                  *)
THEOREM TunnelTypes == Spec => []TypeOK
<1>1. Inv => TypeOK
  BY DEF Inv
<1>2. QED
  BY <1>1, TunnelInv, PTL

(* Between relays that agree, C and S receive what the other has sent,     *)
(* every chunk in order and in the clear, and none of heads, junk and      *)
(* headers; behind a relay that does not know the handshake, none of it    *)
(* (plain.rs:11-32, bidi_copy.rs:347-387).                                 *)
THEOREM ArrivesIntact == Spec => []TunnelIntact
BY IntactInv, TunnelInv, PTL

(* S is told the client's name as far as the relays hand it on, and two    *)
(* relays that agree never take each other for a probe (proxy.rs:38-98).   *)
THEOREM HeadersProper == Spec => []ProperHeaders
BY HeadersInv, TunnelInv, PTL

(* No relay blames its peer for a connection that was served, whatever the *)
(* timers did (middle.rs:45-78,262-293,413-440).                           *)
THEOREM ServersNotBlamed == Spec => []ServiceNotBlamed
BY BlameInv, TunnelInv, PTL

=============================================================================
