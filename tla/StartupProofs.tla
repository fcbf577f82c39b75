--------------------------- MODULE StartupProofs ---------------------------
(***************************************************************************)
(* What a start-up makes of its configuration, for any files, environment  *)
(* and command line.                                                       *)
(***************************************************************************)
EXTENDS Startup, WellFoundedInduction, TLAPS

-----------------------------------------------------------------------------
(* Induction, as in RoundRobinProofs.                                      *)

\* Every set of naturals that is not empty has a least element.
LEMMA LeastNatural ==
  ASSUME NEW T, T \subseteq Nat, T # {}
  PROVE  \E x \in T : \A y \in T : x <= y
<1> DEFINE R == OpToRel(<, Nat)
<1>1. R = {ss \in Nat \X Nat : ss[1] < ss[2]}
  BY DEF OpToRel
<1>2. IsWellFoundedOn(R, Nat)
  BY NatLessThanWellFounded
<1> HIDE DEF R
<1>3. PICK x \in T : \A y \in T : ~(<<y, x>> \in R)
  BY <1>2, WFMin
<1>4. ASSUME NEW y \in T
      PROVE  x <= y
  <2>1. x \in Nat /\ y \in Nat /\ <<y, x>> \in Nat \X Nat
    OBVIOUS
  <2>2. ~(y < x)
    BY <1>1, <1>3, <2>1
  <2>3. QED
    BY <2>1, <2>2
<1>5. QED
  BY <1>3, <1>4

\* A set with zero in it and closed under successor contains Nat.
LEMMA NatSetInduction ==
  ASSUME NEW S, 0 \in S, \A n \in Nat : n \in S => n + 1 \in S
  PROVE  Nat \subseteq S
<1> SUFFICES ASSUME NEW m \in Nat, m \notin S
             PROVE  FALSE
  OBVIOUS
<1>1. PICK x \in Nat \ S : \A y \in Nat \ S : x <= y
  BY LeastNatural
<1>2. x - 1 \in Nat /\ (x - 1) + 1 = x
  BY <1>1
<1>3. x - 1 \in S
  BY <1>1, <1>2
<1>4. QED
  BY <1>2, <1>3

-----------------------------------------------------------------------------
(* Structures of optional fields and their merge.                          *)

LEMMA EmptyFunction == /\ DOMAIN (<<>>) = {}
                       /\ IsFunction(<<>>)
                       /\ Range(<<>>) = {}
BY DEF IsFunction, Range

LEMMA MergeIs ==
  ASSUME NEW f, NEW g
  PROVE  /\ DOMAIN (f ++ g) = DOMAIN f \cup DOMAIN g
         /\ IsFunction(f ++ g)
         /\ \A x \in DOMAIN f : (f ++ g)[x] = f[x]
         /\ \A x \in DOMAIN g \ DOMAIN f : (f ++ g)[x] = g[x]
BY DEF ++, IsFunction

\* What is said of some fields of a merge is the merge of what is said of them.
LEMMA GivenMerge ==
  ASSUME NEW f, NEW g, NEW S
  PROVE  Given(f ++ g, S) = Given(f, S) ++ Given(g, S)
BY DEF ++, Given

LEMMA MergeAssoc ==
  ASSUME NEW f, NEW g, NEW h
  PROVE  (f ++ g) ++ h = f ++ (g ++ h)
BY DEF ++

LEMMA MergeEmpty ==
  ASSUME NEW f, IsFunction(f)
  PROVE  <<>> ++ f = f /\ f ++ <<>> = f
BY EmptyFunction DEF ++, IsFunction

LEMMA GivenFunction ==
  ASSUME NEW f, NEW S
  PROVE  IsFunction(Given(f, S)) /\ DOMAIN Given(f, S) = S \cap DOMAIN f
BY DEF Given, IsFunction

LEMMA NotGiven ==
  ASSUME NEW f, NEW x, x \notin DOMAIN f
  PROVE  Given(f, {x}) = <<>>
<1>1. DOMAIN Given(f, {x}) = {}
  BY DEF Given
<1>2. QED
  BY <1>1, EmptyFunction DEF Given

LEMMA GivenFirst ==
  ASSUME NEW f, NEW g, NEW x, x \in DOMAIN f
  PROVE  Given(f ++ g, {x}) = Given(f, {x})
BY DEF ++, Given

-----------------------------------------------------------------------------
(* Sequences.                                                              *)

LEMMA ConcatIs ==
  ASSUME NEW S, NEW s \in Seq(S), NEW t \in Seq(S)
  PROVE  /\ s \o t \in Seq(S)
         /\ \A x : x \in Range(s \o t) <=> x \in Range(s) \/ x \in Range(t)
<1>1. s \o t \in Seq(S) /\ DOMAIN (s \o t) = 1 .. Len(s) + Len(t)
  OBVIOUS
<1>2. DOMAIN s = 1 .. Len(s) /\ DOMAIN t = 1 .. Len(t) /\ Len(s) \in Nat /\ Len(t) \in Nat
  OBVIOUS
<1>3. \A i \in 1 .. Len(s) : i \in DOMAIN (s \o t) /\ (s \o t)[i] = s[i]
  BY <1>1, <1>2
<1>4. \A i \in 1 .. Len(t) : Len(s) + i \in DOMAIN (s \o t) /\ (s \o t)[Len(s) + i] = t[i]
  BY <1>1, <1>2
<1>5. ASSUME NEW i \in DOMAIN (s \o t)
      PROVE  (s \o t)[i] \in Range(s) \/ (s \o t)[i] \in Range(t)
  <2>1. CASE i <= Len(s)
    BY <1>1, <1>2, <1>3, <2>1 DEF Range
  <2>2. CASE Len(s) < i
    <3>1. i - Len(s) \in 1 .. Len(t) /\ Len(s) + (i - Len(s)) = i
      BY <1>1, <1>2, <2>2
    <3>2. QED
      BY <1>2, <1>4, <3>1 DEF Range
  <2>3. QED
    BY <1>1, <1>2, <2>1, <2>2
<1>6. QED
  BY <1>1, <1>2, <1>3, <1>4, <1>5 DEF Range

\* What the recursion of FlattenSeq computes, one sequence after the other.
FlattenStep(seqs, u, k) ==
  [i \in 1 .. k |-> IF i = 1 THEN seqs[i] ELSE u[i - 1] \o seqs[i]]

FlattenUpTo(S, seqs, k) ==
  \E u \in [1 .. k -> Seq(S)] :
     /\ u = FlattenStep(seqs, u, k)
     /\ \A i \in 1 .. k : \A x : x \in Range(u[i]) <=> \E j \in 1 .. i : x \in Range(seqs[j])

LEMMA FlattenNext ==
  ASSUME NEW S, NEW seqs \in Seq(Seq(S)), NEW k \in Nat, k < Len(seqs), FlattenUpTo(S, seqs, k)
  PROVE  FlattenUpTo(S, seqs, k + 1)
<1>1. PICK u \in [1 .. k -> Seq(S)] :
         /\ u = FlattenStep(seqs, u, k)
         /\ \A i \in 1 .. k : \A x : x \in Range(u[i]) <=> \E j \in 1 .. i : x \in Range(seqs[j])
  BY DEF FlattenUpTo
<1> DEFINE last == IF k = 0 THEN seqs[1] ELSE u[k] \o seqs[k + 1]
           v == [i \in 1 .. k + 1 |-> IF i = k + 1 THEN last ELSE u[i]]
<1>2. k + 1 \in DOMAIN seqs /\ seqs[k + 1] \in Seq(S)
  OBVIOUS
<1>3. /\ last \in Seq(S)
      /\ \A x : x \in Range(last) <=> \E j \in 1 .. k + 1 : x \in Range(seqs[j])
  <2>1. CASE k = 0
    <3>1. last = seqs[1] /\ 1 .. k + 1 = {1}
      BY <2>1
    <3>2. QED
      BY <1>2, <2>1, <3>1
  <2>2. CASE k # 0
    <3>0. k \in 1 .. k /\ u[k] \in Seq(S)
      BY <2>2
    <3>1. k \in 1 .. k /\ u[k] \in Seq(S) /\ last = u[k] \o seqs[k + 1]
      BY <2>2, <3>0, Zenon
    <3>2. /\ last \in Seq(S)
          /\ \A x : x \in Range(last) <=> x \in Range(u[k]) \/ x \in Range(seqs[k + 1])
      <4>1. u[k] \o seqs[k + 1] \in Seq(S)
        BY <1>2, <3>1
      <4>2. \A x : x \in Range(u[k] \o seqs[k + 1])
                     <=> x \in Range(u[k]) \/ x \in Range(seqs[k + 1])
        BY <1>2, <3>1, ConcatIs
      <4> HIDE DEF last
      <4>3. QED
        BY <3>1, <4>1, <4>2
    <3>3. \A x : x \in Range(u[k]) <=> \E j \in 1 .. k : x \in Range(seqs[j])
      BY <1>1, <3>1
    <3>4. 1 .. k + 1 = (1 .. k) \cup {k + 1}
      OBVIOUS
    <3> HIDE DEF last
    <3>5. QED
      BY <3>2, <3>3, <3>4
  <2>3. QED
    BY <2>1, <2>2
<1>4. v \in [1 .. k + 1 -> Seq(S)]
  <2>1. last \in Seq(S)
    BY <1>3
  <2> HIDE DEF last
  <2>2. QED
    BY <2>1
<1>5. v = FlattenStep(seqs, v, k + 1)
  <2>1. ASSUME NEW i \in 1 .. k + 1
        PROVE  v[i] = IF i = 1 THEN seqs[i] ELSE v[i - 1] \o seqs[i]
    <3>1. CASE i = k + 1
      <4>1. CASE k = 0
        BY <3>1, <4>1
      <4>2. CASE k # 0
        <5>1. i # 1 /\ i - 1 = k /\ k \in 1 .. k + 1 /\ k # k + 1
          BY <3>1, <4>2
        <5>2. v[i] = last /\ v[k] = u[k] /\ last = u[k] \o seqs[k + 1]
          BY <3>1, <4>2, <5>1
        <5> HIDE DEF v, last
        <5>3. QED
          BY <3>1, <5>1, <5>2
      <4>3. QED
        BY <4>1, <4>2
    <3>2. CASE i \in 1 .. k
      <4>1. u[i] = IF i = 1 THEN seqs[i] ELSE u[i - 1] \o seqs[i]
        BY <1>1, <3>2 DEF FlattenStep
      <4>2. v[i] = u[i] /\ (i # 1 => v[i - 1] = u[i - 1])
        <5> HIDE DEF last
        <5>1. i # k + 1 /\ (i # 1 => i - 1 \in 1 .. k + 1 /\ i - 1 # k + 1)
          BY <3>2
        <5>2. QED
          BY <5>1
      <4> HIDE DEF v, last
      <4>3. QED
        BY <4>1, <4>2
    <3>3. QED
      BY <3>1, <3>2
  <2>2. v = [i \in 1 .. k + 1 |-> v[i]]
    OBVIOUS
  <2> HIDE DEF v, last
  <2>3. QED
    BY <2>1, <2>2 DEF FlattenStep
<1>6. \A i \in 1 .. k + 1 : \A x : x \in Range(v[i]) <=> \E j \in 1 .. i : x \in Range(seqs[j])
  <2>1. ASSUME NEW i \in 1 .. k + 1, NEW x
        PROVE  x \in Range(v[i]) <=> \E j \in 1 .. i : x \in Range(seqs[j])
    <3>1. CASE i = k + 1
      <4>1. v[i] = last
        BY <3>1
      <4> HIDE DEF v, last
      <4>2. QED
        BY <1>3, <3>1, <4>1
    <3>2. CASE i \in 1 .. k
      <4>1. v[i] = u[i]
        <5> HIDE DEF last
        <5>1. QED
          BY <3>2
      <4> HIDE DEF v, last
      <4>2. QED
        BY <1>1, <3>2, <4>1
    <3>3. QED
      BY <3>1, <3>2
  <2>2. QED
    BY <2>1
<1> HIDE DEF v, last
<1>7. QED
  BY <1>4, <1>5, <1>6 DEF FlattenUpTo

LEMMA FlattenAll ==
  ASSUME NEW S, NEW seqs \in Seq(Seq(S))
  PROVE  FlattenUpTo(S, seqs, Len(seqs))
<1> DEFINE I == {k \in Nat : k <= Len(seqs) => FlattenUpTo(S, seqs, k)}
<1>1. 0 \in I
  <2>1. FlattenUpTo(S, seqs, 0)
    <3> DEFINE u == [i \in 1 .. 0 |-> seqs[i]]
    <3>1. u \in [1 .. 0 -> Seq(S)] /\ u = FlattenStep(seqs, u, 0)
      BY DEF FlattenStep
    <3>2. \A i \in 1 .. 0 : FALSE
      OBVIOUS
    <3> HIDE DEF u
    <3>3. QED
      BY <3>1, <3>2 DEF FlattenUpTo
  <2>2. QED
    BY <2>1
<1>2. ASSUME NEW k \in Nat, k \in I
      PROVE  k + 1 \in I
  <2> SUFFICES ASSUME k + 1 <= Len(seqs)
               PROVE  FlattenUpTo(S, seqs, k + 1)
    OBVIOUS
  <2>1. k < Len(seqs) /\ FlattenUpTo(S, seqs, k)
    BY <1>2
  <2>2. QED
    BY <2>1, FlattenNext
<1> HIDE DEF I
<1>3. Nat \subseteq I
  BY <1>1, <1>2, NatSetInduction
<1>4. QED
  BY <1>3 DEF I

\* FlattenSeq makes one sequence of the elements of all.
LEMMA FlattenIs ==
  ASSUME NEW S, NEW seqs \in Seq(Seq(S))
  PROVE  /\ FlattenSeq(seqs) \in Seq(S)
         /\ \A x : x \in Range(FlattenSeq(seqs)) <=> \E i \in DOMAIN seqs : x \in Range(seqs[i])
<1>1. CASE Len(seqs) = 0
  <2>1. seqs = <<>> /\ DOMAIN seqs = {} /\ FlattenSeq(seqs) = seqs
    BY <1>1 DEF FlattenSeq
  <2>2. <<>> \in Seq(S)
    OBVIOUS
  <2>3. FlattenSeq(seqs) = <<>>
    BY <2>1
  <2>4. Range(FlattenSeq(seqs)) = {}
    BY <2>3, EmptyFunction, Zenon
  <2>5. FlattenSeq(seqs) \in Seq(S)
    BY <2>2, <2>3, Zenon
  <2>6. QED
    BY <2>1, <2>4, <2>5, Zenon
<1>2. CASE Len(seqs) # 0
  <2> DEFINE n == Len(seqs)
             u == CHOOSE g : g = FlattenStep(seqs, g, n)
  <2>1. FlattenSeq(seqs) = u[n]
    BY <1>2 DEF FlattenSeq, FlattenStep
  <2>2. PICK w \in [1 .. n -> Seq(S)] :
           /\ w = FlattenStep(seqs, w, n)
           /\ \A i \in 1 .. n : \A x : x \in Range(w[i]) <=> \E j \in 1 .. i : x \in Range(seqs[j])
    BY FlattenAll DEF FlattenUpTo
  <2>3. u = FlattenStep(seqs, u, n)
    BY <2>2
  <2> HIDE DEF u
  <2>4. \A i \in 1 .. n : u[i] = w[i]
    <3> DEFINE I == {k \in Nat : \A i \in 1 .. n : i <= k => u[i] = w[i]}
    <3>1. 0 \in I
      OBVIOUS
    <3>2. ASSUME NEW k \in Nat, k \in I
          PROVE  k + 1 \in I
      <4> SUFFICES ASSUME NEW i \in 1 .. n, i = k + 1
                   PROVE  u[i] = w[i]
        BY <3>2
      <4>1. CASE i = 1
        BY <2>2, <2>3, <4>1 DEF FlattenStep
      <4>2. CASE i # 1
        <5>1. i - 1 \in 1 .. n /\ u[i - 1] = w[i - 1]
          BY <3>2, <4>2
        <5>2. u[i] = u[i - 1] \o seqs[i] /\ w[i] = w[i - 1] \o seqs[i]
          BY <2>2, <2>3, <4>2 DEF FlattenStep
        <5>3. QED
          BY <5>1, <5>2
      <4>3. QED
        BY <4>1, <4>2
    <3> HIDE DEF I
    <3>3. Nat \subseteq I
      BY <3>1, <3>2, NatSetInduction
    <3>4. n \in Nat /\ n \in I
      BY <3>3
    <3>5. QED
      BY <3>4 DEF I
  <2>5. n \in 1 .. n /\ DOMAIN seqs = 1 .. n
    BY <1>2
  <2>6. u[n] = w[n] /\ w[n] \in Seq(S)
    BY <2>2, <2>4, <2>5
  <2>7. \A x : x \in Range(w[n]) <=> \E j \in 1 .. n : x \in Range(seqs[j])
    BY <2>2, <2>5
  <2> HIDE DEF n
  <2>8. FlattenSeq(seqs) = w[n]
    BY <2>1, <2>6
  <2>9. \A x : x \in Range(FlattenSeq(seqs)) <=> \E i \in DOMAIN seqs : x \in Range(seqs[i])
    BY <2>5, <2>7, <2>8, Zenon
  <2>10. QED
    BY <2>6, <2>8, <2>9, Zenon
<1>3. QED
  BY <1>1, <1>2

-----------------------------------------------------------------------------
(* Legacy files.                                                           *)

USE StartupAssumption

LEMMA PastLastIs ==
  ASSUME NEW r \in Port \X Port
  PROVE  /\ r[1] \in Nat /\ r[2] \in Nat /\ PastLast(r) \in Nat
         /\ PastLast(r) <= r[2] + 1
         /\ r[2] + 1 < PortNumbers => PastLast(r) = r[2] + 1
<1>1. r[1] \in Port /\ r[2] \in Port
  OBVIOUS
<1>2. r[1] \in Nat /\ r[2] \in Nat /\ r[2] < PortNumbers /\ PortNumbers \in Nat
  BY <1>1 DEF Port
<1>3. (r[2] + 1) % PortNumbers = IF r[2] + 1 = PortNumbers THEN 0 ELSE r[2] + 1
  BY <1>2
<1>4. QED
  BY <1>2, <1>3 DEF PastLast

LEMMA CountIs ==
  ASSUME NEW a \in Nat, NEW b \in Nat, NEW s, s = [i \in 1 .. b - a |-> a + i - 1]
  PROVE  /\ s \in Seq(Nat)
         /\ \A x : x \in Range(s) <=> x \in a .. b - 1
<1>1. s \in Seq(Nat)
  <2>1. CASE b - a \in Nat
    BY <2>1
  <2>2. CASE b < a
    <3>1. 1 .. b - a = 1 .. 0
      BY <2>2
    <3>2. s = [i \in 1 .. 0 |-> a + i - 1]
      BY <3>1
    <3>3. QED
      BY <3>2
  <2>3. QED
    BY <2>1, <2>2
<1>2. DOMAIN s = 1 .. b - a /\ \A i \in 1 .. b - a : s[i] = a + i - 1
  OBVIOUS
<1>3. ASSUME NEW i \in DOMAIN s
      PROVE  s[i] \in a .. b - 1
  BY <1>2
<1>4. ASSUME NEW x \in a .. b - 1
      PROVE  \E i \in DOMAIN s : s[i] = x
  <2>1. x - a + 1 \in 1 .. b - a /\ a + (x - a + 1) - 1 = x
    OBVIOUS
  <2>2. s[x - a + 1] = x
    BY <1>2, <2>1
  <2>3. QED
    BY <1>2, <2>1, <2>2
<1>5. ASSUME NEW x
      PROVE  x \in Range(s) <=> x \in a .. b - 1
  <2>1. x \in Range(s) <=> \E i \in DOMAIN s : x = s[i]
    BY Zenon DEF Range
  <2>2. QED
    BY <1>3, <1>4, <2>1
<1>6. QED
  BY <1>1, <1>5

\* The ports of a list of ranges.
LEMMA FlattenPortsIs ==
  ASSUME NEW ranges \in Seq(Port \X Port)
  PROVE  /\ FlattenPorts(ranges) \in Seq(Nat)
         /\ \A x : x \in Range(FlattenPorts(ranges))
                     <=> \E r \in Range(ranges) : x \in r[1] .. PastLast(r) - 1
<1> DEFINE seqs == [i \in DOMAIN ranges |-> PortRange(ranges[i])]
<1>1. ASSUME NEW r \in Port \X Port
      PROVE  /\ PortRange(r) \in Seq(Nat)
             /\ \A x : x \in Range(PortRange(r)) <=> x \in r[1] .. PastLast(r) - 1
  <2>1. r[1] \in Nat /\ PastLast(r) \in Nat
    BY PastLastIs
  <2>2. PortRange(r) = [i \in 1 .. PastLast(r) - r[1] |-> r[1] + i - 1]
    BY DEF PortRange
  <2>3. QED
    BY <2>1, <2>2, CountIs
<1>2. DOMAIN ranges = 1 .. Len(ranges) /\ Len(ranges) \in Nat
  OBVIOUS
<1>3. \A i \in DOMAIN ranges : ranges[i] \in Port \X Port
  OBVIOUS
<1>4. seqs \in Seq(Seq(Nat)) /\ DOMAIN seqs = DOMAIN ranges
      /\ \A i \in DOMAIN ranges : seqs[i] = PortRange(ranges[i])
  BY <1>1, <1>2, <1>3
<1> HIDE DEF seqs
<1>5. /\ FlattenSeq(seqs) \in Seq(Nat)
      /\ \A x : x \in Range(FlattenSeq(seqs)) <=> \E i \in DOMAIN seqs : x \in Range(seqs[i])
  BY <1>4, FlattenIs
<1>6. FlattenPorts(ranges) = FlattenSeq(seqs)
  BY DEF FlattenPorts, seqs
<1>7. ASSUME NEW x
      PROVE  x \in Range(FlattenPorts(ranges))
               <=> \E r \in Range(ranges) : x \in r[1] .. PastLast(r) - 1
  <2>1. x \in Range(FlattenPorts(ranges)) <=> \E i \in DOMAIN ranges : x \in Range(seqs[i])
    BY <1>4, <1>5, <1>6
  <2>2. \A i \in DOMAIN ranges :
           x \in Range(seqs[i]) <=> x \in ranges[i][1] .. PastLast(ranges[i]) - 1
    BY <1>1, <1>3, <1>4
  <2>3. QED
    BY <2>1, <2>2 DEF Range
<1>8. QED
  BY <1>5, <1>6, <1>7

\* A member of a list of addresses, and the list it is padded from.
LEMMA NthIs ==
  ASSUME NEW S, NEW s \in Seq(S), s # <<>>, NEW i \in Nat \ {0}
  PROVE  Nth(s, i) \in Range(s)
<1>1. Len(s) \in Nat \ {0} /\ DOMAIN s = 1 .. Len(s)
  OBVIOUS
<1>2. QED
  BY <1>1 DEF Nth, Range

\* A configuration as the program holds it.
IsConf(c) == /\ IsFunction(c)
             /\ DOMAIN c = {"log", "dns", "network", "endpoints"}
             /\ IsFunction(c.network)
             /\ c.endpoints \in Seq(Range(c.endpoints))
             /\ \A e \in Range(c.endpoints) : IsEndpoint(e)

LEMMA EndpointIs ==
  ASSUME NEW listen, NEW remote
  PROVE  /\ IsEndpoint(Endpoint(listen, remote))
         /\ Endpoint(listen, remote).listen = listen
         /\ Endpoint(listen, remote).remotes = <<remote>>
         /\ Endpoint(listen, remote).network = <<>>
BY EmptyFunction DEF IsEndpoint, Endpoint, IsFunction

LEMMA FunctionIsSeq ==
  ASSUME NEW n \in Nat, NEW s, IsFunction(s), DOMAIN s = 1 .. n
  PROVE  s \in Seq(Range(s))
<1>1. \A i \in 1 .. n : s[i] \in Range(s)
  BY DEF Range
<1>2. [i \in 1 .. n |-> s[i]] \in Seq(Range(s))
  BY <1>1
<1>3. s = [i \in 1 .. n |-> s[i]]
  BY Zenon DEF IsFunction
<1>4. QED
  BY <1>2, <1>3, Zenon

LEMMA EmptyConfIs == /\ IsConf(EmptyConf)
                     /\ EmptyConf.network = <<>>
                     /\ EmptyConf.endpoints = <<>>
<1>1. /\ EmptyConf.network = <<>>
      /\ EmptyConf.endpoints = <<>>
      /\ DOMAIN EmptyConf = {"log", "dns", "network", "endpoints"}
  BY DEF EmptyConf
<1>2. IsFunction(EmptyConf)
  BY DEF EmptyConf, IsFunction
<1>3. <<>> \in Seq(Range(<<>>))
  OBVIOUS
<1>4. QED
  BY <1>1, <1>2, <1>3, EmptyFunction DEF IsConf

\* A conf with other endpoints.
LEMMA WithEndpoints ==
  ASSUME NEW c, IsConf(c), NEW s, s \in Seq(Range(s)), \A e \in Range(s) : IsEndpoint(e)
  PROVE  /\ IsConf([c EXCEPT !.endpoints = s])
         /\ [c EXCEPT !.endpoints = s].endpoints = s
         /\ [c EXCEPT !.endpoints = s].network = c.network
<1> DEFINE k == [c EXCEPT !.endpoints = s]
<1>1. /\ k.endpoints = s /\ k.network = c.network
      /\ DOMAIN k = {"log", "dns", "network", "endpoints"} /\ IsFunction(k)
  BY DEF IsConf, IsFunction
<1> HIDE DEF k
<1>2. IsConf(k)
  BY <1>1 DEF IsConf
<1>3. QED
  BY <1>1, <1>2 DEF k

LegacyListen(d) ==
  LET ports == FlattenPorts(d.lports) IN JoinAddrPort(d.laddrs, ports, Len(ports))

LegacyRemote(d) ==
  JoinAddrPort(d.raddrs, FlattenPorts(d.rports), Len(FlattenPorts(d.lports)))

LegacyEndpoints(d) ==
  [i \in DOMAIN FlattenPorts(d.lports) |-> Endpoint(LegacyListen(d)[i], LegacyRemote(d)[i])]

LEMMA FromLegacyIs ==
  ASSUME NEW d, IsDocument(d), d.form = "legacy"
  PROVE  /\ IsConf(FromLegacy(d))
         /\ FromLegacy(d).network = <<>>
         /\ FromLegacy(d).endpoints = LegacyEndpoints(d)
<1>1. FromLegacy(d) = [EmptyConf EXCEPT !.endpoints = LegacyEndpoints(d)]
  BY DEF FromLegacy, LegacyEndpoints, LegacyListen, LegacyRemote
<1>2. d.lports \in Seq(Port \X Port)
  BY DEF IsDocument
<1>3. FlattenPorts(d.lports) \in Seq(Nat)
  BY <1>2, FlattenPortsIs
<1>4. PICK n \in Nat : DOMAIN FlattenPorts(d.lports) = 1 .. n
  BY <1>3
<1>5. IsFunction(LegacyEndpoints(d)) /\ DOMAIN LegacyEndpoints(d) = 1 .. n
  BY <1>4 DEF LegacyEndpoints, IsFunction
<1>6. LegacyEndpoints(d) \in Seq(Range(LegacyEndpoints(d)))
  BY <1>5, FunctionIsSeq
<1>7. \A e \in Range(LegacyEndpoints(d)) : IsEndpoint(e)
  BY EndpointIs DEF LegacyEndpoints, Range
<1>8. QED
  BY <1>1, <1>6, <1>7, EmptyConfIs, WithEndpoints

\* Every port of a range that does not end at the last port number gets an
\* endpoint, its addresses and ports out of the file's lists.
LegacyFor(d, port, listen, remotes) ==
  /\ listen[2] = port
  /\ listen[1] \in Range(d.laddrs)
  /\ remotes[1][1] \in Range(d.raddrs)
  /\ \E s \in Range(d.rports) : remotes[1][2] \in s[1] .. s[2]

LEMMA LegacyPorts ==
  ASSUME NEW d, IsDocument(d), d.form = "legacy", ~Panics(d),
         NEW r \in Range(d.lports), NEW port \in r[1] .. r[2], r[2] + 1 < PortNumbers
  PROVE  \E e \in Range(FromLegacy(d).endpoints) : LegacyFor(d, port, e.listen, e.remotes)
<1> DEFINE lp == FlattenPorts(d.lports)
           rp == FlattenPorts(d.rports)
<1>1. /\ d.lports \in Seq(Port \X Port) /\ d.rports \in Seq(Port \X Port)
      /\ d.laddrs \in Seq(Range(d.laddrs)) /\ d.raddrs \in Seq(Range(d.raddrs))
  BY DEF IsDocument
<1>2. d.laddrs # <<>> /\ d.raddrs # <<>> /\ rp # <<>>
  BY DEF Panics, LegacyPanics
<1>3. \A x \in Range(d.lports) \cup Range(d.rports) : x \in Port \X Port
  BY <1>1 DEF Range
<1>4. /\ lp \in Seq(Nat)
      /\ \A x : x \in Range(lp) <=> \E y \in Range(d.lports) : x \in y[1] .. PastLast(y) - 1
  BY <1>1, FlattenPortsIs
<1>5. /\ rp \in Seq(Nat)
      /\ \A x : x \in Range(rp) <=> \E y \in Range(d.rports) : x \in y[1] .. PastLast(y) - 1
  BY <1>1, FlattenPortsIs
<1> HIDE DEF lp, rp
<1>6. port \in Range(lp)
  <2>1. r \in Port \X Port
    BY <1>3
  <2>2. r[1] \in Nat /\ r[2] \in Nat /\ PastLast(r) = r[2] + 1
    BY <2>1, PastLastIs
  <2>3. port \in r[1] .. PastLast(r) - 1
    BY <2>2
  <2>4. QED
    BY <1>4, <2>3
<1>7. PICK k \in DOMAIN lp : lp[k] = port
  BY <1>6 DEF Range
<1>8. DOMAIN lp = 1 .. Len(lp) /\ k \in 1 .. Len(lp) /\ k \in Nat \ {0} /\ Nth(lp, k) = port
  BY <1>4, <1>7 DEF Nth
<1>9. LegacyListen(d)[k] = <<Nth(d.laddrs, k), port>>
  BY <1>8 DEF LegacyListen, JoinAddrPort, lp
<1>10. LegacyRemote(d)[k] = <<Nth(d.raddrs, k), Nth(rp, k)>>
  BY <1>8 DEF LegacyRemote, JoinAddrPort, lp, rp
<1>11. Nth(d.laddrs, k) \in Range(d.laddrs) /\ Nth(d.raddrs, k) \in Range(d.raddrs)
       /\ Nth(rp, k) \in Range(rp)
  BY <1>1, <1>2, <1>5, <1>8, NthIs
<1>12. \E s \in Range(d.rports) : Nth(rp, k) \in s[1] .. s[2]
  <2>1. PICK s \in Range(d.rports) : Nth(rp, k) \in s[1] .. PastLast(s) - 1
    BY <1>5, <1>11
  <2>2. s \in Port \X Port
    BY <1>3
  <2>3. s[1] \in Nat /\ s[2] \in Nat /\ PastLast(s) \in Nat /\ PastLast(s) <= s[2] + 1
    BY <2>2, PastLastIs
  <2>4. Nth(rp, k) \in s[1] .. s[2]
    BY <2>1, <2>3
  <2>5. QED
    BY <2>4
<1> DEFINE e == Endpoint(LegacyListen(d)[k], LegacyRemote(d)[k])
<1>13. e.listen = LegacyListen(d)[k] /\ e.remotes = <<LegacyRemote(d)[k]>>
  BY EndpointIs
<1>14. e \in Range(FromLegacy(d).endpoints)
  <2>1. k \in DOMAIN LegacyEndpoints(d) /\ LegacyEndpoints(d)[k] = e
    BY <1>7 DEF LegacyEndpoints, lp
  <2>2. FromLegacy(d).endpoints = LegacyEndpoints(d)
    BY FromLegacyIs
  <2>3. e \in Range(LegacyEndpoints(d))
    BY <2>1, Zenon DEF Range
  <2>4. QED
    BY <2>2, <2>3, Zenon
<1> HIDE DEF e
<1>15. LegacyFor(d, port, e.listen, e.remotes)
  <2>1. e.listen[1] = Nth(d.laddrs, k) /\ e.listen[2] = port
    BY <1>9, <1>13
  <2>2. e.remotes[1][1] = Nth(d.raddrs, k) /\ e.remotes[1][2] = Nth(rp, k)
    BY <1>10, <1>13
  <2>3. QED
    BY <1>11, <1>12, <2>1, <2>2 DEF LegacyFor
<1>16. QED
  BY <1>14, <1>15

-----------------------------------------------------------------------------
(* The inductive invariant.                                                *)

Label == {"environment", "scan", "read", "globals", "options", "setup", "build", "run",
          "running", "panicked", "exited"}

\* Files are read, global options and command line applied.
Loading == {"read", "globals", "options"}
Ready   == pc \in Loading \cup {"setup", "build", "run", "running"}

\* The documents that have gone into conf.
Docs == IF pc = "read" THEN {dir[i] : i \in DOMAIN dir \ todo} ELSE Sources

InputsInv == /\ env \in Environments /\ cl \in CommandLines /\ dir \in Directories
             /\ todo \subseteq DOMAIN dir
             /\ pc \in Label

\* How far the start-up is.
PhaseInv ==
  /\ pc \in {"environment", "scan"} => conf = EmptyConf
  /\ pc \in {"scan"} \cup Loading => FromEnvironment = {}
  /\ pc = "read" => "config" \in DOMAIN cl.options

BuiltInv ==
  /\ pc \in {"run", "running"} =>
       built = [i \in DOMAIN conf.endpoints |-> BuildEndpoint(conf.endpoints[i])]
  /\ pc = "running" => workers = FlattenSeq([i \in DOMAIN built |-> Spawned(i)])
  /\ pc # "running" => workers = <<>>

DocsInv == Ready => \A d \in Docs : IsDocument(d) /\ d.form # "bad" /\ ~Panics(d)

\* What has become of the network options n of an endpoint.
NetNow(n) ==
  IF FromEnvironment # {} \/ pc \in {"read", "globals"} THEN n
  ELSE IF pc = "options" THEN n ++ conf.network
  ELSE CmdNet(cl) ++ (n ++ conf.network)

Becomes(e, c) == /\ c.listen = e.listen
                 /\ c.remotes = e.remotes
                 /\ c.network = NetNow(e.network)

\* Every endpoint read is still there.
KeptInv == Ready => \A d \in Docs : \A e \in Range(FromConfStr(d).endpoints) :
                       \E i \in DOMAIN conf.endpoints : Becomes(e, conf.endpoints[i])

\* What a global option is, one of the files has said.
GlobalFrom(f, docs, network) ==
  \/ /\ f \notin DOMAIN network
     /\ \A d \in docs : d.form = "conf" => f \notin DOMAIN d.network
  \/ \E d \in docs : /\ d.form = "conf" /\ f \in DOMAIN d.network
                     /\ Given(network, {f}) = Given(d.network, {f})

GlobalInv == Ready /\ FromEnvironment = {} =>
               \A f \in NetFields : GlobalFrom(f, Docs, conf.network)

StartInv == /\ InputsInv /\ IsConf(conf) /\ PhaseInv /\ BuiltInv /\ DocsInv /\ KeptInv
            /\ GlobalInv

LEMMA SameSources ==
  ASSUME UNCHANGED inputs
  PROVE  /\ env' = env /\ cl' = cl /\ dir' = dir
         /\ Sources' = Sources /\ FromEnvironment' = FromEnvironment
BY DEF inputs, Sources, FromEnvironment

LEMMA SourcesAre ==
  ASSUME InputsInv
  PROVE  /\ dir \in Seq(Range(dir))
         /\ \A d \in Range(dir) \cup env : IsDocument(d)
         /\ \A d \in env : env = {d}
         /\ IsCommandLine(cl)
         /\ Sources \subseteq Range(dir) \cup env
BY DEF InputsInv, Sources, FromEnvironment

\* What a document that parses says.
LEMMA DocumentIs ==
  ASSUME NEW d, IsDocument(d), d.form # "bad"
  PROVE  /\ d.form \in {"conf", "legacy"}
         /\ IsConf(FromConfStr(d))
         /\ d.form = "conf" => /\ FromConfStr(d).network = d.network
                               /\ FromConfStr(d).endpoints = d.endpoints
         /\ d.form = "legacy" => FromConfStr(d).network = <<>>
<1>1. d.form \in {"conf", "legacy"}
  BY DEF IsDocument
<1>2. CASE d.form = "conf"
  <2> DEFINE c == Given(d, DOMAIN EmptyConf)
  <2>1. DOMAIN EmptyConf = {"log", "dns", "network", "endpoints"}
    BY DEF EmptyConf
  <2>2. {"log", "dns", "network", "endpoints"} \subseteq DOMAIN d
    BY <1>2 DEF IsDocument
  <2>3. /\ DOMAIN c = {"log", "dns", "network", "endpoints"} /\ IsFunction(c)
        /\ c.network = d.network /\ c.endpoints = d.endpoints
    BY <2>1, <2>2 DEF Given, IsFunction
  <2> HIDE DEF c
  <2>4. IsConf(c)
    BY <1>2, <2>3 DEF IsDocument, IsConf
  <2>5. FromConfStr(d) = c
    BY <1>2 DEF FromConfStr, c
  <2>6. QED
    BY <1>2, <2>3, <2>4, <2>5
<1>3. CASE d.form = "legacy"
  <2>1. FromConfStr(d) = FromLegacy(d)
    BY <1>3 DEF FromConfStr
  <2>2. IsConf(FromLegacy(d)) /\ FromLegacy(d).network = <<>>
    BY <1>3, FromLegacyIs
  <2>3. QED
    BY <1>3, <2>1, <2>2
<1>4. QED
  BY <1>1, <1>2, <1>3

\* A step that changes neither the inputs nor conf nor what Docs and NetNow say.
LEMMA SameConf ==
  ASSUME StartInv, UNCHANGED <<inputs, conf>>, Ready, Ready', Docs' = Docs,
         \A n : NetNow(n)' = NetNow(n), todo' \subseteq DOMAIN dir, pc' \in Label,
         PhaseInv', BuiltInv'
  PROVE  StartInv'
<1>1. /\ env' = env /\ cl' = cl /\ dir' = dir
      /\ Sources' = Sources /\ FromEnvironment' = FromEnvironment
  BY SameSources
<1>2. InputsInv'
  BY <1>1 DEF StartInv, InputsInv
<1>3. IsConf(conf)' /\ conf' = conf
  BY DEF StartInv, IsConf, IsFunction, IsEndpoint, Range
<1>4. DocsInv'
  <2>1. checked' = checked
    BY DEF inputs
  <2>2. \A d : Panics(d)' = Panics(d)
    BY <2>1 DEF Panics, LegacyPanics
  <2>3. QED
    BY <2>2 DEF StartInv, DocsInv
<1>5. KeptInv'
  <2>1. ASSUME NEW d \in Docs, NEW e \in Range(FromConfStr(d).endpoints)
        PROVE  \E i \in DOMAIN conf.endpoints : Becomes(e, conf.endpoints[i])'
    <3>1. PICK i \in DOMAIN conf.endpoints : Becomes(e, conf.endpoints[i])
      BY <2>1 DEF StartInv, KeptInv
    <3>2. NetNow(e.network)' = NetNow(e.network)
      OBVIOUS
    <3>3. Becomes(e, conf.endpoints[i])'
      BY <1>3, <3>1, <3>2 DEF Becomes
    <3>4. QED
      BY <1>3, <3>3
  <2>2. QED
    BY <1>3, <2>1 DEF KeptInv
<1>6. GlobalInv'
  BY <1>1, <1>3 DEF StartInv, GlobalInv, GlobalFrom
<1>7. QED
  BY <1>2, <1>3, <1>4, <1>5, <1>6 DEF StartInv

\* A program that has stopped.
LEMMA Stops ==
  ASSUME StartInv, UNCHANGED <<inputs, conf, workers>>, todo' \in {todo, DOMAIN dir},
         pc # "running", pc' \in {"panicked", "exited"}
  PROVE  StartInv'
<1>1. /\ env' = env /\ cl' = cl /\ dir' = dir
      /\ Sources' = Sources /\ FromEnvironment' = FromEnvironment
  BY SameSources
<1>2. InputsInv'
  BY <1>1 DEF StartInv, InputsInv, Label
<1>3. IsConf(conf)'
  <2>1. IsConf(conf) /\ conf' = conf
    BY DEF StartInv
  <2>2. QED
    BY <2>1 DEF IsConf
<1>4. PhaseInv' /\ BuiltInv' /\ ~Ready'
  BY DEF StartInv, PhaseInv, BuiltInv, Ready, Loading
<1>5. QED
  BY <1>2, <1>3, <1>4 DEF StartInv, DocsInv, KeptInv, GlobalInv

LEMMA InitStart == Init => StartInv
<1> SUFFICES ASSUME Init
             PROVE  StartInv
  OBVIOUS
<1>1. InputsInv
  BY DEF Init, InputsInv, Label
<1>2. IsConf(conf)
  BY EmptyConfIs DEF Init
<1>3. PhaseInv /\ BuiltInv /\ ~Ready
  BY DEF Init, PhaseInv, BuiltInv, Ready, Loading
<1>4. QED
  BY <1>1, <1>2, <1>3 DEF StartInv, DocsInv, KeptInv, GlobalInv

LEMMA EnvironmentStep == StartInv /\ Environment => StartInv'
<1> SUFFICES ASSUME StartInv, Environment
             PROVE  StartInv'
  OBVIOUS
<1>1. /\ env' = env /\ cl' = cl /\ dir' = dir /\ checked' = checked
      /\ Sources' = Sources /\ FromEnvironment' = FromEnvironment
  BY SameSources DEF Environment, inputs
<1>2. UNCHANGED <<inputs, todo, built, workers>> /\ pc = "environment" /\ workers = <<>>
  BY DEF Environment, StartInv, BuiltInv
<1>3. ASSUME NEW d \in env, d.form # "bad", ~Panics(d), conf' = FromConfStr(d), pc' = "setup"
      PROVE  StartInv'
  <2>1. env = {d} /\ IsDocument(d)
    BY SourcesAre DEF StartInv
  <2>2. InputsInv'
    BY <1>1, <1>2, <1>3 DEF StartInv, InputsInv, Label
  <2>3. IsConf(conf)'
    <3>1. IsConf(FromConfStr(d))
      BY <1>3, <2>1, DocumentIs
    <3>2. QED
      BY <1>3, <3>1 DEF IsConf, IsFunction, IsEndpoint, Range
  <2>4. FromEnvironment = {d} /\ Sources = {d} /\ Docs' = {d}
    BY <1>1, <1>3, <2>1 DEF FromEnvironment, Sources, Docs
  <2>5. PhaseInv' /\ BuiltInv'
    BY <1>2, <1>3 DEF PhaseInv, BuiltInv, Loading
  <2>6. Panics(d)' = Panics(d)
    BY <1>1 DEF Panics, LegacyPanics
  <2>7. DocsInv'
    BY <1>3, <2>1, <2>4, <2>6 DEF DocsInv
  <2>8. KeptInv'
    <3>1. ASSUME NEW e \in Range(FromConfStr(d).endpoints)
          PROVE  \E i \in DOMAIN conf'.endpoints : Becomes(e, conf.endpoints[i])'
      <4>1. PICK i \in DOMAIN conf'.endpoints : conf'.endpoints[i] = e
        BY <1>3, <3>1 DEF Range
      <4>2. NetNow(e.network)' = e.network
        BY <1>1, <2>4 DEF NetNow
      <4>3. QED
        BY <4>1, <4>2 DEF Becomes
    <3>2. QED
      BY <2>4, <3>1 DEF KeptInv
  <2>9. GlobalInv'
    BY <1>1, <2>4 DEF GlobalInv
  <2>10. QED
    BY <2>2, <2>3, <2>5, <2>7, <2>8, <2>9 DEF StartInv
<1>4. CASE pc' = "panicked" /\ UNCHANGED conf
  BY <1>2, <1>4, Stops
<1>5. CASE (\A d \in env : d.form = "bad") /\ pc' = "scan" /\ UNCHANGED conf
  <2>1. FromEnvironment' = {}
    BY <1>1, <1>5 DEF FromEnvironment
  <2>2. InputsInv'
    BY <1>1, <1>2, <1>5 DEF StartInv, InputsInv, Label
  <2>3. conf' = EmptyConf /\ IsConf(conf)'
    BY <1>2, <1>5, EmptyConfIs DEF StartInv, PhaseInv
  <2>4. PhaseInv' /\ BuiltInv' /\ ~Ready'
    BY <1>2, <1>5, <2>1, <2>3 DEF PhaseInv, BuiltInv, Ready, Loading
  <2>5. QED
    BY <2>2, <2>3, <2>4 DEF StartInv, DocsInv, KeptInv, GlobalInv
<1>6. QED
  BY <1>3, <1>4, <1>5 DEF Environment, GoTo

LEMMA ScanStep == StartInv /\ Scan => StartInv'
<1> SUFFICES ASSUME StartInv, Scan
             PROVE  StartInv'
  OBVIOUS
<1>1. /\ env' = env /\ cl' = cl /\ dir' = dir
      /\ Sources' = Sources /\ FromEnvironment' = FromEnvironment
  BY SameSources DEF Scan
<1>2. /\ UNCHANGED <<inputs, built, workers>> /\ pc = "scan" /\ workers = <<>>
      /\ conf = EmptyConf /\ FromEnvironment = {}
  BY DEF Scan, StartInv, BuiltInv, PhaseInv
<1>3. CASE pc' \in {"panicked", "exited"} /\ UNCHANGED <<todo, conf>>
  BY <1>2, <1>3, Stops
<1>4. CASE /\ "config" \in DOMAIN cl.options /\ todo' = DOMAIN dir
           /\ pc' = "read" /\ UNCHANGED conf
  <2>1. InputsInv'
    BY <1>1, <1>2, <1>4 DEF StartInv, InputsInv, Label
  <2>2. conf' = EmptyConf /\ IsConf(conf)' /\ conf'.network = <<>>
    BY <1>2, <1>4, EmptyConfIs
  <2>3. Docs' = {}
    BY <1>1, <1>4 DEF Docs
  <2>4. PhaseInv' /\ BuiltInv'
    BY <1>1, <1>2, <1>4 DEF PhaseInv, BuiltInv, Loading
  <2>5. DocsInv' /\ KeptInv'
    BY <2>3 DEF DocsInv, KeptInv
  <2>6. GlobalInv'
    BY <2>2, <2>3, EmptyFunction DEF GlobalInv, GlobalFrom
  <2>7. QED
    BY <2>1, <2>2, <2>4, <2>5, <2>6 DEF StartInv
<1>5. CASE /\ "config" \notin DOMAIN cl.options /\ pc' = "globals" /\ UNCHANGED todo
           /\ conf' = [conf EXCEPT !.endpoints = Append(@, CmdEndpoint(cl))]
  <2>1. InputsInv'
    BY <1>1, <1>2, <1>5 DEF StartInv, InputsInv, Label
  <2>2. IsConf(conf)' /\ conf'.network = <<>>
    <3> DEFINE s == <<CmdEndpoint(cl)>>
    <3>1. IsEndpoint(CmdEndpoint(cl))
      BY EndpointIs DEF CmdEndpoint
    <3>2. s \in Seq(Range(s)) /\ \A e \in Range(s) : IsEndpoint(e)
      BY <3>1 DEF Range
    <3>3. conf' = [EmptyConf EXCEPT !.endpoints = s]
      BY <1>2, <1>5, EmptyConfIs
    <3> HIDE DEF s
    <3>4. QED
      BY <3>2, <3>3, EmptyConfIs, WithEndpoints
  <2>3. Docs' = {}
    BY <1>1, <1>2, <1>5 DEF Docs, Sources
  <2>4. PhaseInv' /\ BuiltInv'
    BY <1>1, <1>2, <1>5 DEF PhaseInv, BuiltInv, Loading
  <2>5. DocsInv' /\ KeptInv'
    BY <2>3 DEF DocsInv, KeptInv
  <2>6. GlobalInv'
    BY <2>2, <2>3, EmptyFunction DEF GlobalInv, GlobalFrom
  <2>7. QED
    BY <2>1, <2>2, <2>4, <2>5, <2>6 DEF StartInv
<1>6. QED
  BY <1>3, <1>4, <1>5 DEF Scan, GoTo

\* What the file after the others adds.
LEMMA TakeFieldsIs ==
  ASSUME NEW c, IsConf(c), NEW d, IsConf(d)
  PROVE  /\ IsConf(TakeFields(c, d))
         /\ TakeFields(c, d).network = c.network ++ d.network
         /\ \A i \in DOMAIN c.endpoints : /\ i \in DOMAIN TakeFields(c, d).endpoints
                                          /\ TakeFields(c, d).endpoints[i] = c.endpoints[i]
         /\ Range(d.endpoints) \subseteq Range(TakeFields(c, d).endpoints)
<1> DEFINE t == TakeFields(c, d)
           a == c.endpoints
           b == d.endpoints
           S == Range(a) \cup Range(b)
<1>1. /\ t.network = c.network ++ d.network /\ t.endpoints = a \o b
      /\ DOMAIN t = {"log", "dns", "network", "endpoints"} /\ IsFunction(t)
  BY DEF TakeFields, IsFunction
<1>2. a \in Seq(Range(a)) /\ b \in Seq(Range(b)) /\ \A e \in S : IsEndpoint(e)
  BY DEF IsConf
<1> HIDE DEF t, a, b
<1>3. a \in Seq(S) /\ b \in Seq(S)
  BY <1>2
<1>4. /\ a \o b \in Seq(S)
      /\ \A x : x \in Range(a \o b) <=> x \in Range(a) \/ x \in Range(b)
  BY <1>3, ConcatIs
<1>5. a \o b \in Seq(Range(a \o b))
  BY <1>4
<1>6. \A e \in Range(a \o b) : IsEndpoint(e)
  BY <1>2, <1>4
<1>7. IsFunction(t.network)
  <2>1. IsFunction(c.network ++ d.network)
    BY MergeIs
  <2>2. QED
    BY <1>1, <2>1, Zenon
<1>8. IsConf(t)
  BY <1>1, <1>5, <1>6, <1>7 DEF IsConf
<1>9. \A i \in DOMAIN a : i \in DOMAIN (a \o b) /\ (a \o b)[i] = a[i]
  BY <1>3
<1>10. Range(b) \subseteq Range(a \o b)
  BY <1>4
<1>11. QED
  BY <1>1, <1>8, <1>9, <1>10 DEF t, a, b

LEMMA GivenSecond ==
  ASSUME NEW f, NEW g, NEW x, x \notin DOMAIN f
  PROVE  Given(f ++ g, {x}) = Given(g, {x})
BY DEF ++, Given

LEMMA GlobalNext ==
  ASSUME NEW f, NEW docs, NEW n, GlobalFrom(f, docs, n), NEW d, NEW g,
         d.form = "conf" => g = d.network, d.form # "conf" => g = <<>>
  PROVE  GlobalFrom(f, docs \cup {d}, n ++ g)
<1>1. DOMAIN (n ++ g) = DOMAIN n \cup DOMAIN g
  BY MergeIs
<1>2. CASE f \in DOMAIN n
  <2>1. PICK e \in docs : /\ e.form = "conf" /\ f \in DOMAIN e.network
                          /\ Given(n, {f}) = Given(e.network, {f})
    BY <1>2 DEF GlobalFrom
  <2>2. Given(n ++ g, {f}) = Given(n, {f})
    BY <1>2, GivenFirst
  <2>3. QED
    BY <2>1, <2>2 DEF GlobalFrom
<1>3. CASE f \notin DOMAIN n
  <2>1. \A e \in docs : e.form = "conf" => f \notin DOMAIN e.network
    <3>1. ASSUME NEW e \in docs, f \in DOMAIN e.network, Given(n, {f}) = Given(e.network, {f})
          PROVE  FALSE
      <4>1. /\ DOMAIN Given(n, {f}) = {f} \cap DOMAIN n
            /\ DOMAIN Given(e.network, {f}) = {f} \cap DOMAIN e.network
        BY GivenFunction, Zenon
      <4>2. QED
        BY <1>3, <3>1, <4>1
    <3>2. QED
      BY <3>1 DEF GlobalFrom
  <2>2. CASE f \in DOMAIN g
    <3>1. d.form = "conf" /\ g = d.network
      BY <2>2, EmptyFunction
    <3>2. Given(n ++ g, {f}) = Given(g, {f})
      BY <1>3, GivenSecond
    <3>3. QED
      BY <2>2, <3>1, <3>2 DEF GlobalFrom
  <2>3. CASE f \notin DOMAIN g
    <3>1. f \notin DOMAIN (n ++ g)
      BY <1>1, <1>3, <2>3
    <3>2. \A e \in docs \cup {d} : e.form = "conf" => f \notin DOMAIN e.network
      BY <2>1, <2>3
    <3>3. QED
      BY <3>1, <3>2 DEF GlobalFrom
  <2>4. QED
    BY <2>2, <2>3
<1>4. QED
  BY <1>2, <1>3

LEMMA ReadFileStep == StartInv /\ ReadFile => StartInv'
<1> SUFFICES ASSUME StartInv, ReadFile
             PROVE  StartInv'
  OBVIOUS
<1>1. /\ env' = env /\ cl' = cl /\ dir' = dir /\ checked' = checked
      /\ Sources' = Sources /\ FromEnvironment' = FromEnvironment
  BY SameSources DEF ReadFile, inputs
<1>2. /\ UNCHANGED <<inputs, built, workers>> /\ pc = "read" /\ Ready
      /\ FromEnvironment = {} /\ "config" \in DOMAIN cl.options /\ workers = <<>>
  BY DEF ReadFile, StartInv, BuiltInv, PhaseInv, Ready, Loading
<1>3. CASE pc' = "panicked" /\ UNCHANGED <<todo, conf>>
  BY <1>2, <1>3, Stops
<1>4. ASSUME NEW i \in todo, dir[i].form # "bad", ~Panics(dir[i]), todo' = todo \ {i},
             conf' = TakeFields(conf, FromConfStr(dir[i])), UNCHANGED pc
      PROVE  StartInv'
  <2> DEFINE d == dir[i]
             c == FromConfStr(d)
  <2>1. i \in DOMAIN dir /\ d \in Range(dir) /\ IsDocument(d)
    BY SourcesAre DEF StartInv, InputsInv, Range
  <2>2. d.form # "bad" /\ ~Panics(d) /\ conf' = TakeFields(conf, c)
    BY <1>4
  <2> HIDE DEF d
  <2>3. /\ IsConf(c) /\ IsConf(conf)
        /\ d.form \in {"conf", "legacy"}
        /\ d.form = "conf" => c.network = d.network
        /\ d.form = "legacy" => c.network = <<>>
    BY <2>1, <2>2, DocumentIs DEF StartInv
  <2> HIDE DEF c
  <2>4. /\ IsConf(TakeFields(conf, c))
        /\ conf'.network = conf.network ++ c.network
        /\ \A k \in DOMAIN conf.endpoints : /\ k \in DOMAIN conf'.endpoints
                                            /\ conf'.endpoints[k] = conf.endpoints[k]
        /\ Range(c.endpoints) \subseteq Range(conf'.endpoints)
    BY <2>2, <2>3, TakeFieldsIs
  <2>5. InputsInv'
    BY <1>1, <1>2, <1>4 DEF StartInv, InputsInv, Label
  <2>6. IsConf(conf)'
    BY <2>2, <2>4 DEF IsConf, IsFunction, IsEndpoint, Range
  <2>7. Docs' = Docs \cup {d}
    BY <1>1, <1>2, <1>4, <2>1 DEF Docs, d
  <2>8. PhaseInv' /\ BuiltInv'
    BY <1>1, <1>2, <1>4 DEF StartInv, PhaseInv, BuiltInv, Loading
  <2>9. DocsInv'
    <3>1. \A x : Panics(x)' = Panics(x)
      BY <1>1 DEF Panics, LegacyPanics
    <3>2. \A x \in Docs : IsDocument(x) /\ x.form # "bad" /\ ~Panics(x)
      BY <1>2 DEF StartInv, DocsInv
    <3>3. QED
      BY <2>1, <2>2, <2>7, <3>1, <3>2 DEF DocsInv
  <2>10. KeptInv'
    <3>1. \A n : NetNow(n) = n /\ NetNow(n)' = n
      BY <1>2, <1>4 DEF NetNow
    <3>2. ASSUME NEW x \in Docs, NEW e \in Range(FromConfStr(x).endpoints)
          PROVE  \E k \in DOMAIN conf'.endpoints : Becomes(e, conf.endpoints[k])'
      <4>1. PICK k \in DOMAIN conf.endpoints : Becomes(e, conf.endpoints[k])
        BY <1>2, <3>2 DEF StartInv, KeptInv
      <4>2. QED
        BY <2>4, <3>1, <4>1 DEF Becomes
    <3>3. ASSUME NEW e \in Range(c.endpoints)
          PROVE  \E k \in DOMAIN conf'.endpoints : Becomes(e, conf.endpoints[k])'
      <4>1. PICK k \in DOMAIN conf'.endpoints : conf'.endpoints[k] = e
        BY <2>4, <3>3 DEF Range
      <4>2. QED
        BY <3>1, <4>1 DEF Becomes
    <3>4. QED
      BY <2>7, <3>2, <3>3 DEF KeptInv, c
  <2>11. GlobalInv'
    <3>1. ASSUME NEW f \in NetFields
          PROVE  GlobalFrom(f, Docs \cup {d}, conf.network ++ c.network)
      <4>1. GlobalFrom(f, Docs, conf.network)
        BY <1>2 DEF StartInv, GlobalInv
      <4>2. (d.form = "conf" => c.network = d.network) /\ (d.form # "conf" => c.network = <<>>)
        BY <2>3
      <4>3. QED
        BY <4>1, <4>2, GlobalNext
    <3>2. QED
      BY <2>4, <2>7, <3>1 DEF GlobalInv, GlobalFrom
  <2>12. QED
    BY <2>5, <2>6, <2>8, <2>9, <2>10, <2>11 DEF StartInv
<1>5. QED
  BY <1>3, <1>4 DEF ReadFile, GoTo

LEMMA ReadAllStep == StartInv /\ ReadAll => StartInv'
<1> SUFFICES ASSUME StartInv, ReadAll
             PROVE  StartInv'
  OBVIOUS
<1>1. /\ env' = env /\ cl' = cl /\ dir' = dir
      /\ Sources' = Sources /\ FromEnvironment' = FromEnvironment
  BY SameSources DEF ReadAll
<1>2. UNCHANGED <<inputs, conf, workers>> /\ pc = "read" /\ pc' = "globals"
  BY DEF ReadAll, GoTo
<1>3. FromEnvironment = {} /\ "config" \in DOMAIN cl.options /\ workers = <<>>
  BY <1>2 DEF StartInv, PhaseInv, BuiltInv, Loading
<1>4. Ready /\ Ready'
  BY <1>2 DEF Ready, Loading
<1>5. Docs' = Docs
  <2>1. todo = {}
    BY DEF ReadAll
  <2>2. Docs = Range(dir)
    BY <1>2, <2>1 DEF Docs, Range
  <2>3. Docs' = Sources
    BY <1>1, <1>2 DEF Docs
  <2>4. Sources = Range(dir)
    BY <1>3 DEF Sources
  <2>5. QED
    BY <2>2, <2>3, <2>4
<1>6. \A n : NetNow(n)' = NetNow(n)
  BY <1>1, <1>2 DEF NetNow
<1>7. PhaseInv' /\ BuiltInv'
  BY <1>1, <1>2, <1>3 DEF PhaseInv, BuiltInv, Loading
<1>8. todo' \subseteq DOMAIN dir /\ pc' \in Label
  BY <1>2 DEF ReadAll, Label
<1>9. QED
  BY <1>2, <1>4, <1>5, <1>6, <1>7, <1>8, SameConf

\* Endpoints with other network options.
WithNetworks(c, g) ==
  [i \in DOMAIN c.endpoints |-> [c.endpoints[i] EXCEPT !.network = g[i]]]

LEMMA WithNetworksIs ==
  ASSUME NEW c, IsConf(c), NEW g, \A i \in DOMAIN c.endpoints : IsFunction(g[i]),
         NEW s, s = WithNetworks(c, g)
  PROVE  /\ s \in Seq(Range(s)) /\ DOMAIN s = DOMAIN c.endpoints
         /\ \A e \in Range(s) : IsEndpoint(e)
         /\ \A i \in DOMAIN c.endpoints : /\ s[i].listen = c.endpoints[i].listen
                                          /\ s[i].remotes = c.endpoints[i].remotes
                                          /\ s[i].network = g[i]
<1>1. \A i \in DOMAIN c.endpoints : IsEndpoint(c.endpoints[i])
  BY DEF IsConf, Range
<1>2. ASSUME NEW i \in DOMAIN c.endpoints
      PROVE  /\ s[i].listen = c.endpoints[i].listen
             /\ s[i].remotes = c.endpoints[i].remotes
             /\ s[i].network = g[i]
             /\ IsEndpoint(s[i])
  <2> DEFINE e == c.endpoints[i]
             m == [e EXCEPT !.network = g[i]]
  <2>1. IsFunction(e) /\ DOMAIN e = {"listen", "remotes", "balance", "weights", "probe_targets", "network"}
    BY <1>1 DEF IsEndpoint
  <2>2. s[i] = m
    BY DEF WithNetworks
  <2> HIDE DEF e
  <2>3. /\ m.listen = e.listen /\ m.remotes = e.remotes /\ m.network = g[i]
        /\ DOMAIN m = {"listen", "remotes", "balance", "weights", "probe_targets", "network"}
    BY <2>1
  <2>4. IsFunction(m)
    BY DEF IsFunction
  <2> HIDE DEF m
  <2>5. IsEndpoint(m)
    BY <2>3, <2>4 DEF IsEndpoint
  <2>6. QED
    BY <2>2, <2>3, <2>5 DEF e
<1>3. PICK n \in Nat : DOMAIN c.endpoints = 1 .. n
  BY DEF IsConf
<1>4. IsFunction(s) /\ DOMAIN s = 1 .. n
  BY <1>3 DEF IsFunction, WithNetworks
<1>5. s \in Seq(Range(s))
  BY <1>4, FunctionIsSeq
<1>6. ASSUME NEW e \in Range(s)
      PROVE  IsEndpoint(e)
  <2>1. PICK i \in DOMAIN s : e = s[i]
    BY Zenon DEF Range
  <2>2. i \in DOMAIN c.endpoints
    BY <1>3, <1>4
  <2>3. QED
    BY <1>2, <2>1, <2>2, Zenon
<1>7. QED
  BY <1>2, <1>3, <1>4, <1>5, <1>6

LEMMA ApplyGlobalOptsStep == StartInv /\ ApplyGlobalOpts => StartInv'
<1> SUFFICES ASSUME StartInv, ApplyGlobalOpts
             PROVE  StartInv'
  OBVIOUS
<1>1. /\ env' = env /\ cl' = cl /\ dir' = dir /\ checked' = checked
      /\ Sources' = Sources /\ FromEnvironment' = FromEnvironment
  BY SameSources DEF ApplyGlobalOpts, inputs
<1>2. /\ UNCHANGED <<todo, workers>> /\ pc = "globals" /\ pc' = "options" /\ Ready /\ Ready'
      /\ FromEnvironment = {} /\ workers = <<>>
  BY DEF ApplyGlobalOpts, GoTo, StartInv, BuiltInv, PhaseInv, Ready, Loading
<1> DEFINE g == [i \in DOMAIN conf.endpoints |-> conf.endpoints[i].network ++ conf.network]
           s == WithNetworks(conf, g)
<1>3. conf' = [conf EXCEPT !.endpoints = s]
  BY DEF ApplyGlobalOpts, OnNetworks, WithNetworks
<1>4. \A i \in DOMAIN conf.endpoints : IsFunction(g[i])
  BY MergeIs
<1>5. IsConf(conf)
  BY DEF StartInv
<1>6. \A i \in DOMAIN conf.endpoints : g[i] = conf.endpoints[i].network ++ conf.network
  OBVIOUS
<1> HIDE DEF g
<1>7. s = WithNetworks(conf, g)
  OBVIOUS
<1> HIDE DEF s
<1>8. /\ s \in Seq(Range(s)) /\ DOMAIN s = DOMAIN conf.endpoints
      /\ \A e \in Range(s) : IsEndpoint(e)
      /\ \A i \in DOMAIN conf.endpoints : /\ s[i].listen = conf.endpoints[i].listen
                                          /\ s[i].remotes = conf.endpoints[i].remotes
                                          /\ s[i].network = g[i]
  BY <1>4, <1>5, <1>7, WithNetworksIs
<1>9. /\ IsConf([conf EXCEPT !.endpoints = s])
      /\ conf'.endpoints = s
      /\ conf'.network = conf.network
  BY <1>3, <1>5, <1>8, WithEndpoints
<1>10. IsConf(conf)'
  BY <1>3, <1>9 DEF IsConf, IsFunction, IsEndpoint, Range
<1>11. Docs' = Docs
  BY <1>1, <1>2 DEF Docs
<1>12. InputsInv'
  BY <1>1, <1>2 DEF StartInv, InputsInv, Label
<1>13. PhaseInv' /\ BuiltInv'
  BY <1>1, <1>2 DEF PhaseInv, BuiltInv, Loading
<1>14. DocsInv'
  <2>1. \A x : Panics(x)' = Panics(x)
    BY <1>1 DEF Panics, LegacyPanics
  <2>2. QED
    BY <1>2, <1>11, <2>1 DEF StartInv, DocsInv
<1>15. KeptInv'
  <2>1. \A n : NetNow(n) = n /\ NetNow(n)' = n ++ conf.network
    BY <1>1, <1>2, <1>9 DEF NetNow
  <2>2. ASSUME NEW x \in Docs, NEW e \in Range(FromConfStr(x).endpoints)
        PROVE  \E k \in DOMAIN conf'.endpoints : Becomes(e, conf.endpoints[k])'
    <3>1. PICK k \in DOMAIN conf.endpoints : Becomes(e, conf.endpoints[k])
      BY <1>2, <2>2 DEF StartInv, KeptInv
    <3>2. s[k].network = e.network ++ conf.network
      BY <1>6, <1>8, <2>1, <3>1 DEF Becomes
    <3>3. Becomes(e, conf.endpoints[k])'
      BY <1>8, <1>9, <2>1, <3>1, <3>2 DEF Becomes
    <3>4. QED
      BY <1>8, <1>9, <3>3
  <2>3. QED
    BY <1>11, <2>2 DEF KeptInv
<1>16. GlobalInv'
  BY <1>1, <1>2, <1>9, <1>11 DEF StartInv, GlobalInv, GlobalFrom
<1>17. QED
  BY <1>10, <1>12, <1>13, <1>14, <1>15, <1>16 DEF StartInv

LEMMA ApplyCmdOptsStep == StartInv /\ ApplyCmdOpts => StartInv'
<1> SUFFICES ASSUME StartInv, ApplyCmdOpts
             PROVE  StartInv'
  OBVIOUS
<1>1. /\ env' = env /\ cl' = cl /\ dir' = dir /\ checked' = checked
      /\ Sources' = Sources /\ FromEnvironment' = FromEnvironment
  BY SameSources DEF ApplyCmdOpts, inputs
<1>2. /\ UNCHANGED <<todo, workers>> /\ pc = "options" /\ pc' = "setup" /\ Ready /\ Ready'
      /\ FromEnvironment = {} /\ workers = <<>>
  BY DEF ApplyCmdOpts, GoTo, StartInv, BuiltInv, PhaseInv, Ready, Loading
<1> DEFINE g == [i \in DOMAIN conf.endpoints |-> CmdNet(cl) ++ conf.endpoints[i].network]
           s == WithNetworks(conf, g)
           k == [conf EXCEPT !.endpoints = s]
<1>3. PICK log, dns : conf' = [k EXCEPT !.log = log, !.dns = dns]
  BY DEF ApplyCmdOpts, OnNetworks, WithNetworks
<1>4. \A i \in DOMAIN conf.endpoints : IsFunction(g[i])
  BY MergeIs
<1>5. IsConf(conf)
  BY DEF StartInv
<1>6. \A i \in DOMAIN conf.endpoints : g[i] = CmdNet(cl) ++ conf.endpoints[i].network
  OBVIOUS
<1> HIDE DEF g
<1>7. s = WithNetworks(conf, g)
  OBVIOUS
<1> HIDE DEF s
<1>8. /\ s \in Seq(Range(s)) /\ DOMAIN s = DOMAIN conf.endpoints
      /\ \A e \in Range(s) : IsEndpoint(e)
      /\ \A i \in DOMAIN conf.endpoints : /\ s[i].listen = conf.endpoints[i].listen
                                          /\ s[i].remotes = conf.endpoints[i].remotes
                                          /\ s[i].network = g[i]
  BY <1>4, <1>5, <1>7, WithNetworksIs
<1>9. IsConf(k) /\ k.endpoints = s /\ k.network = conf.network
  BY <1>5, <1>8, WithEndpoints
<1> HIDE DEF k
<1>10. /\ conf'.endpoints = s /\ conf'.network = conf.network
       /\ DOMAIN conf' = {"log", "dns", "network", "endpoints"} /\ IsFunction(conf')
  BY <1>3, <1>9 DEF IsConf, IsFunction
<1>11. IsConf(conf)'
  BY <1>9, <1>10 DEF IsConf, IsFunction, IsEndpoint, Range
<1>12. Docs' = Docs
  BY <1>1, <1>2 DEF Docs
<1>13. InputsInv'
  BY <1>1, <1>2 DEF StartInv, InputsInv, Label
<1>14. PhaseInv' /\ BuiltInv'
  BY <1>1, <1>2 DEF PhaseInv, BuiltInv, Loading
<1>15. DocsInv'
  <2>1. \A x : Panics(x)' = Panics(x)
    BY <1>1 DEF Panics, LegacyPanics
  <2>2. QED
    BY <1>2, <1>12, <2>1 DEF StartInv, DocsInv
<1>16. KeptInv'
  <2>1. \A n : /\ NetNow(n) = n ++ conf.network
               /\ NetNow(n)' = CmdNet(cl) ++ (n ++ conf.network)
    BY <1>1, <1>2, <1>10 DEF NetNow, CmdNet, Parsed
  <2>2. ASSUME NEW x \in Docs, NEW e \in Range(FromConfStr(x).endpoints)
        PROVE  \E i \in DOMAIN conf'.endpoints : Becomes(e, conf.endpoints[i])'
    <3>1. PICK i \in DOMAIN conf.endpoints : Becomes(e, conf.endpoints[i])
      BY <1>2, <2>2 DEF StartInv, KeptInv
    <3>2. s[i].network = CmdNet(cl) ++ (e.network ++ conf.network)
      BY <1>6, <1>8, <2>1, <3>1 DEF Becomes
    <3>3. Becomes(e, conf.endpoints[i])'
      BY <1>8, <1>10, <2>1, <3>1, <3>2 DEF Becomes
    <3>4. QED
      BY <1>8, <1>10, <3>3
  <2>3. QED
    BY <1>12, <2>2 DEF KeptInv
<1>17. GlobalInv'
  BY <1>1, <1>2, <1>10, <1>12 DEF StartInv, GlobalInv, GlobalFrom
<1>18. QED
  BY <1>11, <1>13, <1>14, <1>15, <1>16, <1>17 DEF StartInv

LEMMA SetUpStep == StartInv /\ SetUp => StartInv'
<1> SUFFICES ASSUME StartInv, SetUp
             PROVE  StartInv'
  OBVIOUS
<1>1. /\ env' = env /\ cl' = cl /\ dir' = dir
      /\ Sources' = Sources /\ FromEnvironment' = FromEnvironment
  BY SameSources DEF SetUp
<1>2. UNCHANGED <<inputs, conf, todo, workers>> /\ pc = "setup" /\ pc' \in {"build", "panicked"}
  BY DEF SetUp, GoTo
<1>3. CASE pc' = "panicked"
  BY <1>2, <1>3, Stops
<1>4. CASE pc' = "build"
  <2>1. Ready /\ Ready' /\ Docs' = Docs
    BY <1>1, <1>2, <1>4 DEF Ready, Loading, Docs
  <2>2. \A n : NetNow(n)' = NetNow(n)
    BY <1>1, <1>2, <1>4 DEF NetNow, CmdNet, Parsed
  <2>3. PhaseInv' /\ BuiltInv'
    BY <1>1, <1>2, <1>4 DEF StartInv, PhaseInv, BuiltInv, Loading
  <2>4. todo' \subseteq DOMAIN dir /\ pc' \in Label
    BY <1>2, <1>4 DEF StartInv, InputsInv, Label
  <2>5. QED
    BY <1>2, <2>1, <2>2, <2>3, <2>4, SameConf
<1>5. QED
  BY <1>2, <1>3, <1>4

LEMMA BuildStep == StartInv /\ Build => StartInv'
<1> SUFFICES ASSUME StartInv, Build
             PROVE  StartInv'
  OBVIOUS
<1>1. /\ env' = env /\ cl' = cl /\ dir' = dir
      /\ Sources' = Sources /\ FromEnvironment' = FromEnvironment
  BY SameSources DEF Build
<1>2. /\ UNCHANGED <<inputs, conf, todo, workers>> /\ pc = "build" /\ workers = <<>>
      /\ \/ pc' = "panicked"
         \/ /\ pc' = "run"
            /\ built' = [i \in DOMAIN conf.endpoints |-> BuildEndpoint(conf.endpoints[i])]
  BY DEF Build, GoTo, StartInv, BuiltInv
<1>3. CASE pc' = "panicked"
  BY <1>2, <1>3, Stops
<1>4. CASE pc' = "run"
  <2>1. Ready /\ Ready' /\ Docs' = Docs
    BY <1>1, <1>2, <1>4 DEF Ready, Loading, Docs
  <2>2. \A n : NetNow(n)' = NetNow(n)
    BY <1>1, <1>2, <1>4 DEF NetNow, CmdNet, Parsed
  <2>3. PhaseInv'
    BY <1>1, <1>2, <1>4 DEF StartInv, PhaseInv, Loading
  <2>4. conf' = conf /\ built' = [i \in DOMAIN conf.endpoints |-> BuildEndpoint(conf.endpoints[i])]
    BY <1>2, <1>4
  <2>5. BuiltInv'
    BY <1>2, <1>4, <2>4 DEF BuiltInv
  <2>6. todo' \subseteq DOMAIN dir /\ pc' \in Label
    BY <1>2, <1>4 DEF StartInv, InputsInv, Label
  <2>7. QED
    BY <1>2, <2>1, <2>2, <2>3, <2>5, <2>6, SameConf
<1>5. QED
  BY <1>2, <1>3, <1>4

LEMMA RunStep == StartInv /\ Run => StartInv'
<1> SUFFICES ASSUME StartInv, Run
             PROVE  StartInv'
  OBVIOUS
<1>1. /\ env' = env /\ cl' = cl /\ dir' = dir
      /\ Sources' = Sources /\ FromEnvironment' = FromEnvironment
  BY SameSources DEF Run
<1>2. /\ UNCHANGED <<inputs, conf, todo, built>> /\ pc = "run" /\ pc' = "running"
      /\ workers' = FlattenSeq([i \in DOMAIN built |-> Spawned(i)])
  BY DEF Run, GoTo
<1>3. Ready /\ Ready' /\ Docs' = Docs
  BY <1>1, <1>2 DEF Ready, Loading, Docs
<1>4. \A n : NetNow(n)' = NetNow(n)
  BY <1>1, <1>2 DEF NetNow, CmdNet, Parsed
<1>5. PhaseInv'
  BY <1>1, <1>2 DEF StartInv, PhaseInv, Loading
<1>6. BuiltInv'
  <2>1. built = [i \in DOMAIN conf.endpoints |-> BuildEndpoint(conf.endpoints[i])]
    BY <1>2 DEF StartInv, BuiltInv
  <2>2. built' = built /\ conf' = conf /\ \A i : Spawned(i)' = Spawned(i)
    BY <1>2 DEF Spawned
  <2>3. QED
    BY <1>2, <2>1, <2>2 DEF BuiltInv
<1>7. todo' \subseteq DOMAIN dir /\ pc' \in Label
  BY <1>2 DEF StartInv, InputsInv, Label
<1>8. QED
  BY <1>2, <1>3, <1>4, <1>5, <1>6, <1>7, SameConf

LEMMA StartStutter == StartInv /\ UNCHANGED vars => StartInv'
<1> SUFFICES ASSUME StartInv, UNCHANGED vars
             PROVE  StartInv'
  OBVIOUS
<1>1. UNCHANGED <<env, cl, dir, checked, pc, todo, conf, built, workers>>
  BY DEF vars, inputs
<1>2. Sources' = Sources /\ FromEnvironment' = FromEnvironment /\ Docs' = Docs
      /\ (Ready' <=> Ready)
  BY <1>1 DEF Sources, FromEnvironment, Docs, Ready, Loading
<1>3. InputsInv' /\ PhaseInv'
  BY <1>1, <1>2 DEF StartInv, InputsInv, PhaseInv
<1>4. BuiltInv' /\ IsConf(conf)'
  <2>1. \A i : Spawned(i)' = Spawned(i)
    BY <1>1 DEF Spawned
  <2>2. BuiltInv'
    BY <1>1, <2>1 DEF StartInv, BuiltInv
  <2>3. IsConf(conf)'
    BY <1>1 DEF StartInv, IsConf, IsFunction, IsEndpoint, Range
  <2>4. QED
    BY <2>2, <2>3
<1>5. CASE Ready
  <2>1. \A n : NetNow(n)' = NetNow(n)
    BY <1>1, <1>2 DEF NetNow, CmdNet, Parsed
  <2>2. UNCHANGED <<inputs, conf>> /\ todo' \subseteq DOMAIN dir /\ pc' \in Label
    BY <1>1 DEF inputs, StartInv, InputsInv
  <2>3. QED
    BY <1>2, <1>3, <1>4, <1>5, <2>1, <2>2, SameConf
<1>6. CASE ~Ready
  BY <1>2, <1>3, <1>4, <1>6 DEF StartInv, DocsInv, KeptInv, GlobalInv
<1>7. QED
  BY <1>5, <1>6

LEMMA StartNext == StartInv /\ [Next]_vars => StartInv'
BY EnvironmentStep, ScanStep, ReadFileStep, ReadAllStep, ApplyGlobalOptsStep, ApplyCmdOptsStep,
   SetUpStep, BuildStep, RunStep, StartStutter DEF Next

\* Whatever the order of the files, what has been read is kept, with the
\* options due to it, and every global option is some file's.
THEOREM StartUpInvariant == Spec => []StartInv
<1>1. Init => StartInv
  BY InitStart
<1>2. StartInv /\ [Next]_vars => StartInv'
  BY StartNext
<1>3. QED
  BY <1>1, <1>2, PTL DEF Spec

-----------------------------------------------------------------------------
(* What runs in the end.                                                   *)

\* Every endpoint read is built, with the options due to it.
LEMMA EndpointsBuilt ==
  ASSUME StartInv, pc = "running", NEW d \in Sources, NEW e \in Range(FromConfStr(d).endpoints)
  PROVE  \E i \in DOMAIN built : /\ built[i].listen = e.listen
                                 /\ built[i].remotes = e.remotes
                                 /\ built[i].net = NetNow(e.network) ++ NetDefaults
<1>1. Ready /\ Docs = Sources
  BY DEF Ready, Docs
<1>2. PICK i \in DOMAIN conf.endpoints : Becomes(e, conf.endpoints[i])
  BY <1>1 DEF StartInv, KeptInv
<1>3. i \in DOMAIN built /\ built[i] = BuildEndpoint(conf.endpoints[i])
  BY DEF StartInv, BuiltInv
<1>4. /\ built[i].listen = conf.endpoints[i].listen
      /\ built[i].remotes = conf.endpoints[i].remotes
      /\ built[i].net = conf.endpoints[i].network ++ NetDefaults
  BY <1>3 DEF BuildEndpoint, BuildNet
<1>5. QED
  BY <1>2, <1>3, <1>4 DEF Becomes

LEMMA SourcesGood ==
  ASSUME StartInv, pc = "running", NEW d \in Sources
  PROVE  IsDocument(d) /\ d.form # "bad" /\ ~Panics(d)
BY DEF StartInv, DocsInv, Ready, Docs

\* Endpoints have the workers their options ask for.
LEMMA WorkersAre ==
  ASSUME StartInv, pc = "running", NEW i \in DOMAIN built
  PROVE  /\ <<"udp", i>> \in Range(workers) <=> built[i].net.use_udp
         /\ <<"tcp", i>> \in Range(workers) <=> ~built[i].net.no_tcp
<1> DEFINE S == {"udp", "tcp"} \X DOMAIN built
           seqs == [k \in DOMAIN built |-> Spawned(k)]
<1>1. workers = FlattenSeq(seqs)
  BY DEF StartInv, BuiltInv
<1>2. ASSUME NEW k \in DOMAIN built
      PROVE  /\ Spawned(k) \in Seq(S)
             /\ \A x : x \in Range(Spawned(k)) <=>
                         \/ x = <<"udp", k>> /\ built[k].net.use_udp
                         \/ x = <<"tcp", k>> /\ ~built[k].net.no_tcp
  <2> DEFINE u == IF built[k].net.use_udp THEN <<<<"udp", k>>>> ELSE <<>>
             t == IF built[k].net.no_tcp THEN <<>> ELSE <<<<"tcp", k>>>>
  <2>1. <<<<"udp", k>>>> \in Seq(S) /\ Range(<<<<"udp", k>>>>) = {<<"udp", k>>}
    BY DEF Range
  <2>2. <<<<"tcp", k>>>> \in Seq(S) /\ Range(<<<<"tcp", k>>>>) = {<<"tcp", k>>}
    BY DEF Range
  <2>3. <<>> \in Seq(S) /\ Range(<<>>) = {}
    BY EmptyFunction
  <2>4. u \in Seq(S) /\ \A x : x \in Range(u) <=> x = <<"udp", k>> /\ built[k].net.use_udp
    BY <2>1, <2>3
  <2>5. t \in Seq(S) /\ \A x : x \in Range(t) <=> x = <<"tcp", k>> /\ ~built[k].net.no_tcp
    BY <2>2, <2>3
  <2>6. Spawned(k) = u \o t
    BY DEF Spawned
  <2> HIDE DEF u, t
  <2>7. u \o t \in Seq(S) /\ \A x : x \in Range(u \o t) <=> x \in Range(u) \/ x \in Range(t)
    BY <2>4, <2>5, ConcatIs
  <2>8. QED
    BY <2>4, <2>5, <2>6, <2>7
<1>3. seqs \in Seq(Seq(S)) /\ DOMAIN seqs = DOMAIN built
  <2>1. DOMAIN built = DOMAIN conf.endpoints
    BY DEF StartInv, BuiltInv
  <2>2. PICK n \in Nat : DOMAIN built = 1 .. n
    BY <2>1 DEF StartInv, IsConf
  <2>3. QED
    BY <1>2, <2>2
<1>4. \A k \in DOMAIN built : seqs[k] = Spawned(k)
  OBVIOUS
<1> HIDE DEF S, seqs
<1>5. \A x : x \in Range(workers) <=> \E k \in DOMAIN seqs : x \in Range(seqs[k])
  BY <1>1, <1>3, FlattenIs
<1>6. \A x : x \in Range(workers) <=> \E k \in DOMAIN built : x \in Range(Spawned(k))
  BY <1>3, <1>4, <1>5
<1>7. <<"udp", i>> \in Range(workers) <=> built[i].net.use_udp
  BY <1>2, <1>6
<1>8. <<"tcp", i>> \in Range(workers) <=> ~built[i].net.no_tcp
  BY <1>2, <1>6
<1>9. QED
  BY <1>7, <1>8

\* Nothing runs in part, whatever the documents: a worker runs only if every
\* document could be read, and each endpoint in them has its workers.
THEOREM NothingInPart == Spec => []AllOrNothing
<1>1. StartInv => AllOrNothing
  <2> SUFFICES ASSUME StartInv, workers # <<>>
               PROVE  /\ \A d \in Sources : d.form # "bad"
                      /\ \A d \in Confs : \A j \in DOMAIN d.endpoints :
                           \E i \in DOMAIN built :
                             /\ built[i].listen = d.endpoints[j].listen
                             /\ <<"udp", i>> \in Range(workers) <=> built[i].net.use_udp
                             /\ <<"tcp", i>> \in Range(workers) <=> ~built[i].net.no_tcp
    BY DEF AllOrNothing
  <2>1. pc = "running"
    BY DEF StartInv, BuiltInv
  <2>2. \A d \in Sources : d.form # "bad"
    BY <2>1, SourcesGood
  <2>3. ASSUME NEW d \in Confs, NEW j \in DOMAIN d.endpoints
        PROVE  \E i \in DOMAIN built :
                 /\ built[i].listen = d.endpoints[j].listen
                 /\ <<"udp", i>> \in Range(workers) <=> built[i].net.use_udp
                 /\ <<"tcp", i>> \in Range(workers) <=> ~built[i].net.no_tcp
    <3>1. d \in Sources /\ d.form = "conf"
      BY DEF Confs
    <3>2. FromConfStr(d).endpoints = d.endpoints
      BY <2>1, <3>1, SourcesGood, DocumentIs
    <3>3. d.endpoints[j] \in Range(FromConfStr(d).endpoints)
      BY <3>2 DEF Range
    <3>4. PICK i \in DOMAIN built : built[i].listen = d.endpoints[j].listen
      BY <2>1, <3>1, <3>3, EndpointsBuilt
    <3>5. /\ <<"udp", i>> \in Range(workers) <=> built[i].net.use_udp
          /\ <<"tcp", i>> \in Range(workers) <=> ~built[i].net.no_tcp
      BY <2>1, <3>4, WorkersAre
    <3>6. QED
      BY <3>4, <3>5
  <2>4. QED
    BY <2>2, <2>3
<1>2. QED
  BY <1>1, StartUpInvariant, PTL

\* A legacy file is served port by port, however its lists of addresses and
\* ranges are cut and with or without checks for overflow.
THEOREM LegacyFilesServed == Spec => []LegacyServed
<1>1. StartInv => LegacyServed
  <2> SUFFICES ASSUME StartInv, pc = "running", NEW d \in Legacies, NEW r \in Range(d.lports),
                      NEW port \in r[1] .. r[2], r[2] + 1 < PortNumbers
               PROVE  \E i \in DOMAIN built :
                        LegacyFor(d, port, built[i].listen, built[i].remotes)
    BY DEF LegacyServed, LegacyFor
  <2>1. d \in Sources /\ d.form = "legacy"
    BY DEF Legacies
  <2>2. IsDocument(d) /\ ~Panics(d)
    BY <2>1, SourcesGood
  <2>3. PICK e \in Range(FromLegacy(d).endpoints) : LegacyFor(d, port, e.listen, e.remotes)
    BY <2>1, <2>2, LegacyPorts
  <2>4. e \in Range(FromConfStr(d).endpoints)
    BY <2>1, <2>3 DEF FromConfStr
  <2>5. PICK i \in DOMAIN built : built[i].listen = e.listen /\ built[i].remotes = e.remotes
    BY <2>1, <2>4, EndpointsBuilt
  <2>6. QED
    BY <2>3, <2>5
<1>2. QED
  BY <1>1, StartUpInvariant, PTL

-----------------------------------------------------------------------------
(* Whose word counts.                                                      *)

LEMMA GivenConstant ==
  ASSUME NEW f, NEW T
  PROVE  Given([x \in T |-> TRUE], {f}) = [x \in {f} \cap T |-> TRUE]
BY DEF Given

\* What the command line is taken to say is what its user says of a field.
LEMMA SaysIs ==
  ASSUME NEW f \in NetFields \ {"tcp_keepalive_probe"}, IsCommandLine(cl), FromEnvironment = {}
  PROVE  Given(CmdNet(cl), {f}) = Says(f)
<1> DEFINE A == {g \in DOMAIN NetFlag : NetFlag[g] \in cl.flags}
           B == {g \in DOMAIN NetOption : Parsed(cl, NetOption[g])}
           flag   == [x \in A |-> TRUE]
           option == [x \in B |-> cl.options[NetOption[x]]]
<1>1. Given(CmdNet(cl), {f}) = Given(flag, {f}) ++ Given(option, {f})
  BY GivenMerge DEF CmdNet
<1>2. CASE f \in {"send_mptcp", "accept_mptcp"}
  <2>1. f \in DOMAIN NetFlag /\ NetFlag[f] = "use_mptcp" /\ f \notin DOMAIN NetOption
    BY <1>2 DEF NetFlag, NetOption
  <2>2. f \in A <=> f \in {h \in {f} : "use_mptcp" \in cl.flags}
    BY <2>1
  <2>3. f \notin DOMAIN option
    BY <2>1
  <2> HIDE DEF A, B
  <2> DEFINE C == {h \in {f} : "use_mptcp" \in cl.flags}
  <2>4. Given(flag, {f}) = [x \in {f} \cap A |-> TRUE]
    BY GivenConstant
  <2>5. {f} \cap A = C
    BY <2>2
  <2>6. Says(f) = [x \in C |-> TRUE]
    BY <1>2 DEF Says
  <2> HIDE DEF option
  <2>7. Given(option, {f}) = <<>>
    BY <2>3, NotGiven
  <2>8. IsFunction(Given(flag, {f}))
    BY GivenFunction
  <2>9. Given(flag, {f}) ++ <<>> = Given(flag, {f})
    BY <2>8, MergeEmpty
  <2>10. QED
    BY <1>1, <2>4, <2>5, <2>6, <2>7, <2>9
<1>3. CASE f \notin {"send_mptcp", "accept_mptcp"}
  <2>1. f \in A <=> f \in cl.flags
    <3>1. CASE f \in {"use_udp", "no_tcp", "ipv6_only"}
      BY <3>1 DEF NetFlag
    <3>2. CASE f \notin {"use_udp", "no_tcp", "ipv6_only"}
      <4>1. f \notin DOMAIN NetFlag
        BY <1>3, <3>2 DEF NetFlag
      <4>2. f \notin Flags
        BY <3>2 DEF Flags, NetFields
      <4>3. QED
        BY <4>1, <4>2 DEF IsCommandLine
    <3>3. QED
      BY <3>1, <3>2
  <2>2. f \in DOMAIN NetOption => NetOption[f] = f
    BY DEF NetOption
  <2>3. f \notin DOMAIN NetOption => ~Parsed(cl, f)
    <3>1. f \notin DOMAIN NetOption => f \notin EndpointOptions \cup GlobalOptions
      BY DEF NetOption, EndpointOptions, GlobalOptions, NetFields
    <3>2. QED
      BY <3>1 DEF IsCommandLine, Parsed
  <2>4. {f} \cap B = {h \in {f} : Parsed(cl, h)}
    BY <2>2, <2>3
  <2>5. \A x \in {f} \cap B : option[x] = cl.options[f]
    BY <2>2
  <2>6. Given(option, {f}) = [x \in {f} \cap B |-> option[x]]
    BY DEF Given
  <2>7. Given(option, {f}) = [x \in {h \in {f} : Parsed(cl, h)} |-> cl.options[f]]
    <3> HIDE DEF option, B
    <3>1. [x \in {f} \cap B |-> option[x]] = [x \in {f} \cap B |-> cl.options[f]]
      BY <2>5
    <3>2. QED
      BY <2>4, <2>6, <3>1
  <2>8. Given(flag, {f}) = [x \in {h \in {f} : h \in cl.flags} |-> TRUE]
    <3>1. {f} \cap A = {h \in {f} : h \in cl.flags}
      BY <2>1
    <3> HIDE DEF A
    <3>2. Given(flag, {f}) = [x \in {f} \cap A |-> TRUE]
      BY GivenConstant
    <3>3. QED
      BY <3>1, <3>2
  <2>9. Says(f) = [g \in {h \in {f} : h \in cl.flags} |-> TRUE]
                  ++ [g \in {h \in {f} : Parsed(cl, h)} |-> cl.options[f]]
    BY <1>3 DEF Says
  <2> HIDE DEF flag, option
  <2>10. QED
    BY <1>1, <2>7, <2>8, <2>9
<1>4. QED
  BY <1>2, <1>3

\* A global option is one that some file gives, if one does.
LEMMA GlobalIs ==
  ASSUME NEW f, NEW docs, NEW n, GlobalFrom(f, docs, n)
  PROVE  \/ Given(n, {f}) = <<>> /\ \A d \in docs : d.form = "conf" => f \notin DOMAIN d.network
         \/ \E d \in docs : /\ d.form = "conf" /\ f \in DOMAIN d.network
                            /\ Given(n, {f}) = Given(d.network, {f})
BY NotGiven DEF GlobalFrom

\* Each network option of each endpoint is the command line's word, else the
\* endpoint's own, else one file's global section's, else the default, for
\* files of any contents in any order.
THEOREM PrecedenceHolds == Spec => []Precedence
<1>1. StartInv => Precedence
  <2> SUFFICES ASSUME StartInv, pc = "running", NEW f \in NetFields \ {"tcp_keepalive_probe"}
               PROVE  \E global \in Globals(f) :
                        \A d \in Confs : \A j \in DOMAIN d.endpoints :
                          \E i \in DOMAIN built :
                            /\ built[i].listen = d.endpoints[j].listen
                            /\ Given(built[i].net, {f}) =
                                 ((Says(f) ++ Given(d.endpoints[j].network, {f})) ++ global)
                                 ++ Given(NetDefaults, {f})
    BY DEF Precedence
  <2> DEFINE G(n) == Given(n, {f})
             own(d, j) == d.endpoints[j].network
  <2>1. ASSUME NEW d \in Confs, NEW j \in DOMAIN d.endpoints
        PROVE  \E i \in DOMAIN built : /\ built[i].listen = d.endpoints[j].listen
                                       /\ G(built[i].net) = G(NetNow(own(d, j))) ++ G(NetDefaults)
    <3>1. d \in Sources /\ d.form = "conf"
      BY DEF Confs
    <3>2. FromConfStr(d).endpoints = d.endpoints
      BY <3>1, SourcesGood, DocumentIs
    <3>3. d.endpoints[j] \in Range(FromConfStr(d).endpoints)
      BY <3>2 DEF Range
    <3>4. PICK i \in DOMAIN built : /\ built[i].listen = d.endpoints[j].listen
                                    /\ built[i].net = NetNow(own(d, j)) ++ NetDefaults
      BY <3>1, <3>3, EndpointsBuilt
    <3>5. G(NetNow(own(d, j)) ++ NetDefaults) = G(NetNow(own(d, j))) ++ G(NetDefaults)
      BY GivenMerge
    <3>6. QED
      BY <3>4, <3>5
  <2>2. ASSUME NEW global \in Globals(f),
               \A n : Given(NetNow(n), {f}) = (Says(f) ++ Given(n, {f})) ++ global
        PROVE  \E g \in Globals(f) :
                 \A d \in Confs : \A j \in DOMAIN d.endpoints :
                   \E i \in DOMAIN built :
                     /\ built[i].listen = d.endpoints[j].listen
                     /\ Given(built[i].net, {f}) =
                          ((Says(f) ++ Given(d.endpoints[j].network, {f})) ++ g)
                          ++ Given(NetDefaults, {f})
    <3>1. ASSUME NEW d \in Confs, NEW j \in DOMAIN d.endpoints
          PROVE  \E i \in DOMAIN built :
                   /\ built[i].listen = d.endpoints[j].listen
                   /\ Given(built[i].net, {f}) =
                        ((Says(f) ++ Given(d.endpoints[j].network, {f})) ++ global)
                        ++ Given(NetDefaults, {f})
      <4>1. PICK i \in DOMAIN built :
              /\ built[i].listen = d.endpoints[j].listen
              /\ G(built[i].net) = G(NetNow(d.endpoints[j].network)) ++ G(NetDefaults)
        BY <2>1
      <4>2. G(NetNow(d.endpoints[j].network))
              = (Says(f) ++ Given(d.endpoints[j].network, {f})) ++ global
        BY <2>2
      <4>3. WITNESS i \in DOMAIN built
      <4>4. QED
        BY <4>1, <4>2
    <3>2. WITNESS global \in Globals(f)
    <3>3. QED
      BY <3>1
  <2>3. CASE FromEnvironment # {}
    <3>1. Globals(f) = {<<>>} /\ Says(f) = <<>>
      BY <2>3 DEF Globals, Says
    <3>2. \A n : G(NetNow(n)) = (<<>> ++ G(n)) ++ <<>>
      <4>1. ASSUME NEW n
            PROVE  G(NetNow(n)) = (<<>> ++ G(n)) ++ <<>>
        <5>1. NetNow(n) = n
          BY <2>3 DEF NetNow
        <5>2. IsFunction(G(n))
          BY GivenFunction
        <5>3. <<>> ++ G(n) = G(n) /\ G(n) ++ <<>> = G(n)
          BY <5>2, MergeEmpty
        <5>4. QED
          BY <5>1, <5>3
      <4>2. QED
        BY <4>1
    <3>3. QED
      BY <2>2, <3>1, <3>2
  <2>4. CASE FromEnvironment = {}
    <3> DEFINE global == G(conf.network)
    <3>1. global \in Globals(f)
      <4>1. Ready /\ Docs = Sources
        BY DEF Ready, Docs
      <4>2. GlobalFrom(f, Sources, conf.network)
        BY <2>4, <4>1 DEF StartInv, GlobalInv
      <4>3. \/ global = <<>> /\ \A d \in Sources : d.form = "conf" => f \notin DOMAIN d.network
            \/ \E d \in Sources : /\ d.form = "conf" /\ f \in DOMAIN d.network
                                  /\ global = G(d.network)
        BY <4>2, GlobalIs
      <4> HIDE DEF global
      <4> DEFINE files == {d \in Confs : f \in DOMAIN d.network}
      <4>4. CASE global = <<>> /\ \A d \in Sources : d.form = "conf" => f \notin DOMAIN d.network
        <5>1. files = {}
          BY <4>4 DEF Confs
        <5>2. QED
          BY <5>1, <4>4 DEF Globals
      <4>5. ASSUME NEW d \in Sources, d.form = "conf", f \in DOMAIN d.network, global = G(d.network)
            PROVE  global \in Globals(f)
        <5>1. d \in files
          BY <4>5 DEF Confs
        <5> HIDE DEF files
        <5>2. files # {}
          BY <5>1
        <5>3. Globals(f) = {G(c.network) : c \in files}
          BY <2>4, <5>2 DEF Globals, files
        <5>4. QED
          BY <5>1, <5>3, <4>5
      <4>6. QED
        BY <4>3, <4>4, <4>5
    <3>2. \A n : G(NetNow(n)) = (Says(f) ++ G(n)) ++ global
      <4>1. ASSUME NEW n
            PROVE  G(NetNow(n)) = (Says(f) ++ G(n)) ++ global
        <5>1. NetNow(n) = CmdNet(cl) ++ (n ++ conf.network)
          BY <2>4 DEF NetNow
        <5>2. G(CmdNet(cl) ++ (n ++ conf.network)) = G(CmdNet(cl)) ++ G(n ++ conf.network)
          BY GivenMerge
        <5>3. G(n ++ conf.network) = G(n) ++ global
          BY GivenMerge
        <5>4. IsCommandLine(cl)
          BY SourcesAre DEF StartInv
        <5>5. G(CmdNet(cl)) = Says(f)
          BY <2>4, <5>4, SaysIs
        <5>6. Says(f) ++ (G(n) ++ global) = (Says(f) ++ G(n)) ++ global
          BY MergeAssoc
        <5>7. QED
          BY <5>1, <5>2, <5>3, <5>5, <5>6
      <4>2. QED
        BY <4>1
    <3>3. \A n : Given(NetNow(n), {f}) = (Says(f) ++ Given(n, {f})) ++ global
      BY <3>2
    <3> HIDE DEF global
    <3>4. QED
      BY <2>2, <3>1, <3>3
  <2>5. QED
    BY <2>3, <2>4
<1>2. QED
  BY <1>1, StartUpInvariant, PTL
=============================================================================
