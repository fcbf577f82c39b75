--------------------------- MODULE RoundRobinProofs ---------------------------
(***************************************************************************)
(* Theorems about RoundRobin for every number of peers, every assignment   *)
(* of weights and every health configuration.                              *)
(***************************************************************************)
EXTENDS RoundRobinShare, WellFoundedInduction, TLAPS

\* Every set of naturals that is not empty has a least element.
LEMMA LeastNatural ==
  ASSUME NEW T, T \subseteq Nat, T # {}
  PROVE  \E x \in T : \A y \in T : x <= y
<1> DEFINE R == OpToRel(<, Nat)
<1>1. R = {ss \in Nat \X Nat : ss[1] < ss[2]}
  BY DEF OpToRel
<1>2. IsWellFoundedOn(R, Nat)
  BY NatLessThanWellFounded
<1> HIDE DEF R
<1>3. PICK x \in T : \A y \in T : ~(<<y, x>> \in R)
  BY <1>2, WFMin
<1>4. ASSUME NEW y \in T
      PROVE  x <= y
  <2>1. x \in Nat /\ y \in Nat /\ <<y, x>> \in Nat \X Nat
    OBVIOUS
  <2>2. ~(y < x)
    BY <1>1, <1>3, <2>1
  <2>3. QED
    BY <2>1, <2>2
<1>5. QED
  BY <1>3, <1>4

\* A set with zero in it and closed under successor contains Nat.
LEMMA NatSetInduction ==
  ASSUME NEW S, 0 \in S, \A n \in Nat : n \in S => n + 1 \in S
  PROVE  Nat \subseteq S
<1> SUFFICES ASSUME NEW m \in Nat, m \notin S
             PROVE  FALSE
  OBVIOUS
<1>1. PICK x \in Nat \ S : \A y \in Nat \ S : x <= y
  BY LeastNatural
<1>2. x \in Nat /\ x # 0
  OBVIOUS
<1>3. x - 1 \in Nat /\ (x - 1) + 1 = x
  BY <1>2
<1>4. x - 1 \in S
  BY <1>1, <1>3
<1>5. QED
  BY <1>3, <1>4

-----------------------------------------------------------------------------
(* Prefix(f) is the function its recursive definition describes. *)
LEMMA PrefixDef ==
  ASSUME NEW f \in [Node -> Int]
  PROVE  /\ Prefix(f) \in [0 .. N -> Int]
         /\ Prefix(f)[0] = 0
         /\ \A k \in Node : Prefix(f)[k + 1] = Prefix(f)[k] + f[k]
<1> DEFINE Step(u, n) == [k \in 0 .. n |-> IF k = 0 THEN 0 ELSE u[k - 1] + f[k - 1]]
           Summable(n) == \E u \in [0 .. n -> Int] : u = Step(u, n)
           S == {n \in Nat : n <= N => Summable(n)}
<1> USE NAssumption
<1>1. 0 \in S
  <2>1. [k \in 0 .. 0 |-> 0] = Step([k \in 0 .. 0 |-> 0], 0)
    OBVIOUS
  <2>2. [k \in 0 .. 0 |-> 0] \in [0 .. 0 -> Int]
    OBVIOUS
  <2>3. Summable(0)
    BY <2>1, <2>2
  <2> HIDE DEF Summable
  <2>4. QED
    BY <2>3
<1>2. ASSUME NEW n \in Nat, n \in S
      PROVE  n + 1 \in S
  <2> HIDE DEF Summable
  <2> SUFFICES ASSUME n + 1 <= N
               PROVE  Summable(n + 1)
    OBVIOUS
  <2>0. Summable(n)
    BY <1>2
  <2> USE DEF Summable
  <2>1. PICK u \in [0 .. n -> Int] : u = Step(u, n)
    BY <2>0
  <2> DEFINE v == [k \in 0 .. n + 1 |-> IF k = n + 1 THEN u[n] + f[n] ELSE u[k]]
  <2>2. v \in [0 .. n + 1 -> Int]
    BY DEF Node
  <2>3. ASSUME NEW k \in 0 .. n + 1
        PROVE  v[k] = IF k = 0 THEN 0 ELSE v[k - 1] + f[k - 1]
    <3>1. CASE k = 0
      BY <2>1, <3>1
    <3>2. CASE k = n + 1
      BY <3>2
    <3>3. CASE k \in 1 .. n
      <4>1. u[k] = u[k - 1] + f[k - 1]
        BY <2>1, <3>3
      <4>2. v[k] = u[k] /\ v[k - 1] = u[k - 1]
        BY <3>3
      <4>3. QED
        BY <3>3, <4>1, <4>2
    <3>4. QED
      BY <3>1, <3>2, <3>3
  <2>4. v = Step(v, n + 1)
    BY <2>3
  <2>5. QED
    BY <2>2, <2>4
<1>3. Summable(N)
  <2> HIDE DEF S, Summable
  <2>1. Nat \subseteq S
    BY <1>1, <1>2, NatSetInduction
  <2>2. QED
    BY <2>1 DEF S
<1>4. Prefix(f) = Step(Prefix(f), N)
  <2>1. \E u : u = Step(u, N)
    BY <1>3
  <2>2. QED
    BY <2>1 DEF Prefix
<1>5. /\ Prefix(f)[0] = 0
      /\ \A k \in Node : Prefix(f)[k + 1] = Prefix(f)[k] + f[k]
  <2> HIDE DEF S
  <2>1. \A k \in 0 .. N : Prefix(f)[k] = IF k = 0 THEN 0 ELSE Prefix(f)[k - 1] + f[k - 1]
    BY <1>4
  <2>2. ASSUME NEW k \in Node
        PROVE  Prefix(f)[k + 1] = Prefix(f)[k] + f[k]
    <3>1. k + 1 \in 0 .. N /\ k + 1 # 0 /\ (k + 1) - 1 = k
      BY DEF Node
    <3>2. QED
      BY <2>1, <3>1
  <2>3. QED
    BY <2>1, <2>2
<1>6. \A k \in 0 .. N : Prefix(f)[k] \in Int
  <2> DEFINE I == {k \in Nat : k <= N => Prefix(f)[k] \in Int}
  <2>1. 0 \in I
    BY <1>5
  <2>2. ASSUME NEW k \in Nat, k \in I
        PROVE  k + 1 \in I
    <3> SUFFICES ASSUME k + 1 <= N
                 PROVE  Prefix(f)[k + 1] \in Int
      OBVIOUS
    <3>1. k \in Node /\ Prefix(f)[k] \in Int
      BY <2>2 DEF Node
    <3>2. QED
      BY <1>5, <3>1
  <2> HIDE DEF I
  <2>3. Nat \subseteq I
    BY <2>1, <2>2, NatSetInduction
  <2>4. QED
    BY <2>3 DEF I
<1>7. QED
  <2>1. DOMAIN Prefix(f) = 0 .. N /\ Prefix(f) = [k \in 0 .. N |-> Prefix(f)[k]]
    BY <1>4
  <2>2. QED
    BY <1>5, <1>6, <2>1

(* The sum of integers is an integer. *)
LEMMA SumType ==
  ASSUME NEW f \in [Node -> Int]
  PROVE  Sum(f) \in Int
BY PrefixDef, NAssumption DEF Sum

(* Zeros sum to zero. *)
LEMMA SumZeros == Sum([i \in Node |-> 0]) = 0
<1> DEFINE f == [i \in Node |-> 0]
           S == {k \in Nat : k <= N => Prefix(f)[k] = 0}
<1>1. f \in [Node -> Int]
  OBVIOUS
<1> HIDE DEF f
<1>2. 0 \in S
  BY <1>1, PrefixDef
<1>3. ASSUME NEW k \in Nat, k \in S
      PROVE  k + 1 \in S
  <2> SUFFICES ASSUME k + 1 <= N
               PROVE  Prefix(f)[k + 1] = 0
    OBVIOUS
  <2>1. k \in Node /\ Prefix(f)[k] = 0
    BY <1>3, NAssumption DEF Node
  <2>2. f[k] = 0
    BY <2>1 DEF f
  <2>3. QED
    BY <1>1, <2>1, <2>2, PrefixDef
<1> HIDE DEF S
<1>4. Nat \subseteq S
  BY <1>2, <1>3, NatSetInduction
<1>5. QED
  BY <1>4, NAssumption DEF S, Sum, f

(* The sum of a pointwise sum is the sum of the sums. *)
LEMMA SumPlus ==
  ASSUME NEW f \in [Node -> Int], NEW g \in [Node -> Int]
  PROVE  Sum([i \in Node |-> f[i] + g[i]]) = Sum(f) + Sum(g)
<1> DEFINE h == [i \in Node |-> f[i] + g[i]]
           S == {k \in Nat : k <= N => Prefix(h)[k] = Prefix(f)[k] + Prefix(g)[k]}
<1>1. h \in [Node -> Int] /\ \A i \in Node : h[i] = f[i] + g[i]
  OBVIOUS
<1> HIDE DEF h
<1>2. 0 \in S
  BY <1>1, PrefixDef
<1>3. ASSUME NEW k \in Nat, k \in S
      PROVE  k + 1 \in S
  <2> SUFFICES ASSUME k + 1 <= N
               PROVE  Prefix(h)[k + 1] = Prefix(f)[k + 1] + Prefix(g)[k + 1]
    OBVIOUS
  <2>1. k \in Node /\ k \in 0 .. N /\ Prefix(h)[k] = Prefix(f)[k] + Prefix(g)[k]
    BY <1>3, NAssumption DEF Node
  <2>2. /\ Prefix(f)[k] \in Int /\ Prefix(f)[k + 1] = Prefix(f)[k] + f[k]
        /\ Prefix(g)[k] \in Int /\ Prefix(g)[k + 1] = Prefix(g)[k] + g[k]
        /\ Prefix(h)[k + 1] = Prefix(h)[k] + h[k]
    BY <1>1, <2>1, PrefixDef
  <2>3. h[k] = f[k] + g[k] /\ f[k] \in Int /\ g[k] \in Int
    BY <1>1, <2>1
  <2>4. QED
    BY <2>1, <2>2, <2>3
<1> HIDE DEF S
<1>4. Nat \subseteq S
  BY <1>2, <1>3, NatSetInduction
<1>5. QED
  BY <1>4, NAssumption DEF S, Sum, h

(* Changing one term changes the sum by as much. *)
LEMMA SumExcept ==
  ASSUME NEW f \in [Node -> Int], NEW b \in Node, NEW d \in Int
  PROVE  Sum([f EXCEPT ![b] = d]) = Sum(f) - f[b] + d
<1> DEFINE h == [f EXCEPT ![b] = d]
           S == {k \in Nat : k <= N =>
                   Prefix(h)[k] = Prefix(f)[k] + (IF b < k THEN d - f[b] ELSE 0)}
<1> USE NAssumption DEF Node
<1>1. /\ h \in [Node -> Int]
      /\ h[b] = d
      /\ \A i \in Node \ {b} : h[i] = f[i]
  OBVIOUS
<1> HIDE DEF h
<1>2. 0 \in S
  <2>1. Prefix(h)[0] = 0 /\ Prefix(f)[0] = 0 /\ ~(b < 0)
    BY <1>1, PrefixDef
  <2>2. QED
    BY <2>1
<1>3. ASSUME NEW k \in Nat, k \in S
      PROVE  k + 1 \in S
  <2> SUFFICES ASSUME k + 1 <= N
               PROVE  Prefix(h)[k + 1] =
                        Prefix(f)[k + 1] + (IF b < k + 1 THEN d - f[b] ELSE 0)
    OBVIOUS
  <2>1. k \in Node /\ k \in 0 .. N
        /\ Prefix(h)[k] = Prefix(f)[k] + (IF b < k THEN d - f[b] ELSE 0)
    BY <1>3
  <2>2. /\ Prefix(f)[k] \in Int /\ Prefix(f)[k + 1] = Prefix(f)[k] + f[k]
        /\ Prefix(h)[k + 1] = Prefix(h)[k] + h[k]
    BY <1>1, <2>1, PrefixDef
  <2>3. f[k] \in Int /\ f[b] \in Int
    BY <2>1
  <2>4. CASE k = b
    BY <1>1, <2>1, <2>2, <2>3, <2>4
  <2>5. CASE k # b
    <3>1. h[k] = f[k] /\ (b < k + 1 <=> b < k)
      BY <1>1, <2>1, <2>5
    <3>2. QED
      BY <2>1, <2>2, <2>3, <3>1
  <2>6. QED
    BY <2>4, <2>5
<1> HIDE DEF S
<1>4. Nat \subseteq S
  BY <1>2, <1>3, NatSetInduction
<1>5. Prefix(h)[N] = Prefix(f)[N] + (d - f[b])
  BY <1>4 DEF S
<1>6. Prefix(f)[N] \in Int /\ f[b] \in Int
  BY PrefixDef
<1>7. QED
  BY <1>5, <1>6 DEF Sum, h

-----------------------------------------------------------------------------
(* What a set of nodes adds up to, and how many they are. *)
Part(f, S) == Sum([i \in Node |-> IF i \in S THEN f[i] ELSE 0])
Size(S)    == Part([i \in Node |-> 1], S)

LEMMA SumLeq ==
  ASSUME NEW f \in [Node -> Int], NEW g \in [Node -> Int], \A i \in Node : f[i] <= g[i]
  PROVE  Sum(f) <= Sum(g)
<1> DEFINE S == {k \in Nat : k <= N => Prefix(f)[k] <= Prefix(g)[k]}
<1> USE NAssumption DEF Node
<1>1. 0 \in S
  <2>1. Prefix(f)[0] = 0 /\ Prefix(g)[0] = 0
    BY PrefixDef
  <2>2. QED
    BY <2>1
<1>2. ASSUME NEW k \in Nat, k \in S
      PROVE  k + 1 \in S
  <2> SUFFICES ASSUME k + 1 <= N
               PROVE  Prefix(f)[k + 1] <= Prefix(g)[k + 1]
    OBVIOUS
  <2>1. k \in Node /\ k \in 0 .. N
    OBVIOUS
  <2>2. Prefix(f)[k] \in Int /\ Prefix(g)[k] \in Int /\ f[k] \in Int /\ g[k] \in Int
    BY <2>1, PrefixDef
  <2>3. /\ Prefix(f)[k + 1] = Prefix(f)[k] + f[k]
        /\ Prefix(g)[k + 1] = Prefix(g)[k] + g[k]
    BY <2>1, PrefixDef
  <2>4. Prefix(f)[k] <= Prefix(g)[k] /\ f[k] <= g[k]
    BY <1>2, <2>1
  <2>5. QED
    BY <2>2, <2>3, <2>4
<1> HIDE DEF S
<1>3. Nat \subseteq S
  BY <1>1, <1>2, NatSetInduction
<1>4. N \in S
  BY <1>3
<1>5. QED
  BY <1>4 DEF S, Sum

LEMMA SumScale ==
  ASSUME NEW f \in [Node -> Int], NEW c \in Int
  PROVE  Sum([i \in Node |-> c * f[i]]) = c * Sum(f)
<1> DEFINE h == [i \in Node |-> c * f[i]]
           S == {k \in Nat : k <= N => Prefix(h)[k] = c * Prefix(f)[k]}
<1> USE NAssumption DEF Node
<1>1. h \in [Node -> Int] /\ \A i \in Node : h[i] = c * f[i]
  OBVIOUS
<1> HIDE DEF h
<1>2. 0 \in S
  <2>1. Prefix(f)[0] = 0 /\ Prefix(h)[0] = 0
    BY <1>1, PrefixDef
  <2>2. QED
    BY <2>1
<1>3. ASSUME NEW k \in Nat, k \in S
      PROVE  k + 1 \in S
  <2> SUFFICES ASSUME k + 1 <= N
               PROVE  Prefix(h)[k + 1] = c * Prefix(f)[k + 1]
    OBVIOUS
  <2>1. k \in Node /\ k \in 0 .. N
    OBVIOUS
  <2>2. Prefix(h)[k] \in Int /\ Prefix(f)[k] \in Int /\ h[k] = c * f[k] /\ f[k] \in Int
    BY <1>1, <2>1, PrefixDef
  <2>3. /\ Prefix(h)[k + 1] = Prefix(h)[k] + h[k]
        /\ Prefix(f)[k + 1] = Prefix(f)[k] + f[k]
    BY <1>1, <2>1, PrefixDef
  <2>4. Prefix(h)[k] = c * Prefix(f)[k]
    BY <1>3, <2>1
  <2>5. c * (Prefix(f)[k] + f[k]) = c * Prefix(f)[k] + c * f[k]
    BY <2>2
  <2>6. QED
    BY <2>2, <2>3, <2>4, <2>5
<1> HIDE DEF S
<1>4. Nat \subseteq S
  BY <1>2, <1>3, NatSetInduction
<1>5. N \in S
  BY <1>4
<1>6. QED
  BY <1>5 DEF S, Sum, h

LEMMA PartType ==
  ASSUME NEW f \in [Node -> Int], NEW S
  PROVE  Part(f, S) \in Int
<1>1. [i \in Node |-> IF i \in S THEN f[i] ELSE 0] \in [Node -> Int]
  OBVIOUS
<1>2. QED
  BY <1>1, SumType DEF Part

LEMMA PartPlus ==
  ASSUME NEW f \in [Node -> Int], NEW g \in [Node -> Int], NEW S
  PROVE  Part([i \in Node |-> f[i] + g[i]], S) = Part(f, S) + Part(g, S)
<1> DEFINE u == [i \in Node |-> IF i \in S THEN f[i] ELSE 0]
           v == [i \in Node |-> IF i \in S THEN g[i] ELSE 0]
<1>1. u \in [Node -> Int] /\ v \in [Node -> Int]
  OBVIOUS
<1>2. [i \in Node |-> IF i \in S THEN [j \in Node |-> f[j] + g[j]][i] ELSE 0]
        = [i \in Node |-> u[i] + v[i]]
  OBVIOUS
<1> HIDE DEF u, v
<1>3. Sum([i \in Node |-> u[i] + v[i]]) = Sum(u) + Sum(v)
  BY <1>1, SumPlus
<1>4. QED
  BY <1>2, <1>3 DEF Part, u, v

LEMMA PartSplit ==
  ASSUME NEW f \in [Node -> Int], NEW S, NEW A, A \subseteq S
  PROVE  Part(f, S) = Part(f, A) + Part(f, S \ A)
<1> DEFINE u == [i \in Node |-> IF i \in A THEN f[i] ELSE 0]
           v == [i \in Node |-> IF i \in S \ A THEN f[i] ELSE 0]
<1>1. u \in [Node -> Int] /\ v \in [Node -> Int]
  OBVIOUS
<1>2. [i \in Node |-> IF i \in S THEN f[i] ELSE 0] = [i \in Node |-> u[i] + v[i]]
  OBVIOUS
<1> HIDE DEF u, v
<1>3. Sum([i \in Node |-> u[i] + v[i]]) = Sum(u) + Sum(v)
  BY <1>1, SumPlus
<1>4. QED
  BY <1>2, <1>3 DEF Part, u, v

LEMMA PartAdd ==
  ASSUME NEW f \in [Node -> Int], NEW S, NEW b \in Node, b \notin S
  PROVE  Part(f, S \cup {b}) = Part(f, S) + f[b]
<1> DEFINE u == [i \in Node |-> IF i \in S THEN f[i] ELSE 0]
<1>1. u \in [Node -> Int] /\ u[b] = 0 /\ f[b] \in Int
  OBVIOUS
<1>2. [i \in Node |-> IF i \in S \cup {b} THEN f[i] ELSE 0] = [u EXCEPT ![b] = f[b]]
  OBVIOUS
<1> HIDE DEF u
<1>3. Sum([u EXCEPT ![b] = f[b]]) = Sum(u) - u[b] + f[b]
  BY <1>1, SumExcept
<1>4. Sum(u) \in Int
  BY <1>1, SumType
<1>5. QED
  BY <1>1, <1>2, <1>3, <1>4 DEF Part, u

LEMMA PartLeq ==
  ASSUME NEW f \in [Node -> Int], NEW g \in [Node -> Int], NEW S, NEW U,
         \A i \in Node : (IF i \in S THEN f[i] ELSE 0) <= (IF i \in U THEN g[i] ELSE 0)
  PROVE  Part(f, S) <= Part(g, U)
<1> DEFINE u == [i \in Node |-> IF i \in S THEN f[i] ELSE 0]
           v == [i \in Node |-> IF i \in U THEN g[i] ELSE 0]
<1>1. u \in [Node -> Int] /\ v \in [Node -> Int] /\ \A i \in Node : u[i] <= v[i]
  OBVIOUS
<1> HIDE DEF u, v
<1>2. Sum(u) <= Sum(v)
  BY <1>1, SumLeq
<1>3. QED
  BY <1>2 DEF Part, u, v

LEMMA PartBound ==
  ASSUME NEW f \in [Node -> Int], NEW S, NEW c \in Int, \A i \in Node : i \in S => f[i] <= c
  PROVE  Part(f, S) <= c * Size(S)
<1> DEFINE one == [i \in Node |-> IF i \in S THEN 1 ELSE 0]
           v   == [i \in Node |-> IF i \in S THEN c ELSE 0]
           u   == [i \in Node |-> IF i \in S THEN f[i] ELSE 0]
<1>1. one \in [Node -> Int] /\ v \in [Node -> Int] /\ u \in [Node -> Int]
  OBVIOUS
<1>2. v = [i \in Node |-> c * one[i]]
  <2>1. ASSUME NEW i \in Node
        PROVE  (IF i \in S THEN c ELSE 0) = c * (IF i \in S THEN 1 ELSE 0)
    BY <2>1
  <2>2. QED
    BY <2>1
<1>3. \A i \in Node : u[i] <= v[i]
  OBVIOUS
<1>4. Size(S) = Sum(one)
  <2>1. one = [i \in Node |-> IF i \in S THEN [j \in Node |-> 1][i] ELSE 0]
    OBVIOUS
  <2>2. QED
    BY <2>1 DEF Size, Part
<1> HIDE DEF one, v, u
<1>5. Sum(v) = c * Sum(one)
  BY <1>1, <1>2, SumScale
<1>6. Sum(u) <= Sum(v)
  BY <1>1, <1>3, SumLeq
<1>7. QED
  BY <1>4, <1>5, <1>6 DEF Part, u

LEMMA SizeAdd ==
  ASSUME NEW S, NEW b \in Node, b \notin S
  PROVE  Size(S \cup {b}) = Size(S) + 1
<1> DEFINE one == [i \in Node |-> 1]
<1>1. one \in [Node -> Int] /\ one[b] = 1
  OBVIOUS
<1> HIDE DEF one
<1>2. Part(one, S \cup {b}) = Part(one, S) + one[b]
  BY <1>1, PartAdd
<1>3. QED
  BY <1>1, <1>2 DEF Size, one

LEMMA SizeSplit ==
  ASSUME NEW S, NEW A, A \subseteq S
  PROVE  Size(S) = Size(A) + Size(S \ A)
<1> DEFINE one == [i \in Node |-> 1]
<1>1. one \in [Node -> Int]
  OBVIOUS
<1> HIDE DEF one
<1>2. Part(one, S) = Part(one, A) + Part(one, S \ A)
  BY <1>1, PartSplit
<1>3. QED
  BY <1>2 DEF Size, one

LEMMA SizeNat ==
  ASSUME NEW S
  PROVE  Size(S) \in Nat
<1> DEFINE one  == [i \in Node |-> IF i \in S THEN 1 ELSE 0]
           zero == [i \in Node |-> 0]
<1>1. one \in [Node -> Int] /\ zero \in [Node -> Int] /\ \A i \in Node : zero[i] <= one[i]
  OBVIOUS
<1>2. Size(S) = Sum(one)
  <2>1. one = [i \in Node |-> IF i \in S THEN [j \in Node |-> 1][i] ELSE 0]
    OBVIOUS
  <2>2. QED
    BY <2>1 DEF Size, Part
<1>3. Sum(zero) = 0
  BY SumZeros
<1> HIDE DEF one, zero
<1>4. Sum(one) \in Int /\ Sum(zero) <= Sum(one)
  BY <1>1, SumType, SumLeq
<1>5. QED
  BY <1>2, <1>3, <1>4

LEMMA SizeNode == Size(Node) = N
<1> DEFINE one == [i \in Node |-> 1]
           S   == {k \in Nat : k <= N => Prefix(one)[k] = k}
<1> USE NAssumption DEF Node
<1>1. one \in [Node -> Int] /\ \A i \in Node : one[i] = 1
  OBVIOUS
<1>2. Size(Node) = Sum(one)
  <2>1. one = [i \in Node |-> IF i \in Node THEN [j \in Node |-> 1][i] ELSE 0]
    OBVIOUS
  <2>2. QED
    BY <2>1 DEF Size, Part
<1> HIDE DEF one
<1>3. 0 \in S
  BY <1>1, PrefixDef
<1>4. ASSUME NEW k \in Nat, k \in S
      PROVE  k + 1 \in S
  <2> SUFFICES ASSUME k + 1 <= N
               PROVE  Prefix(one)[k + 1] = k + 1
    OBVIOUS
  <2>1. k \in Node
    OBVIOUS
  <2>2. Prefix(one)[k + 1] = Prefix(one)[k] + one[k]
    BY <1>1, <2>1, PrefixDef
  <2>3. QED
    BY <1>1, <1>4, <2>1, <2>2
<1> HIDE DEF S
<1>5. Nat \subseteq S
  BY <1>3, <1>4, NatSetInduction
<1>6. N \in S
  BY <1>5
<1>7. QED
  BY <1>2, <1>6 DEF S, Sum

-----------------------------------------------------------------------------
(* What a set of s nodes can be owed by the others together. *)
Owed(s) == MaxWeight * (s * (N - s))

(* The sums that bound the current weights: no set of nodes is owed more   *)
(* than the largest weight for each pair of a node in it and one outside.  *)
Even == \A S \in SUBSET Node : Part(cw, S) <= Owed(Size(S))

LEMMA MaxWeightIs ==
  /\ MaxWeight \in 1 .. 255
  /\ \A i \in Node : Weight[i] <= MaxWeight
<1> DEFINE T == {w \in 1 .. 255 : \A i \in Node : Weight[i] <= w}
<1>1. 255 \in T
  BY WeightAssumption
<1>2. T \subseteq Nat
  OBVIOUS
<1>3. PICK w \in T : \A v \in T : w <= v
  <2> HIDE DEF T
  <2>1. QED
    BY <1>1, <1>2, LeastNatural
<1>4. \E m \in 1 .. 255 : /\ \A i \in Node : Weight[i] <= m
                          /\ \A v \in 1 .. 255 : (\A i \in Node : Weight[i] <= v) => m <= v
  BY <1>3
<1>5. QED
  BY <1>4 DEF MaxWeight

LEMMA OwedType ==
  ASSUME NEW s \in Int
  PROVE  Owed(s) \in Int
<1>1. MaxWeight \in Int /\ s * (N - s) \in Int
  BY MaxWeightIs, NAssumption
<1>2. QED
  BY <1>1 DEF Owed

(* The arithmetic of a pick among `a' of the s nodes of a set and one      *)
(* outside: R is what the set then has, b what the one that is chosen has. *)
LEMMA PickArithmetic ==
  ASSUME NEW m \in Nat, NEW n \in Nat, NEW s \in Nat, NEW a \in Nat, a >= 1,
         NEW R \in Int, NEW b \in Int,
         R + b <= m * ((s + 1) * (n - (s + 1))) + m * (a + 1),
         R <= m * ((s - a) * (n - (s - a))) + b * a
  PROVE  R <= m * (s * (n - s))
<1> DEFINE F == m * (s * (n - s))
           K == m * (n - 2 * s + a)
<1>1. m * ((s + 1) * (n - (s + 1))) + m * (a + 1) = F + K
  OBVIOUS
<1>2. m * ((s - a) * (n - (s - a))) = F - K * a
  OBVIOUS
<1>3. F \in Int /\ K \in Int /\ K * a \in Int /\ b * a \in Int
  OBVIOUS
<1>4. (K - 1) * a = K * a - a
  OBVIOUS
<1> HIDE DEF F, K
<1> SUFFICES ASSUME R >= F + 1
             PROVE  FALSE
  BY <1>3 DEF F
<1>5. b <= K - 1
  BY <1>1, <1>3
<1>6. b * a <= (K - 1) * a
  BY <1>3, <1>5
<1>7. QED
  BY <1>2, <1>3, <1>4, <1>6

(* A pick keeps the sets even. *)
LEMMA PickEven ==
  ASSUME NEW c \in [Node -> Int], NEW g \in [Node -> 0 .. MaxWeight],
         \A S \in SUBSET Node : Part(c, S) <= Owed(Size(S)),
         NEW E, \A i \in Node : i \notin E => g[i] = 0,
         NEW r, r = [i \in Node |-> c[i] + g[i]],
         NEW best \in Node, best \in E, \A j \in Node : j \in E => r[j] <= r[best],
         NEW S \in SUBSET Node
  PROVE  Part([r EXCEPT ![best] = @ - Sum(g)], S) <= Owed(Size(S))
<1> DEFINE c2 == [r EXCEPT ![best] = r[best] - Sum(g)]
<1>1. MaxWeight \in Nat /\ N \in Nat
  BY MaxWeightIs, NAssumption
<1>2. /\ g \in [Node -> Int] /\ r \in [Node -> Int]
      /\ \A i \in Node : r[i] = c[i] + g[i] /\ g[i] >= 0 /\ g[i] <= MaxWeight
  BY <1>1
<1>3. Sum(g) \in Int /\ r[best] \in Int
  BY <1>2, SumType
<1>4. c2 \in [Node -> Int] /\ \A i \in Node : i # best => c2[i] = r[i]
  BY <1>2, <1>3
<1>5. \A U \in SUBSET Node : Part(r, U) = Part(c, U) + Part(g, U)
  BY <1>2, PartPlus
<1>6. \A U \in SUBSET Node : Part(c, U) \in Int /\ Part(g, U) \in Int /\ Part(r, U) \in Int
  BY <1>2, PartType
<1>7. CASE best \in S
  <2>1. /\ S \ {best} \in SUBSET Node /\ best \notin S \ {best}
        /\ (S \ {best}) \cup {best} = S
    BY <1>7
  <2>2. Part(c2, S) = Part(c2, S \ {best}) + c2[best]
    BY <1>4, <2>1, PartAdd
  <2>3. Part(r, S) = Part(r, S \ {best}) + r[best]
    <3>1. r \in [Node -> Int]
      BY <1>2
    <3>2. Part(r, (S \ {best}) \cup {best}) = Part(r, S \ {best}) + r[best]
      BY <2>1, <3>1, PartAdd
    <3>3. QED
      BY <2>1, <3>2
  <2>4. Part(c2, S \ {best}) = Part(r, S \ {best})
    <3>1. [i \in Node |-> IF i \in S \ {best} THEN c2[i] ELSE 0]
            = [i \in Node |-> IF i \in S \ {best} THEN r[i] ELSE 0]
      BY <1>4
    <3>2. QED
      BY <3>1 DEF Part
  <2>5. c2[best] = r[best] - Sum(g)
    BY <1>2
  <2>6. Part(g, S) <= Sum(g)
    <3>1. Part(g, S) <= Part(g, Node)
      <4>1. \A i \in Node : (IF i \in S THEN g[i] ELSE 0) <= (IF i \in Node THEN g[i] ELSE 0)
        BY <1>2
      <4>2. QED
        BY <1>2, <4>1, PartLeq
    <3>2. [i \in Node |-> IF i \in Node THEN g[i] ELSE 0] = g
      BY <1>2
    <3>3. QED
      BY <3>1, <3>2 DEF Part
  <2>7. Part(c2, S) = Part(c, S) + Part(g, S) - Sum(g)
    <3> HIDE DEF c2
    <3>1. Part(r, S \ {best}) \in Int /\ Part(c, S) \in Int /\ Part(g, S) \in Int
      BY <1>6, <2>1
    <3>2. QED
      BY <1>3, <1>5, <2>2, <2>3, <2>4, <2>5, <3>1
  <2>8. Part(c2, S) <= Part(c, S)
    <3> HIDE DEF c2
    <3>1. QED
      BY <1>3, <1>6, <2>6, <2>7
  <2>9. Part(c, S) \in Int /\ Owed(Size(S)) \in Int /\ Part(c, S) <= Owed(Size(S))
    <3>1. Owed(Size(S)) \in Int
      BY SizeNat, OwedType
    <3>2. QED
      BY <1>6, <3>1
  <2>10. Part(c2, S) \in Int
    BY <1>4, PartType
  <2> HIDE DEF c2
  <2>11. Part(c2, S) <= Owed(Size(S))
    BY <2>8, <2>9, <2>10
  <2>12. QED
    BY <2>11 DEF c2
<1>8. CASE best \notin S
  <2> DEFINE A == S \cap E
             R == Part(r, S)
  <2>1. Part(c2, S) = R
    <3>1. [i \in Node |-> IF i \in S THEN c2[i] ELSE 0] = [i \in Node |-> IF i \in S THEN r[i] ELSE 0]
      BY <1>4, <1>8
    <3>2. QED
      BY <3>1 DEF Part
  <2>2. A \in SUBSET Node /\ S \ A \in SUBSET Node /\ A \subseteq S
    OBVIOUS
  <2>3. \A U \in SUBSET Node : U \cap E = {} => Part(r, U) = Part(c, U)
    <3> SUFFICES ASSUME NEW U \in SUBSET Node, U \cap E = {}
                 PROVE  Part(r, U) = Part(c, U)
      OBVIOUS
    <3>1. ASSUME NEW i \in Node, i \in U
          PROVE  r[i] = c[i]
      BY <1>2, <3>1
    <3>2. [i \in Node |-> IF i \in U THEN r[i] ELSE 0] = [i \in Node |-> IF i \in U THEN c[i] ELSE 0]
      BY <3>1
    <3>3. QED
      BY <3>2 DEF Part
  <2>4. CASE A = {}
    <3>1. R = Part(c, S)
      BY <2>3, <2>4
    <3>2. QED
      BY <2>1, <3>1 DEF c2
  <2>5. CASE A # {}
    <3> DEFINE s == Size(S)
               a == Size(A)
    <3>1. s \in Nat /\ a \in Nat /\ Size(S \ A) = s - a /\ a >= 1
      <4>1. s = a + Size(S \ A) /\ s \in Nat /\ a \in Nat /\ Size(S \ A) \in Nat
        BY <2>2, SizeSplit, SizeNat
      <4>2. PICK x \in A : TRUE
        BY <2>5
      <4>3. a = Size(A \ {x}) + 1
        <5>1. x \in Node /\ x \notin A \ {x} /\ (A \ {x}) \cup {x} = A
          BY <4>2
        <5>2. QED
          BY <5>1, SizeAdd
      <4>4. Size(A \ {x}) \in Nat
        BY SizeNat
      <4> HIDE DEF s, a, A
      <4>5. QED
        BY <4>1, <4>3, <4>4
    <3>2. R + r[best] <= Owed(s + 1) + MaxWeight * (a + 1)
      <4>1. S \cup {best} \in SUBSET Node /\ Size(S \cup {best}) = s + 1
        BY <1>8, SizeAdd
      <4>2. Part(r, S \cup {best}) = R + r[best]
        BY <1>2, <1>8, PartAdd
      <4>3. Part(c, S \cup {best}) <= Owed(s + 1)
        BY <4>1
      <4>4. Part(g, S \cup {best}) <= MaxWeight * (a + 1)
        <5>1. Part(g, S \cup {best}) <= Part(g, A \cup {best})
          <6>1. \A i \in Node : (IF i \in S \cup {best} THEN g[i] ELSE 0)
                                <= (IF i \in A \cup {best} THEN g[i] ELSE 0)
            BY <1>2
          <6>2. QED
            BY <1>2, <6>1, PartLeq
        <5>2. Part(g, A \cup {best}) <= MaxWeight * Size(A \cup {best})
          BY <1>1, <1>2, PartBound
        <5>3. Size(A \cup {best}) = a + 1
          BY <1>8, SizeAdd
        <5>4. A \cup {best} \in SUBSET Node
          OBVIOUS
        <5>5. /\ Part(g, S \cup {best}) \in Int /\ Part(g, A \cup {best}) \in Int
              /\ MaxWeight * (a + 1) \in Int
          <6>1. MaxWeight * (a + 1) \in Int
            <7> HIDE DEF a
            <7>1. QED
              BY <1>1, <3>1
          <6>2. QED
            BY <1>6, <4>1, <5>4, <6>1
        <5> HIDE DEF a, A
        <5>6. QED
          BY <5>1, <5>2, <5>3, <5>5
      <4>5. Part(r, S \cup {best}) = Part(c, S \cup {best}) + Part(g, S \cup {best})
        BY <1>5, <4>1
      <4>6. /\ Part(c, S \cup {best}) \in Int /\ Part(g, S \cup {best}) \in Int
            /\ Owed(s + 1) \in Int /\ MaxWeight * (a + 1) \in Int
        <5> HIDE DEF s, a
        <5>1. MaxWeight * (a + 1) \in Int /\ s + 1 \in Int
          BY <1>1, <3>1
        <5>2. QED
          BY <1>6, <4>1, <5>1, OwedType
      <4> HIDE DEF R, s, a, A
      <4>7. QED
        BY <4>2, <4>3, <4>4, <4>5, <4>6
    <3>3. R <= Owed(s - a) + r[best] * a
      <4>1. Part(r, S) = Part(r, A) + Part(r, S \ A)
        <5>1. r \in [Node -> Int]
          BY <1>2
        <5> HIDE DEF A
        <5>2. QED
          BY <2>2, <5>1, PartSplit
      <4>2. Part(r, A) <= r[best] * a
        <5>1. \A i \in Node : i \in A => r[i] <= r[best]
          OBVIOUS
        <5>2. QED
          BY <1>2, <1>3, <5>1, PartBound
      <4>3. Part(r, S \ A) = Part(c, S \ A)
        <5>1. (S \ A) \cap E = {}
          OBVIOUS
        <5>2. QED
          BY <2>2, <2>3, <5>1
      <4>4. Part(c, S \ A) <= Owed(s - a)
        <5>1. Part(c, S \ A) <= Owed(Size(S \ A))
          BY <2>2
        <5>2. QED
          BY <3>1, <5>1
      <4>5. /\ Part(r, A) \in Int /\ Part(c, S \ A) \in Int
            /\ Owed(s - a) \in Int /\ r[best] * a \in Int
        <5> HIDE DEF s, a, A
        <5>1. r[best] * a \in Int /\ s - a \in Int
          BY <1>3, <3>1
        <5>2. QED
          BY <1>6, <2>2, <5>1, OwedType
      <4> HIDE DEF s, a, A
      <4>6. QED
        BY <4>1, <4>2, <4>3, <4>4, <4>5
    <3>4. R \in Int
      BY <1>6
    <3> HIDE DEF R, s, a, A
    <3>5. R <= Owed(s)
      BY <1>1, <1>3, <3>1, <3>2, <3>3, <3>4, PickArithmetic DEF Owed
    <3>6. QED
      BY <2>1, <3>5 DEF c2, R, s
  <2>6. QED
    BY <2>4, <2>5
<1>9. QED
  BY <1>7, <1>8

-----------------------------------------------------------------------------
USE NAssumption, WeightAssumption, HealthAssumption, MaxLagAssumption

(* The inductive invariant: the conserved sum of the current weights only   *)
(* makes sense of integers, a window's length only behind the failures that *)
(* opened it, and a bound on one node's weight only beside those on every   *)
(* set of nodes: a node that is not picked gains on the others together.    *)
IInv == TypeOK /\ ZeroSum /\ WindowBehindFailures /\ EwBounds /\ Even

-----------------------------------------------------------------------------
(* next() picking an eligible node preserves the types. *)
LEMMA NextPeerTypeOK ==
  ASSUME TypeOK, NEW lag \in 0 .. MaxLag, NextPeer(lag)
  PROVE  TypeOK'
<1> DEFINE gain   == [i \in Node |-> IF i \in Eligible(lag) THEN ew[i] ELSE 0]
           raised == [i \in Node |-> cw[i] + gain[i]]
<1>1. PICK best \in Eligible(lag) :
        /\ cw' = [raised EXCEPT ![best] = @ - Sum(gain)]
        /\ ew' = [ew EXCEPT ![best] = IF @ < Weight[best] THEN @ + 1 ELSE @]
        /\ pick' = best
  BY DEF NextPeer
<1>2. best \in Node
  BY DEF Eligible
<1>3. gain \in [Node -> Int] /\ raised \in [Node -> Int]
  <2>1. gain \in [Node -> Int]
    BY DEF TypeOK
  <2> HIDE DEF gain
  <2>2. QED
    BY <2>1 DEF TypeOK
<1>4. Sum(gain) \in Int
  <2> HIDE DEF gain
  <2>1. QED
    BY <1>3, SumType
<1>5. cw' \in [Node -> Int]
  <2> HIDE DEF gain, raised
  <2>1. cw' = [raised EXCEPT ![best] = raised[best] - Sum(gain)]
    BY <1>1
  <2>2. raised[best] - Sum(gain) \in Int
    BY <1>2, <1>3, <1>4
  <2>3. QED
    BY <1>3, <2>1, <2>2
<1>6. ew' \in [Node -> 0 .. 255] /\ pick' \in Node
  <2>1. ew[best] \in 0 .. 255 /\ Weight[best] \in 0 .. 255
    BY <1>2, WeightAssumption DEF TypeOK
  <2>2. ew' = [ew EXCEPT ![best] = IF ew[best] < Weight[best] THEN ew[best] + 1 ELSE ew[best]]
    BY <1>1
  <2>3. (IF ew[best] < Weight[best] THEN ew[best] + 1 ELSE ew[best]) \in 0 .. 255
    BY <2>1
  <2>4. QED
    BY <1>1, <1>2, <2>2, <2>3 DEF TypeOK
<1>7. /\ fails' \in [Node -> 0 .. MaxFails]
      /\ left' \in [Node -> Past .. FailTimeout]
  BY DEF TypeOK, NextPeer, Past
<1>8. QED
  BY <1>5, <1>6, <1>7 DEF TypeOK

(* ... and pays out exactly what was gained. *)
LEMMA NextPeerZeroSum ==
  ASSUME TypeOK, ZeroSum, NEW lag \in 0 .. MaxLag, NextPeer(lag)
  PROVE  ZeroSum'
<1> DEFINE gain   == [i \in Node |-> IF i \in Eligible(lag) THEN ew[i] ELSE 0]
           raised == [i \in Node |-> cw[i] + gain[i]]
<1>1. PICK best \in Eligible(lag) : cw' = [raised EXCEPT ![best] = @ - Sum(gain)]
  BY DEF NextPeer
<1>2. best \in Node
  BY DEF Eligible
<1>3. gain \in [Node -> Int]
  BY DEF TypeOK
<1> HIDE DEF gain
<1>4. /\ cw \in [Node -> Int] /\ raised \in [Node -> Int]
      /\ Sum(gain) \in Int /\ Sum(cw) = 0
  BY <1>3, SumType DEF TypeOK, ZeroSum
<1>5. Sum(raised) = Sum(gain)
  BY <1>3, <1>4, SumPlus
<1> HIDE DEF raised
<1>6. raised[best] \in Int /\ raised[best] - Sum(gain) \in Int
  BY <1>2, <1>3, <1>4
<1>7. Sum(cw') = Sum(raised) - raised[best] + (raised[best] - Sum(gain))
  <2>1. cw' = [raised EXCEPT ![best] = raised[best] - Sum(gain)]
    BY <1>1
  <2>2. Sum([raised EXCEPT ![best] = raised[best] - Sum(gain)])
          = Sum(raised) - raised[best] + (raised[best] - Sum(gain))
    BY <1>2, <1>4, <1>6, SumExcept
  <2>3. QED
    BY <2>1, <2>2
<1>8. QED
  BY <1>4, <1>5, <1>6, <1>7 DEF ZeroSum

-----------------------------------------------------------------------------
(* A picked node's effective weight climbs only below its configured one. *)
LEMMA NextPeerEwBounds ==
  ASSUME TypeOK, EwBounds, NEW lag \in 0 .. MaxLag, NextPeer(lag)
  PROVE  EwBounds'
<1>1. PICK best \in Node : ew' = [ew EXCEPT ![best] = IF @ < Weight[best] THEN @ + 1 ELSE @]
  BY DEF NextPeer, Eligible
<1>2. ASSUME NEW i \in Node
      PROVE  /\ Weight[i] > 0 => ew'[i] \in 1 .. Weight[i]
             /\ Weight[i] = 0 => ew'[i] \in 0 .. 1
  <2>1. /\ ew[i] \in 0 .. 255 /\ Weight[i] \in 0 .. 255
        /\ Weight[i] > 0 => ew[i] \in 1 .. Weight[i]
        /\ Weight[i] = 0 => ew[i] \in 0 .. 1
    <3>1. ew[i] \in 0 .. 255 /\ Weight[i] \in 0 .. 255
      BY DEF TypeOK
    <3>2. /\ Weight[i] > 0 => ew[i] \in 1 .. Weight[i]
          /\ Weight[i] = 0 => ew[i] \in 0 .. 1
      BY DEF EwBounds
    <3>3. QED
      BY <3>1, <3>2
  <2>2. ew'[i] = IF i = best /\ ew[i] < Weight[i] THEN ew[i] + 1 ELSE ew[i]
    BY <1>1 DEF TypeOK
  <2>3. CASE i = best /\ ew[i] < Weight[i]
    <3>1. ew'[i] = ew[i] + 1
      BY <2>2, <2>3
    <3>2. ew[i] \in Nat /\ Weight[i] \in Nat /\ ew[i] < Weight[i]
      BY <2>1, <2>3
    <3>3. QED
      BY <3>1, <3>2
  <2>4. CASE ~(i = best /\ ew[i] < Weight[i])
    <3>1. ew'[i] = ew[i]
      BY <2>2, <2>4
    <3>2. QED
      BY <2>1, <3>1
  <2>5. QED
    BY <2>3, <2>4
<1>3. QED
  BY <1>2 DEF EwBounds

(* A pick raises no set of nodes above what it can be owed. *)
LEMMA NextPeerEven ==
  ASSUME TypeOK, EwBounds, Even, NEW lag \in 0 .. MaxLag, NextPeer(lag)
  PROVE  Even'
<1> DEFINE E == Eligible(lag)
           g == [i \in Node |-> IF i \in E THEN ew[i] ELSE 0]
           r == [i \in Node |-> cw[i] + g[i]]
<1>1. PICK best \in E :
        /\ \A j \in E : r[j] < r[best] \/ (r[j] = r[best] /\ best <= j)
        /\ cw' = [r EXCEPT ![best] = @ - Sum(g)]
  BY DEF NextPeer
<1>2. best \in Node /\ best \in E /\ E \subseteq Node
  BY DEF Eligible
<1>3. cw \in [Node -> Int] /\ \A i \in Node : i \notin E => g[i] = 0
  BY DEF TypeOK
<1>4. g \in [Node -> 0 .. MaxWeight]
  <2> SUFFICES ASSUME NEW i \in Node
               PROVE  ew[i] \in 0 .. MaxWeight
    BY MaxWeightIs
  <2>1. MaxWeight \in 1 .. 255 /\ Weight[i] <= MaxWeight /\ Weight[i] \in 0 .. 255
    BY MaxWeightIs
  <2>2. /\ Weight[i] > 0 => ew[i] \in 1 .. Weight[i]
        /\ Weight[i] = 0 => ew[i] \in 0 .. 1
    BY DEF EwBounds
  <2>3. QED
    BY <2>1, <2>2
<1>5. g \in [Node -> Int]
  BY <1>4
<1> HIDE DEF E, g
<1>6. \A j \in Node : j \in E => r[j] <= r[best]
  <2> SUFFICES ASSUME NEW j \in Node, j \in E
               PROVE  r[j] <= r[best]
    OBVIOUS
  <2>1. r[j] \in Int /\ r[best] \in Int
    BY <1>2, <1>3, <1>5
  <2> HIDE DEF r
  <2>2. QED
    BY <1>1, <2>1
<1>7. ASSUME NEW S \in SUBSET Node
      PROVE  Part(cw', S) <= Owed(Size(S))
  <2>1. \A U \in SUBSET Node : Part(cw, U) <= Owed(Size(U))
    BY DEF Even
  <2>2. \A q : q = r => Part([q EXCEPT ![best] = @ - Sum(g)], S) <= Owed(Size(S))
    BY <1>2, <1>3, <1>4, <1>6, <2>1, PickEven
  <2> HIDE DEF r
  <2>3. QED
    BY <1>1, <2>2
<1>8. QED
  BY <1>7 DEF Even

(* Nobody is owed anything at the start. *)
LEMMA InitEven ==
  ASSUME cw = [i \in Node |-> 0]
  PROVE  Even
<1> SUFFICES ASSUME NEW S \in SUBSET Node
             PROVE  Part(cw, S) <= Owed(Size(S))
  BY DEF Even
<1>1. Part(cw, S) = 0
  <2>1. [i \in Node |-> IF i \in S THEN cw[i] ELSE 0] = [i \in Node |-> 0]
    OBVIOUS
  <2>2. QED
    BY <2>1, SumZeros DEF Part
<1>2. Size(S) \in Nat /\ Size(Node \ S) \in Nat /\ N = Size(S) + Size(Node \ S)
  BY SizeNat, SizeNode, SizeSplit
<1>3. MaxWeight \in Nat
  BY MaxWeightIs
<1>4. ASSUME NEW m \in Nat, NEW s \in Nat, NEW u \in Nat
      PROVE  0 <= m * (s * u)
  OBVIOUS
<1>5. N - Size(S) = Size(Node \ S)
  BY <1>2
<1>6. QED
  BY <1>1, <1>2, <1>3, <1>4, <1>5 DEF Owed

(* Every step preserves the inductive invariant. *)
LEMMA IInvStep == IInv /\ [Next]_vars => IInv'
<1> SUFFICES ASSUME IInv, [Next]_vars
             PROVE  IInv'
  OBVIOUS
<1> USE DEF IInv
<1>1. ASSUME NEW lag \in 0 .. MaxLag, NextPeer(lag)
      PROVE  IInv'
  <2>1. TypeOK' /\ ZeroSum' /\ EwBounds' /\ Even'
    BY <1>1, NextPeerTypeOK, NextPeerZeroSum, NextPeerEwBounds, NextPeerEven
  <2>2. WindowBehindFailures'
    <3>1. /\ fails' = [i \in Node |-> IF i \in Eligible(lag) /\ Unhealthy(i)
                                        THEN 0 ELSE fails[i]]
          /\ left'  = [i \in Node |-> IF i \in Eligible(lag) /\ Unhealthy(i)
                                        THEN Past ELSE left[i]]
      BY <1>1 DEF NextPeer
    <3>2. QED
      BY <3>1 DEF WindowBehindFailures, Past
  <2>3. QED
    BY <2>1, <2>2
<1>2. ASSUME NEW lag \in 0 .. MaxLag, NextFallback(lag)
      PROVE  IInv'
  BY <1>2 DEF NextFallback, health, TypeOK, ZeroSum, WindowBehindFailures, EwBounds, Even
<1>3. ASSUME NEW n \in Node, OnSuccess(n)
      PROVE  IInv'
  <2>1. TypeOK' /\ WindowBehindFailures'
    BY <1>3 DEF OnSuccess, TypeOK, WindowBehindFailures, Past
  <2>2. QED
    BY <1>3, <2>1 DEF OnSuccess, ZeroSum, EwBounds, Even
<1>4. ASSUME NEW n \in Node, OnFailure(n)
      PROVE  IInv'
  <2>1. TypeOK'
    BY <1>4 DEF OnFailure, TypeOK, Past
  <2>2. WindowBehindFailures'
    <3> SUFFICES ASSUME NEW i \in Node, left'[i] > Past
                 PROVE  fails'[i] = MaxFails /\ MaxFails > 0
      BY DEF WindowBehindFailures
    <3>1. CASE i = n /\ fails[n] < MaxFails /\ fails[n] + 1 >= MaxFails
      BY <1>4, <3>1 DEF OnFailure, TypeOK
    <3>2. CASE ~(i = n /\ fails[n] < MaxFails /\ fails[n] + 1 >= MaxFails)
      <4>1. left'[i] = left[i]
        BY <1>4, <3>2 DEF OnFailure, TypeOK
      <4>2. fails[i] = MaxFails /\ MaxFails > 0
        BY <4>1 DEF WindowBehindFailures
      <4>3. QED
        BY <1>4, <4>2 DEF OnFailure, TypeOK
    <3>3. QED
      BY <3>1, <3>2
  <2>3. ZeroSum' /\ Even'
    BY <1>4 DEF OnFailure, ZeroSum, Even
  <2>4. EwBounds'
    <3> SUFFICES ASSUME NEW i \in Node
                 PROVE  /\ Weight[i] > 0 => ew'[i] \in 1 .. Weight[i]
                        /\ Weight[i] = 0 => ew'[i] \in 0 .. 1
      BY DEF EwBounds
    <3>1. ew'[i] = 1 \/ ew'[i] = ew[i]
      BY <1>4 DEF OnFailure, TypeOK
    <3>2. /\ Weight[i] > 0 => ew[i] \in 1 .. Weight[i]
          /\ Weight[i] = 0 => ew[i] \in 0 .. 1
          /\ Weight[i] \in Nat
      BY DEF EwBounds
    <3>3. QED
      BY <3>1, <3>2
  <2>5. QED
    BY <2>1, <2>2, <2>3, <2>4
<1>5. CASE Tick
  <2>1. TypeOK' /\ WindowBehindFailures'
    BY <1>5 DEF Tick, TypeOK, WindowBehindFailures, Past
  <2>2. QED
    BY <1>5, <2>1 DEF Tick, ZeroSum, EwBounds, Even
<1>6. CASE UNCHANGED vars
  BY <1>6 DEF vars, health, TypeOK, ZeroSum, WindowBehindFailures, EwBounds, Even
<1>7. QED
  BY <1>1, <1>2, <1>3, <1>4, <1>5, <1>6 DEF Next, NextCall

(* The invariant holds at the start. *)
LEMMA IInvInit == Init => IInv
<1> SUFFICES ASSUME Init
             PROVE  IInv
  OBVIOUS
<1>1. TypeOK
  BY DEF Init, TypeOK, Past, NoPick
<1>2. ZeroSum
  BY SumZeros DEF Init, ZeroSum
<1>3. WindowBehindFailures /\ EwBounds
  BY DEF Init, WindowBehindFailures, EwBounds, Past
<1>4. Even
  BY InitEven DEF Init
<1>5. QED
  BY <1>1, <1>2, <1>3, <1>4 DEF IInv

(* The inductive invariant holds throughout. *)
THEOREM IInvCorrect == Spec => []IInv
<1>1. QED
  BY IInvInit, IInvStep, PTL DEF Spec

(* The node table keeps its types, whatever is reported. *)
THEOREM TypeCorrect == Spec => []TypeOK
<1>1. IInv => TypeOK
  BY DEF IInv
<1>2. QED
  BY <1>1, IInvCorrect, PTL

(* The current weights always sum to zero, for any weights of as many peers *)
(* as i16 is wide enough for.                                               *)
THEOREM Conservation == Spec => []ZeroSum
<1>1. IInv => ZeroSum
  BY DEF IInv
<1>2. QED
  BY <1>1, IInvCorrect, PTL

(* A window is open only behind a failure count at the limit. *)
THEOREM WindowsExplained == Spec => []WindowBehindFailures
<1>1. IInv => WindowBehindFailures
  BY DEF IInv
<1>2. QED
  BY <1>1, IInvCorrect, PTL

(* One node is owed at most the largest weight by each of the others, and  *)
(* owes at most that: what it owes, the others together are owed.          *)
LEMMA EvenBounds ==
  ASSUME TypeOK, ZeroSum, Even
  PROVE  CwBounded
<1> SUFFICES ASSUME NEW i \in Node
             PROVE  cw[i] \in -Limit .. Limit
  BY DEF CwBounded
<1>1. cw \in [Node -> Int] /\ cw[i] \in Int /\ Sum(cw) = 0
  BY DEF TypeOK, ZeroSum
<1>2. MaxWeight \in Int /\ N \in Int /\ Limit \in Int
  BY MaxWeightIs DEF Limit
<1>3. Size({}) = 0 /\ Part(cw, {}) = 0
  <2>1. /\ [j \in Node |-> IF j \in {} THEN [k \in Node |-> 1][j] ELSE 0] = [j \in Node |-> 0]
        /\ [j \in Node |-> IF j \in {} THEN cw[j] ELSE 0] = [j \in Node |-> 0]
    OBVIOUS
  <2>2. QED
    BY <2>1, SumZeros DEF Size, Part
<1>4. Size({i}) = 1 /\ Part(cw, {i}) = cw[i]
  <2>1. {} \cup {i} = {i} /\ i \notin {}
    OBVIOUS
  <2>2. Size({} \cup {i}) = Size({}) + 1
    BY <2>1, SizeAdd
  <2>3. Part(cw, {} \cup {i}) = Part(cw, {}) + cw[i]
    BY <1>1, <2>1, PartAdd
  <2>4. QED
    BY <1>1, <1>3, <2>1, <2>2, <2>3
<1>5. cw[i] <= Limit
  <2>1. {i} \in SUBSET Node
    OBVIOUS
  <2>2. cw[i] <= Owed(1)
    BY <1>4, <2>1 DEF Even
  <2>3. Owed(1) = Limit
    BY <1>2 DEF Owed, Limit
  <2>4. QED
    BY <2>2, <2>3
<1>6. -Limit <= cw[i]
  <2>1. Node \ {i} \in SUBSET Node /\ {i} \subseteq Node
    OBVIOUS
  <2>2. Size(Node) = Size({i}) + Size(Node \ {i})
    BY <2>1, SizeSplit
  <2>3. Size(Node \ {i}) = N - 1
    <3>1. Size(Node \ {i}) \in Nat
      BY SizeNat
    <3>2. QED
      BY <1>2, <1>4, <2>2, <3>1, SizeNode
  <2>4. Part(cw, Node) = Part(cw, {i}) + Part(cw, Node \ {i})
    BY <1>1, <2>1, PartSplit
  <2>5. Part(cw, Node) = 0
    <3>1. [j \in Node |-> IF j \in Node THEN cw[j] ELSE 0] = cw
      BY <1>1
    <3>2. QED
      BY <1>1, <3>1 DEF Part
  <2>6. Part(cw, Node \ {i}) <= Owed(N - 1)
    BY <2>1, <2>3 DEF Even
  <2>7. Owed(N - 1) = Limit
    BY <1>2 DEF Owed, Limit
  <2>8. Part(cw, Node \ {i}) \in Int
    BY <1>1, PartType
  <2>9. QED
    BY <1>1, <1>2, <1>4, <2>4, <2>5, <2>6, <2>7, <2>8
<1>7. QED
  BY <1>1, <1>2, <1>5, <1>6

(* No current weight leads or lags by more than the largest weight for     *)
(* each other node.                                                        *)
THEOREM CwAlwaysBounded == Spec => []CwBounded
<1>1. IInv => CwBounded
  BY EvenBounds DEF IInv
<1>2. QED
  BY <1>1, IInvCorrect, PTL

(* Effective weights stay between one and the configured weight. *)
THEOREM EwBounded == Spec => []EwBounds
<1>1. IInv => EwBounds
  BY DEF IInv
<1>2. QED
  BY <1>1, IInvCorrect, PTL

-----------------------------------------------------------------------------
(* No step extends the window of a node that is already unhealthy. *)
THEOREM WindowNeverExtended == Spec => WindowNotExtended
<1>1. IInv /\ [Next]_vars =>
        [\A i \in Node : left'[i] > left[i] => ~Unhealthy(i)]_vars
  <2> SUFFICES ASSUME IInv, Next, NEW i \in Node, left'[i] > left[i]
               PROVE  ~Unhealthy(i)
    OBVIOUS
  <2> USE DEF IInv, TypeOK
  <2>1. ASSUME NEW lag \in 0 .. MaxLag, NextPeer(lag)
        PROVE  FALSE
    BY <2>1 DEF NextPeer, Past
  <2>2. ASSUME NEW lag \in 0 .. MaxLag, NextFallback(lag)
        PROVE  FALSE
    BY <2>2 DEF NextFallback, health
  <2>3. ASSUME NEW n \in Node, OnSuccess(n)
        PROVE  FALSE
    BY <2>3 DEF OnSuccess, Past
  <2>4. ASSUME NEW n \in Node, OnFailure(n)
        PROVE  ~Unhealthy(i)
    BY <2>4 DEF OnFailure, Unhealthy
  <2>5. CASE Tick
    BY <2>5 DEF Tick, Past
  <2>6. QED
    BY <2>1, <2>2, <2>3, <2>4, <2>5 DEF Next, NextCall
<1>2. QED
  BY <1>1, IInvCorrect, PTL DEF Spec, WindowNotExtended

(* A node leaves its window early only by a success reported for itself:   *)
(* a next() with a clock of whatever age, failures and the reports of other *)
(* nodes leave it excluded.                                                *)
THEOREM OnlySuccessReadmits == Spec => NoEarlyReadmission
<1>1. IInv /\ [Next]_vars =>
        [\A i \in Node : Excluded(i, 0) /\ ~Excluded(i, 0)' => OnSuccess(i) \/ Tick]_vars
  <2> SUFFICES ASSUME IInv, Next, NEW i \in Node, Excluded(i, 0), ~Excluded(i, 0)'
               PROVE  OnSuccess(i) \/ Tick
    OBVIOUS
  <2> USE DEF IInv, TypeOK
  <2>1. HealthCheck /\ fails[i] >= MaxFails /\ left[i] > 0
    BY DEF Excluded, Unhealthy
  <2>2. ASSUME fails'[i] >= MaxFails, left'[i] = left[i]
        PROVE  FALSE
    BY <2>1, <2>2 DEF Excluded, Unhealthy
  <2>3. ASSUME NEW lag \in 0 .. MaxLag, NextPeer(lag)
        PROVE  FALSE
    <3>1. i \notin Eligible(lag)
      BY <2>1 DEF Eligible, Excluded, Unhealthy, Past
    <3>2. fails'[i] = fails[i] /\ left'[i] = left[i]
      BY <2>3, <3>1 DEF NextPeer
    <3>3. QED
      BY <2>1, <2>2, <3>2
  <2>4. ASSUME NEW lag \in 0 .. MaxLag, NextFallback(lag)
        PROVE  FALSE
    BY <2>1, <2>2, <2>4 DEF NextFallback, health
  <2>5. ASSUME NEW n \in Node, OnSuccess(n), n # i
        PROVE  FALSE
    BY <2>1, <2>2, <2>5 DEF OnSuccess
  <2>6. ASSUME NEW n \in Node, OnFailure(n)
        PROVE  FALSE
    <3>1. fails'[i] = fails[i] /\ left'[i] = left[i]
      BY <2>1, <2>6 DEF OnFailure
    <3>2. QED
      BY <2>1, <2>2, <3>1
  <2>7. QED
    BY <2>3, <2>4, <2>5, <2>6 DEF Next, NextCall
<1>2. QED
  BY <1>1, IInvCorrect, PTL DEF Spec, NoEarlyReadmission

(* next() returns a node inside its window only when every node is inside  *)
(* its own, and then one that is closest to recovery.                      *)
THEOREM HealthiestPicked == Spec => PickIsHealthiest
<1>1. IInv /\ [Next]_vars =>
        [NextCall /\ pick' \in Node /\ Excluded(pick', 0) =>
           \A j \in Node : Excluded(j, 0) /\ left[pick'] <= left[j]]_vars
  <2> SUFFICES ASSUME IInv, NextCall, pick' \in Node, Excluded(pick', 0),
                      NEW j \in Node
               PROVE  Excluded(j, 0) /\ left[pick'] <= left[j]
    OBVIOUS
  <2> USE DEF IInv, TypeOK
  <2>1. ASSUME NEW lag \in 0 .. MaxLag, NextPeer(lag)
        PROVE  FALSE
    BY <2>1 DEF NextPeer, Eligible, Excluded
  <2>2. ASSUME NEW lag \in 0 .. MaxLag, NextFallback(lag)
        PROVE  Excluded(j, 0) /\ left[pick'] <= left[j]
    <3>1. Unhealthy(j) /\ left[pick'] <= left[j]
      BY <2>2 DEF NextFallback, Eligible, Excluded
    <3>2. QED
      BY <3>1 DEF Excluded
  <2>3. QED
    BY <2>1, <2>2 DEF NextCall
<1>2. QED
  BY <1>1, IInvCorrect, PTL DEF Spec, PickIsHealthiest

-----------------------------------------------------------------------------
(* The shares of RoundRobinShare.  What a node was served beyond its share, *)
(* and what it is owed now, add up to what it was owed when the stretch     *)
(* began: a pick in a calm stretch leaves this sum alone.                   *)
Base(i) == Sum(Weight) * served[i] - Sum(served) * Weight[i] + cw[i]

ShareInv == /\ IInv
            /\ served \in [Node -> Nat]
            /\ \A i \in Node : Base(i) \in -Limit .. Limit

(* The history variable takes nothing from the balancer. *)
LEMMA ShareStep == [Serve \/ Recover \/ Report]_shareVars => [Next]_vars
BY DEF Serve, Recover, Report, shareVars, Next

LEMMA NoneSums ==
  /\ None \in [Node -> Nat]
  /\ Sum(None) = 0
  /\ \A i \in Node : None[i] = 0
BY SumZeros DEF None

LEMMA WeightSums == /\ Weight \in [Node -> Int]
                    /\ Sum(Weight) \in Int
                    /\ \A i \in Node : Weight[i] \in Int
<1>1. Weight \in [Node -> Int]
  OBVIOUS
<1>2. QED
  BY <1>1, SumType

(* A count started afresh leaves what the nodes are owed now. *)
LEMMA FreshCount ==
  ASSUME served = None, TypeOK, CwBounded
  PROVE  /\ served \in [Node -> Nat]
         /\ \A i \in Node : Base(i) \in -Limit .. Limit
<1>1. served \in [Node -> Nat]
  BY NoneSums
<1>2. ASSUME NEW i \in Node
      PROVE  Base(i) = cw[i]
  <2>1. served[i] = 0 /\ Sum(served) = 0
    BY NoneSums
  <2>2. cw[i] \in Int /\ Sum(Weight) \in Int /\ Weight[i] \in Int
    BY WeightSums DEF TypeOK
  <2>3. QED
    BY <2>1, <2>2 DEF Base
<1>3. QED
  BY <1>1, <1>2 DEF CwBounded

(* In a calm state next() raises every node by its weight and takes the    *)
(* total from the one it returns.                                          *)
LEMMA CalmPick ==
  ASSUME TypeOK, Calm, NextCall
  PROVE  /\ pick' \in Node
         /\ \A i \in Node : cw'[i] = cw[i] + Weight[i] - (IF i = pick' THEN Sum(Weight) ELSE 0)
<1>1. ew = Weight /\ \A i \in Node : ~Unhealthy(i)
  <2>1. ew = [i \in Node |-> ew[i]] /\ Weight = [i \in Node |-> Weight[i]]
    BY DEF TypeOK
  <2>2. QED
    BY <2>1 DEF Calm
<1>2. PICK lag \in 0 .. MaxLag : NextPeer(lag) \/ NextFallback(lag)
  BY DEF NextCall
<1>3. Eligible(lag) = Node
  BY <1>1 DEF Eligible, Excluded
<1>4. NextPeer(lag)
  <2>1. 0 \in Node
    BY DEF Node
  <2>2. QED
    BY <1>2, <1>3, <2>1 DEF NextFallback
<1> DEFINE gain == [i \in Node |-> IF i \in Eligible(lag) THEN ew[i] ELSE 0]
<1>5. gain = Weight
  BY <1>1, <1>3
<1>6. PICK best \in Node :
        /\ cw' = [[i \in Node |-> cw[i] + Weight[i]] EXCEPT ![best] = @ - Sum(Weight)]
        /\ pick' = best
  <2>1. \E best \in Eligible(lag) :
          /\ cw' = [[i \in Node |-> cw[i] + gain[i]] EXCEPT ![best] = @ - Sum(gain)]
          /\ pick' = best
    BY <1>4 DEF NextPeer
  <2> HIDE DEF gain
  <2>2. QED
    BY <1>3, <1>5, <2>1
<1>7. Sum(Weight) \in Int /\ \A i \in Node : cw[i] \in Int /\ Weight[i] \in Int
  BY WeightSums DEF TypeOK
<1>8. QED
  BY <1>6, <1>7

(* Every step keeps the base of a stretch. *)
LEMMA ShareInvStep == ShareInv /\ [Serve \/ Recover \/ Report]_shareVars => ShareInv'
<1> DEFINE Fresh == served \in [Node -> Nat] /\ \A i \in Node : Base(i) \in -Limit .. Limit
<1>0. /\ IInv' => CwBounded' /\ TypeOK'
      /\ served' = None /\ TypeOK' /\ CwBounded' => Fresh'
  <2>1. IInv => CwBounded /\ TypeOK
    BY EvenBounds DEF IInv
  <2>2. served = None /\ TypeOK /\ CwBounded => Fresh
    BY FreshCount
  <2> HIDE DEF Fresh
  <2>3. IInv' => CwBounded' /\ TypeOK'
    BY <2>1, PTL
  <2>4. (served = None)' /\ TypeOK' /\ CwBounded' => Fresh'
    BY <2>2, PTL
  <2>5. (served = None)' <=> served' = None
    BY DEF None
  <2>6. QED
    BY <2>3, <2>4, <2>5
<1> SUFFICES ASSUME ShareInv, [Serve \/ Recover \/ Report]_shareVars
             PROVE  ShareInv'
  OBVIOUS
<1>1. IInv /\ TypeOK /\ CwBounded
  BY EvenBounds DEF ShareInv, IInv
<1>2. IInv' /\ TypeOK' /\ CwBounded'
  <2>1. IInv'
    BY <1>1, ShareStep, IInvStep
  <2>2. QED
    BY <1>0, <2>1
<1>3. /\ served \in [Node -> Nat] /\ served \in [Node -> Int]
      /\ \A i \in Node : Base(i) \in -Limit .. Limit
  BY DEF ShareInv
<1>4. ASSUME served' = None
      PROVE  ShareInv'
  <2>1. Fresh'
    BY <1>0, <1>2, <1>4
  <2>2. QED
    BY <1>2, <2>1 DEF ShareInv
<1>5. ASSUME served' = served, cw' = cw
      PROVE  ShareInv'
  <2>1. served' \in [Node -> Nat]
    BY <1>3, <1>5
  <2>2. ASSUME NEW i \in Node
        PROVE  Base(i)' \in -Limit .. Limit
    <3>1. Base(i)' = Base(i)
      BY <1>5 DEF Base
    <3>2. QED
      BY <1>3, <3>1
  <2>3. QED
    BY <1>2, <2>1, <2>2 DEF ShareInv
<1>6. CASE Serve
  <2>1. PICK b \in Node :
          /\ b = pick'
          /\ \A i \in Node : cw'[i] = cw[i] + Weight[i] - (IF i = b THEN Sum(Weight) ELSE 0)
    BY <1>1, <1>6, CalmPick DEF Serve
  <2>2. PICK count \in {None, served} : served' = [count EXCEPT ![b] = @ + 1]
    BY <1>6, <2>1 DEF Serve
  <2>3. /\ count \in [Node -> Nat] /\ count \in [Node -> Int]
        /\ served' = [count EXCEPT ![b] = count[b] + 1]
        /\ served' \in [Node -> Nat]
    BY <1>3, <2>2, NoneSums
  <2>4. Sum(count) \in Int /\ count[b] \in Int /\ count[b] + 1 \in Int
    BY <2>3, SumType
  <2>5. Sum(served') = Sum(count) + 1
    <3>1. Sum([count EXCEPT ![b] = count[b] + 1]) = Sum(count) - count[b] + (count[b] + 1)
      BY <2>3, <2>4, SumExcept
    <3>2. QED
      BY <2>3, <2>4, <3>1
  <2>6. ASSUME NEW i \in Node
        PROVE  Base(i)' = Sum(Weight) * count[i] - Sum(count) * Weight[i] + cw[i]
    <3> DEFINE W == Sum(Weight)
               w == Weight[i]
               a == count[i]
               S == Sum(count)
               c == cw[i]
    <3>1. W \in Int /\ w \in Int /\ a \in Int /\ S \in Int /\ c \in Int
      BY <1>1, <2>3, <2>4, WeightSums DEF TypeOK
    <3>2. served'[i] = IF i = b THEN a + 1 ELSE a
      BY <2>3
    <3>3. cw'[i] = c + w - (IF i = b THEN W ELSE 0)
      BY <2>1
    <3>4. Base(i)' = W * served'[i] - (S + 1) * w + cw'[i]
      BY <2>5 DEF Base
    <3> HIDE DEF W, w, a, S, c
    <3>5. CASE i = b
      <4>1. Base(i)' = W * (a + 1) - (S + 1) * w + (c + w - W)
        BY <3>2, <3>3, <3>4, <3>5
      <4>2. W * (a + 1) = W * a + W /\ (S + 1) * w = S * w + w
        BY <3>1
      <4>3. W * a \in Int /\ S * w \in Int
        BY <3>1
      <4>4. Base(i)' = W * a - S * w + c
        BY <3>1, <4>1, <4>2, <4>3
      <4>5. QED
        BY <4>4 DEF W, w, a, S, c
    <3>6. CASE i # b
      <4>1. Base(i)' = W * a - (S + 1) * w + (c + w - 0)
        BY <3>2, <3>3, <3>4, <3>6
      <4>2. (S + 1) * w = S * w + w
        BY <3>1
      <4>3. W * a \in Int /\ S * w \in Int
        BY <3>1
      <4>4. Base(i)' = W * a - S * w + c
        BY <3>1, <4>1, <4>2, <4>3
      <4>5. QED
        BY <4>4 DEF W, w, a, S, c
    <3>7. QED
      BY <3>5, <3>6
  <2>7. ASSUME NEW i \in Node
        PROVE  Base(i)' \in -Limit .. Limit
    <3>1. CASE count = served
      BY <1>3, <2>6, <3>1 DEF Base
    <3>2. CASE count = None
      <4>1. count[i] = 0 /\ Sum(count) = 0
        BY <3>2, NoneSums
      <4>2. Sum(Weight) \in Int /\ Weight[i] \in Int /\ cw[i] \in Int
        BY <1>1, WeightSums DEF TypeOK
      <4>3. Base(i)' = cw[i]
        BY <2>6, <4>1, <4>2
      <4>4. QED
        BY <1>1, <4>3 DEF CwBounded
    <3>3. QED
      BY <2>2, <3>1, <3>2
  <2>8. QED
    BY <1>2, <2>3, <2>7 DEF ShareInv
<1>7. CASE Recover
  BY <1>4, <1>7 DEF Recover
<1>8. CASE Report
  <2>1. cw' = cw /\ served' \in {None, served}
    BY <1>8 DEF Report, OnSuccess, OnFailure, Tick
  <2>2. QED
    BY <1>4, <1>5, <2>1
<1>9. CASE UNCHANGED shareVars
  BY <1>5, <1>9 DEF shareVars, vars
<1>10. QED
  BY <1>6, <1>7, <1>8, <1>9

(* The invariant of the shares holds at the start. *)
LEMMA ShareInvInit == ShareInit => ShareInv
<1> SUFFICES ASSUME ShareInit
             PROVE  ShareInv
  OBVIOUS
<1>1. IInv /\ TypeOK /\ CwBounded
  BY IInvInit, EvenBounds DEF ShareInit, IInv
<1>2. QED
  BY <1>1, FreshCount DEF ShareInit, ShareInv

(* Every behaviour with the history variable is one of the balancer. *)
THEOREM ShareRefines == ShareSpec => Spec
<1>1. ShareInit => Init
  BY DEF ShareInit
<1>2. QED
  BY <1>1, ShareStep, PTL DEF ShareSpec, Spec

(* In every calm stretch each node is served in proportion to its weight,  *)
(* but for what it owed or was owed at its two ends; again for as many     *)
(* peers as i16 is wide enough for.                                        *)
THEOREM SharesAreFair == ShareSpec => []FairShare
<1>1. ShareSpec => []ShareInv
  BY ShareInvInit, ShareInvStep, PTL DEF ShareSpec
<1>2. ShareInv => FairShare
  <2> SUFFICES ASSUME ShareInv, NEW i \in Node
               PROVE  Sum(Weight) * served[i] - Sum(served) * Weight[i]
                        \in -(2 * Limit) .. 2 * Limit
    BY DEF FairShare
  <2> DEFINE D == Sum(Weight) * served[i] - Sum(served) * Weight[i]
  <2>1. TypeOK /\ CwBounded
    BY EvenBounds DEF ShareInv, IInv
  <2>2. served \in [Node -> Int] /\ D + cw[i] \in -Limit .. Limit
    BY DEF ShareInv, Base
  <2>3. D \in Int
    <3>1. served[i] \in Int /\ Sum(served) \in Int
      BY <2>2, SumType
    <3>2. Sum(Weight) \in Int /\ Weight[i] \in Int
      BY WeightSums
    <3>3. QED
      BY <3>1, <3>2
  <2>4. cw[i] \in -Limit .. Limit /\ Limit \in Int
    BY <2>1, MaxWeightIs DEF CwBounded, Limit
  <2> HIDE DEF D
  <2>5. D \in -(2 * Limit) .. 2 * Limit
    BY <2>2, <2>3, <2>4
  <2>6. QED
    BY <2>5 DEF D
<1>3. QED
  BY <1>1, <1>2, PTL
===============================================================================
