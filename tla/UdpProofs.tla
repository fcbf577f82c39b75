----------------------------- MODULE UdpProofs -----------------------------
(***************************************************************************)
(* UDP for any number of clients, packets and sockets: the grouping of a   *)
(* batch is right whatever its addresses, and the associations built on it *)
(* send every packet and every answer where it belongs.                    *)
(***************************************************************************)
EXTENDS UdpRelay, GroupByAddr, FiniteSetTheorems, TLAPS

-----------------------------------------------------------------------------
(* GroupByAddr                                                             *)

USE PktsAssumption

\* The range at hand holds the address it began with.
Uniform == \A i \in beg .. end - 1 : Eq(i, beg)

\* What the look-out has passed does not have that address.
Passed == pc = "probe" => /\ end < probe
                          /\ \A i \in end .. probe - 1 : ~Eq(i, beg)

\* No address of a finished group occurs again.
Apart == \A i \in 1 .. beg - 1, j \in beg .. n : ~Eq(i, j)

\* The groups found so far end where the one at hand begins.
Adjoining == pc # "done" => beg = IF groups = <<>> THEN 1 ELSE groups[Len(groups)][2]

Covered == \A i \in Position :
              pc = "done" \/ i < beg => \E g \in 1 .. Len(groups) : In(i, g)

Whole == \A g \in 1 .. Len(groups) : \A i, j \in Position :
            In(i, g) /\ Eq(i, j) => In(j, g)

\* A finished group lies before the one at hand.
Behind == pc # "done" => \A g \in 1 .. Len(groups) : groups[g][2] <= beg

\* Finished groups lie one behind the other.
Ascending == \A g, h \in 1 .. Len(groups) : g < h => groups[g][2] <= groups[h][1]

GInv == /\ GroupTypeOK /\ Permuted /\ GroupsUniform
        /\ Uniform /\ Passed /\ Apart /\ Adjoining /\ Covered /\ Whole /\ Behind
        /\ Ascending

-----------------------------------------------------------------------------
\* What the types say of the indices.
LEMMA Bounds ==
  ASSUME GroupTypeOK
  PROVE  /\ n \in Int /\ beg \in Int /\ end \in Int /\ probe \in Int
         /\ 1 <= beg /\ beg < end /\ end <= n + 1 /\ probe <= n + 1 /\ beg <= n
         /\ data \in [1 .. n -> 1 .. n]
         /\ groups \in Seq((1 .. n) \X (2 .. n + 1))
<1>1. n \in Int /\ beg \in Int /\ 1 <= beg /\ beg <= n
  BY DEF GroupTypeOK
<1>2. end \in Int /\ beg < end /\ end <= n + 1
  BY <1>1 DEF GroupTypeOK
<1>3. probe \in Int /\ probe <= n + 1
  BY <1>1 DEF GroupTypeOK
<1>4. QED
  BY <1>1, <1>2, <1>3 DEF GroupTypeOK, Position

\* Steps that only move the two look-outs.
LEMMA LooksOn ==
  ASSUME GroupTypeOK, UNCHANGED <<n, addr, data, groups, beg>>, pc' \in {"scan", "probe"},
         end' \in beg + 1 .. n + 1, probe' \in 2 .. n + 1
  PROVE  GroupTypeOK'
<1>1. Position' = Position
  BY DEF Position
<1>2. QED
  BY <1>1 DEF GroupTypeOK

\* What a swap does.
LEMMA Swapped ==
  ASSUME NEW m \in Int, NEW e \in 1 .. m, NEW p \in 1 .. m, NEW d \in [1 .. m -> 1 .. m],
         NEW s, s = [d EXCEPT ![e] = d[p], ![p] = d[e]]
  PROVE  /\ s \in [1 .. m -> 1 .. m] /\ s[e] = d[p] /\ s[p] = d[e]
         /\ \A i \in 1 .. m : i # e /\ i # p => s[i] = d[i]
OBVIOUS

\* What an entry added to a sequence does.
LEMMA Appended ==
  ASSUME NEW T, NEW q \in Seq(T), NEW x \in T, NEW r, r = Append(q, x)
  PROVE  /\ r \in Seq(T) /\ Len(q) \in Nat /\ Len(r) = Len(q) + 1
         /\ r[Len(q) + 1] = x /\ r # <<>>
         /\ \A i \in 1 .. Len(q) : r[i] = q[i] /\ q[i] \in T
OBVIOUS

LEMMA NoEntry ==
  ASSUME NEW T, NEW q \in Seq(T), Len(q) = 0
  PROVE  q = <<>>
OBVIOUS

LEMMA Inside ==
  ASSUME NEW lo \in Int, NEW hi \in Int, NEW i \in Int, NEW b \in Int,
         1 <= lo, lo <= i, i < hi, hi <= b
  PROVE  i < b /\ lo \in 1 .. b - 1
OBVIOUS

LEMMA GroupsAtFirst == GroupInit => GInv
<1> SUFFICES ASSUME GroupInit PROVE GInv
  OBVIOUS
<1>1. n \in 1 .. MaxPkts /\ n \in Nat /\ groups = <<>> /\ Len(groups) = 0
  BY DEF GroupInit
<1>2. GroupTypeOK
  BY <1>1 DEF GroupInit, GroupTypeOK, Position
<1>3. Permuted /\ Uniform /\ Passed /\ Apart
  BY <1>1 DEF GroupInit, Permuted, Uniform, Passed, Apart, Position, Eq, AddrAt
<1>4. GroupsUniform /\ Adjoining /\ Covered /\ Whole /\ Behind /\ Ascending
  BY <1>1 DEF GroupInit, GroupsUniform, Adjoining, Covered, Whole, Behind, Ascending, Position
<1>5. QED
  BY <1>2, <1>3, <1>4 DEF GInv

\* A step that leaves the packets and the groups alone leaves alone what is
\* said of finished groups.
LEMMA SameGroups ==
  ASSUME GInv, UNCHANGED <<n, addr, data, groups, beg>>, pc # "done", pc' # "done"
  PROVE  /\ Permuted' /\ GroupsUniform' /\ Apart' /\ Adjoining' /\ Covered' /\ Whole'
         /\ Behind' /\ Ascending'
<1>1. Permuted' /\ GroupsUniform'
  BY DEF GInv, Permuted, GroupsUniform, In, Eq, AddrAt, Position
<1>2. Apart' /\ Adjoining' /\ Behind' /\ Ascending'
  BY DEF GInv, Apart, Adjoining, Behind, Ascending, Eq, AddrAt, Position
<1>3. Covered' /\ Whole'
  BY DEF GInv, Covered, Whole, In, Eq, AddrAt, Position
<1>4. QED
  BY <1>1, <1>2, <1>3

LEMMA ExtendGInv == GInv /\ Extend => GInv'
<1> SUFFICES ASSUME GInv, Extend PROVE GInv'
  OBVIOUS
<1>1. GroupTypeOK /\ Uniform
  BY DEF GInv
<1>2. /\ pc = "scan" /\ pc' = "scan" /\ end <= n /\ end' = end + 1 /\ Eq(end, beg)
      /\ UNCHANGED <<n, addr, data, groups, beg, probe>>
  BY DEF Extend
<1>3. GroupTypeOK'
  <2>1. end' \in beg + 1 .. n + 1 /\ probe' \in 2 .. n + 1
    BY <1>1, <1>2, Bounds DEF GroupTypeOK
  <2>2. QED
    BY <1>1, <1>2, <2>1, LooksOn
<1>4. Uniform'
  BY <1>1, <1>2, Bounds DEF Uniform, Eq, AddrAt
<1>5. Passed'
  BY <1>2 DEF Passed
<1>6. QED
  BY <1>2, <1>3, <1>4, <1>5, SameGroups DEF GInv

LEMMA SearchGInv == GInv /\ Search => GInv'
<1> SUFFICES ASSUME GInv, Search PROVE GInv'
  OBVIOUS
<1>1. GroupTypeOK /\ Uniform
  BY DEF GInv
<1>2. /\ pc = "scan" /\ pc' = "probe" /\ end <= n /\ probe' = end + 1 /\ ~Eq(end, beg)
      /\ UNCHANGED <<n, addr, data, groups, beg, end>>
  BY DEF Search
<1>3. GroupTypeOK'
  <2>1. end' \in beg + 1 .. n + 1 /\ probe' \in 2 .. n + 1
    BY <1>1, <1>2, Bounds DEF GroupTypeOK
  <2>2. QED
    BY <1>1, <1>2, <2>1, LooksOn
<1>4. Uniform'
  BY <1>1, <1>2 DEF Uniform, Eq, AddrAt
<1>5. Passed'
  <2>1. \A i \in end .. end : ~Eq(i, beg)'
    BY <1>1, <1>2, Bounds DEF Eq, AddrAt
  <2>2. QED
    BY <1>1, <1>2, <2>1, Bounds DEF Passed
<1>6. QED
  BY <1>2, <1>3, <1>4, <1>5, SameGroups DEF GInv

LEMMA PassGInv == GInv /\ Pass => GInv'
<1> SUFFICES ASSUME GInv, Pass PROVE GInv'
  OBVIOUS
<1>1. GroupTypeOK /\ Uniform /\ Passed
  BY DEF GInv
<1>2. /\ pc = "probe" /\ pc' = "probe" /\ probe <= n /\ probe' = probe + 1
      /\ ~Eq(probe, beg)
      /\ UNCHANGED <<n, addr, data, groups, beg, end>>
  BY DEF Pass
<1>3. GroupTypeOK'
  <2>1. end' \in beg + 1 .. n + 1 /\ probe' \in 2 .. n + 1
    BY <1>1, <1>2, Bounds DEF GroupTypeOK
  <2>2. QED
    BY <1>1, <1>2, <2>1, LooksOn
<1>4. Uniform'
  BY <1>1, <1>2 DEF Uniform, Eq, AddrAt
<1>5. Passed'
  <2>1. end < probe /\ \A i \in end .. probe - 1 : ~Eq(i, beg)
    BY <1>1, <1>2 DEF Passed
  <2>2. ASSUME NEW i \in end .. probe PROVE ~Eq(i, beg)
    BY <1>1, <1>2, <2>1, <2>2, Bounds
  <2>3. \A i \in end .. probe : ~Eq(i, beg)'
    BY <1>2, <2>2 DEF Eq, AddrAt
  <2>4. QED
    BY <1>1, <1>2, <2>1, <2>3, Bounds DEF Passed
<1>6. QED
  BY <1>2, <1>3, <1>4, <1>5, SameGroups DEF GInv

\* The swap touches no finished group, and puts behind the look-out what does
\* not belong to the group at hand.
LEMMA FetchGInv == GInv /\ Fetch => GInv'
<1> SUFFICES ASSUME GInv, Fetch PROVE GInv'
  OBVIOUS
<1>1. /\ GroupTypeOK /\ Permuted /\ GroupsUniform /\ Uniform /\ Passed
      /\ Apart /\ Adjoining /\ Covered /\ Whole /\ Behind /\ Ascending
  BY DEF GInv
<1>2. /\ pc = "probe" /\ pc' = "probe" /\ probe <= n /\ end' = end + 1 /\ probe' = probe + 1
      /\ Eq(probe, beg) /\ UNCHANGED <<n, addr, groups, beg>>
  BY DEF Fetch
<1>3. end < probe /\ \A i \in end .. probe - 1 : ~Eq(i, beg)
  BY <1>1, <1>2 DEF Passed
<1>4. /\ n \in Int /\ beg \in Int /\ end \in Int /\ probe \in Int
      /\ 1 <= beg /\ beg < end /\ end < probe /\ probe <= n
  BY <1>1, <1>2, <1>3, Bounds
<1>5. /\ data' \in [1 .. n -> 1 .. n] /\ data'[end] = data[probe] /\ data'[probe] = data[end]
      /\ \A i \in 1 .. n : i # end /\ i # probe => data'[i] = data[i]
  <2>1. end \in 1 .. n /\ probe \in 1 .. n
    BY <1>4
  <2>2. /\ data' = [data EXCEPT ![end] = data[probe], ![probe] = data[end]]
        /\ data \in [1 .. n -> 1 .. n]
    BY <1>1, Bounds DEF Fetch
  <2>3. QED
    BY <1>4, <2>1, <2>2, Swapped
<1>6. GroupTypeOK'
  <2>1. end' \in beg' + 1 .. n' + 1 /\ probe' \in 2 .. n' + 1
    BY <1>2, <1>4
  <2>2. data' \in [1 .. n' -> 1 .. n'] /\ addr' \in [1 .. n' -> Addr]
    BY <1>1, <1>2, <1>5 DEF GroupTypeOK, Position
  <2>3. /\ n' \in 1 .. MaxPkts /\ beg' \in 1 .. n' /\ pc' \in {"scan", "probe", "done"}
        /\ groups' \in Seq((1 .. n') \X (2 .. n' + 1))
    BY <1>1, <1>2 DEF GroupTypeOK
  <2>4. QED
    BY <2>1, <2>2, <2>3 DEF GroupTypeOK, Position
<1>7. Permuted'
  <2>1. ASSUME NEW i \in 1 .. n, NEW j \in 1 .. n, data'[i] = data'[j] PROVE i = j
    <3>1. end \in 1 .. n /\ probe \in 1 .. n /\ end # probe
      BY <1>2, <1>4
    <3>2. \A k, l \in 1 .. n : data[k] = data[l] => k = l
      BY <1>1 DEF Permuted, Position
    <3>3. QED
      BY <1>5, <2>1, <3>1, <3>2
  <2>2. QED
    BY <1>2, <2>1 DEF Permuted, Position
<1>8. addr'[data'[end]] = AddrAt(beg) /\ addr'[data'[probe]] = AddrAt(end)
  BY <1>2, <1>5 DEF Eq, AddrAt
<1>9. \A i \in 1 .. n : i # end /\ i # probe => AddrAt(i)' = AddrAt(i)
  BY <1>2, <1>5 DEF AddrAt
<1>10. AddrAt(beg)' = AddrAt(beg)
  BY <1>2, <1>4, <1>9
<1>11. Uniform'
  <2>1. ASSUME NEW i \in beg .. end PROVE addr'[data'[i]] = AddrAt(beg)
    <3>1. CASE i = end
      BY <1>8, <3>1
    <3>2. CASE i # end
      <4>1. i \in beg .. end - 1 /\ i \in 1 .. n /\ i # probe
        BY <1>2, <1>4, <3>2
      <4>2. AddrAt(i) = AddrAt(beg)
        BY <1>1, <4>1 DEF Uniform, Eq
      <4>3. QED
        BY <1>9, <3>2, <4>1, <4>2 DEF AddrAt
    <3>3. QED
      BY <3>1, <3>2
  <2>2. \A i \in beg' .. end' - 1 : addr'[data'[i]] = addr'[data'[beg']]
    <3>1. end' - 1 = end /\ beg' = beg
      BY <1>2, <1>4
    <3>2. QED
      BY <1>10, <2>1, <3>1 DEF AddrAt
  <2>3. QED
    BY <2>2 DEF Uniform, Eq, AddrAt
<1>12. Passed'
  <2>1. ASSUME NEW i \in end + 1 .. probe PROVE addr'[data'[i]] # AddrAt(beg)
    <3>1. CASE i = probe
      <4>1. AddrAt(end) # AddrAt(beg)
        BY <1>3, <1>4 DEF Eq
      <4>2. QED
        BY <1>8, <3>1, <4>1
    <3>2. CASE i # probe
      <4>1. i \in end .. probe - 1 /\ i \in 1 .. n /\ i # end
        BY <1>2, <1>4, <3>2
      <4>2. QED
        BY <1>3, <1>9, <3>2, <4>1 DEF Eq, AddrAt
    <3>3. QED
      BY <3>1, <3>2
  <2>2. \A i \in end' .. probe' - 1 : addr'[data'[i]] # addr'[data'[beg']]
    <3>1. end' = end + 1 /\ probe' - 1 = probe /\ beg' = beg
      BY <1>2, <1>4
    <3>2. QED
      BY <1>10, <2>1, <3>1 DEF AddrAt
  <2>3. end' < probe'
    BY <1>2, <1>4
  <2>4. QED
    BY <2>2, <2>3 DEF Passed, Eq, AddrAt
<1>13. Apart'
  <2>1. ASSUME NEW i \in 1 .. beg - 1, NEW j \in beg .. n
        PROVE  addr'[data'[i]] # addr'[data'[j]]
    <3>1. i \in 1 .. n /\ i # end /\ i # probe
      BY <1>4
    <3>2. j \in 1 .. n /\ end \in beg .. n /\ probe \in beg .. n
      BY <1>2, <1>4
    <3>3. addr'[data'[i]] = AddrAt(i)
      BY <1>9, <3>1 DEF AddrAt
    <3>4. PICK k \in beg .. n : addr'[data'[j]] = AddrAt(k)
      <4>1. CASE j = end
        <5>1. beg \in beg .. n
          BY <1>2, <1>4
        <5>2. QED
          BY <1>8, <4>1, <5>1
      <4>2. CASE j = probe
        BY <1>8, <3>2, <4>2
      <4>3. CASE j # end /\ j # probe
        BY <1>9, <3>2, <4>3 DEF AddrAt
      <4>4. QED
        BY <4>1, <4>2, <4>3
    <3>5. QED
      BY <1>1, <3>3, <3>4 DEF Apart, Eq
  <2>2. QED
    BY <1>2, <2>1 DEF Apart, Eq, AddrAt
<1>14. Adjoining' /\ Covered' /\ Behind' /\ Ascending'
  BY <1>1, <1>2 DEF Adjoining, Covered, Behind, Ascending, In, Position
<1>15. \A g \in 1 .. Len(groups) : \A i \in 1 .. n :
          In(i, g) => i < beg /\ groups[g][1] \in 1 .. beg - 1
  <2>1. ASSUME NEW g \in 1 .. Len(groups), NEW i \in 1 .. n, In(i, g)
        PROVE  i < beg /\ groups[g][1] \in 1 .. beg - 1
    <3>1. groups[g] \in (1 .. n) \X (2 .. n + 1)
      BY <1>1, Bounds
    <3>2. groups[g][2] <= beg
      BY <1>1, <1>2 DEF Behind
    <3>3. groups[g][1] \in 1 .. n /\ groups[g][2] \in 2 .. n + 1
      BY <3>1
    <3>4. groups[g][1] <= i /\ i < groups[g][2]
      BY <2>1 DEF In
    <3>5. QED
      BY <1>4, <3>2, <3>3, <3>4, Inside
  <2>2. QED
    BY <2>1
<1>16. \A i \in 1 .. beg - 1 : i \in 1 .. n /\ addr'[data'[i]] = AddrAt(i)
  <2>1. \A i \in 1 .. beg - 1 : i \in 1 .. n /\ i # end /\ i # probe
    BY <1>4
  <2>2. QED
    BY <1>9, <2>1 DEF AddrAt
<1>17. GroupsUniform'
  <2>1. ASSUME NEW g \in 1 .. Len(groups), NEW i \in 1 .. n, In(i, g)
        PROVE  addr'[data'[i]] = addr'[data'[groups[g][1]]]
    <3>1. i \in 1 .. beg - 1 /\ groups[g][1] \in 1 .. beg - 1
      BY <1>4, <1>15, <2>1
    <3>2. AddrAt(i) = AddrAt(groups[g][1])
      BY <1>1, <2>1 DEF GroupsUniform, Position
    <3>3. /\ addr'[data'[i]] = AddrAt(i)
          /\ addr'[data'[groups[g][1]]] = AddrAt(groups[g][1])
      BY <1>16, <3>1
    <3>4. QED
      BY <3>2, <3>3
  <2>2. ASSUME NEW g \in 1 .. Len(groups)
        PROVE  /\ groups[g][1] < groups[g][2]
               /\ groups[g][1] = (IF g = 1 THEN 1 ELSE groups[g - 1][2])
               /\ \A i \in 1 .. n : In(i, g) => addr'[data'[i]] = addr'[data'[groups[g][1]]]
    BY <1>1, <2>1 DEF GroupsUniform
  <2>3. QED
    BY <1>2, <2>2 DEF GroupsUniform, In, Position, AddrAt
<1>18. Whole'
  <2>1. ASSUME NEW g \in 1 .. Len(groups), NEW i \in 1 .. n, NEW j \in 1 .. n,
               In(i, g), addr'[data'[i]] = addr'[data'[j]]
        PROVE  In(j, g)
    <3>1. i \in 1 .. beg - 1
      BY <1>4, <1>15, <2>1
    <3>2. ~(j \in beg .. n)
      BY <1>2, <1>13, <2>1, <3>1 DEF Apart, Eq, AddrAt
    <3>3. j \in 1 .. beg - 1
      BY <1>4, <3>2
    <3>4. AddrAt(i) = AddrAt(j)
      BY <1>16, <2>1, <3>1, <3>3
    <3>5. QED
      BY <1>1, <2>1, <3>4 DEF Whole, Position, Eq
  <2>2. QED
    BY <1>2, <2>1 DEF Whole, In, Position, Eq, AddrAt
<1>19. QED
  BY <1>6, <1>7, <1>11, <1>12, <1>13, <1>14, <1>17, <1>18 DEF GInv

\* Adding the group at hand, when the rest of the batch has other addresses.
LEMMA NewGroup ==
  ASSUME GInv, pc # "done", groups' = Append(groups, <<beg, end>>),
         UNCHANGED <<n, addr, data>>,
         \A i \in end .. n : ~Eq(i, beg)
  PROVE  /\ GroupsUniform' /\ Whole' /\ Permuted' /\ Ascending'
         /\ \A i \in 1 .. end - 1 : \E g \in 1 .. Len(groups') : In(i, g)'
         /\ \A i \in 1 .. end - 1, j \in end .. n : ~Eq(i, j)
         /\ groups'[Len(groups')] = <<beg, end>> /\ groups' # <<>>
         /\ \A g \in 1 .. Len(groups') : groups'[g][2] <= end
         /\ groups' \in Seq((1 .. n) \X (2 .. n + 1))
<1> DEFINE T == (1 .. n) \X (2 .. n + 1)
<1>1. /\ GroupTypeOK /\ Permuted /\ GroupsUniform /\ Uniform
      /\ Apart /\ Adjoining /\ Covered /\ Whole /\ Behind /\ Ascending
  BY DEF GInv
<1>2. /\ n \in Int /\ beg \in Int /\ end \in Int /\ groups \in Seq(T)
      /\ 1 <= beg /\ beg < end /\ end <= n + 1 /\ beg <= n
  BY <1>1, Bounds
<1>3. <<beg, end>> \in T
  BY <1>2
<1>0. PICK L \in Nat : L = Len(groups)
  BY <1>2
<1>4. /\ groups' \in Seq(T) /\ L \in Nat /\ Len(groups') = L + 1
      /\ groups'[L + 1] = <<beg, end>> /\ groups' # <<>>
      /\ \A g \in 1 .. L : groups'[g] = groups[g] /\ groups[g] \in T
  <2> HIDE DEF T
  <2>1. QED
    BY <1>0, <1>2, <1>3, Appended
<1>5. \A g \in 1 .. L : /\ groups[g][1] \in 1 .. n /\ groups[g][2] \in 2 .. n + 1
                         /\ groups[g][2] <= beg
  BY <1>0, <1>1, <1>4 DEF Behind
<1>6. \A i \in 1 .. n : AddrAt(i)' = AddrAt(i)
  BY DEF AddrAt
<1>7. /\ \A g \in 1 .. L : \A i \in 1 .. n : In(i, g)' <=> In(i, g)
      /\ \A i \in 1 .. n : In(i, L + 1)' <=> (beg <= i /\ i < end)
  <2>1. groups'[L + 1][1] = beg /\ groups'[L + 1][2] = end
    BY <1>4
  <2>2. QED
    BY <1>4, <2>1 DEF In
<1>8. \A i \in beg .. end - 1 : i \in 1 .. n /\ AddrAt(i) = AddrAt(beg)
  BY <1>1, <1>2 DEF Uniform, Eq
<1>9. \A i \in 1 .. end - 1, j \in end .. n : AddrAt(i) # AddrAt(j)
  <2>1. SUFFICES ASSUME NEW i \in 1 .. end - 1, NEW j \in end .. n
                 PROVE  AddrAt(i) # AddrAt(j)
    OBVIOUS
  <2>2. CASE i < beg
    <3>1. i \in 1 .. beg - 1 /\ j \in beg .. n
      BY <1>2, <2>2
    <3>2. QED
      BY <1>1, <3>1 DEF Apart, Eq
  <2>3. CASE beg <= i
    <3>1. i \in beg .. end - 1
      BY <1>2, <2>3
    <3>2. QED
      BY <1>8, <3>1 DEF Eq
  <2>4. QED
    BY <1>2, <2>2, <2>3
<1>10. GroupsUniform'
  <2>1. ASSUME NEW g \in 1 .. L
        PROVE  /\ groups'[g][1] < groups'[g][2]
               /\ groups'[g][1] = (IF g = 1 THEN 1 ELSE groups'[g - 1][2])
               /\ \A i \in 1 .. n : In(i, g)' => AddrAt(i)' = addr'[data'[groups'[g][1]]]
    <3>1. /\ groups[g][1] < groups[g][2]
          /\ groups[g][1] = (IF g = 1 THEN 1 ELSE groups[g - 1][2])
          /\ \A i \in 1 .. n : In(i, g) => AddrAt(i) = addr[data[groups[g][1]]]
      BY <1>0, <1>1 DEF GroupsUniform, Position, AddrAt
    <3>2. groups'[g] = groups[g] /\ (g # 1 => groups'[g - 1] = groups[g - 1])
      BY <1>4
    <3>3. \A i \in 1 .. n : In(i, g)' => AddrAt(i)' = addr'[data'[groups'[g][1]]]
      BY <1>6, <1>7, <3>1, <3>2
    <3>4. QED
      BY <3>1, <3>2, <3>3
  <2>2. /\ groups'[L + 1][1] = beg /\ groups'[L + 1][2] = end
        /\ \A i \in 1 .. n : In(i, L + 1)' => AddrAt(i)' = addr'[data'[beg]]
    <3>1. groups'[L + 1][1] = beg /\ groups'[L + 1][2] = end
      BY <1>4
    <3>2. ASSUME NEW i \in 1 .. n, In(i, L + 1)' PROVE AddrAt(i)' = addr'[data'[beg]]
      <4>1. i \in beg .. end - 1
        BY <1>2, <1>7, <3>2
      <4>2. QED
        BY <1>6, <1>8, <4>1 DEF AddrAt
    <3>3. QED
      BY <3>1, <3>2
  <2>3. beg = IF L = 0 THEN 1 ELSE groups'[L][2]
    <3>1. CASE L = 0
      <4>1. groups = <<>>
        <5> HIDE DEF T
        <5>1. QED
          BY <1>0, <1>2, <3>1, NoEntry
      <4>2. QED
        BY <1>1, <3>1, <4>1 DEF Adjoining
    <3>2. CASE L # 0
      <4>1. groups # <<>> /\ L \in 1 .. L
        BY <1>0, <1>4, <3>2
      <4>2. QED
        BY <1>0, <1>1, <1>4, <4>1 DEF Adjoining
    <3>3. QED
      BY <3>1, <3>2
  <2>4. ASSUME NEW g \in 1 .. L + 1
        PROVE  /\ groups'[g][1] < groups'[g][2]
               /\ groups'[g][1] = (IF g = 1 THEN 1 ELSE groups'[g - 1][2])
               /\ \A i \in 1 .. n : In(i, g)' => AddrAt(i)' = addr'[data'[groups'[g][1]]]
    <3>1. CASE g \in 1 .. L
      BY <2>1, <3>1
    <3>2. CASE g = L + 1
      <4>1. groups'[g][1] = beg /\ groups'[g][2] = end /\ beg < end
        BY <1>2, <2>2, <3>2
      <4>2. beg = IF g = 1 THEN 1 ELSE groups'[g - 1][2]
        <5>1. g - 1 = L /\ (g = 1 <=> L = 0)
          BY <1>4, <3>2
        <5>2. QED
          BY <2>3, <5>1
      <4>3. \A i \in 1 .. n : In(i, g)' => AddrAt(i)' = addr'[data'[beg]]
        BY <2>2, <3>2
      <4>4. QED
        BY <4>1, <4>2, <4>3
    <3>3. QED
      BY <1>4, <3>1, <3>2
  <2>5. QED
    BY <1>4, <2>4 DEF GroupsUniform, Position, AddrAt
<1>11. Whole'
  <2>1. ASSUME NEW g \in 1 .. L + 1, NEW i \in 1 .. n, NEW j \in 1 .. n,
               In(i, g)', AddrAt(i)' = AddrAt(j)'
        PROVE  In(j, g)'
    <3>1. AddrAt(i) = AddrAt(j)
      BY <1>6, <2>1
    <3>2. CASE g \in 1 .. L
      BY <1>0, <1>1, <1>7, <2>1, <3>1, <3>2 DEF Whole, Position, Eq
    <3>3. CASE g = L + 1
      <4>1. beg <= i /\ i < end
        BY <1>7, <2>1, <3>3
      <4>2. ~(end <= j)
        <5>1. i \in 1 .. end - 1
          BY <1>2, <4>1
        <5>2. QED
          BY <1>2, <1>9, <3>1, <5>1
      <4>3. ~(j < beg)
        <5>1. i \in beg .. n
          BY <1>2, <4>1
        <5>2. j < beg => j \in 1 .. beg - 1
          BY <1>2
        <5>3. QED
          BY <1>1, <3>1, <5>1, <5>2 DEF Apart, Eq
      <4>4. QED
        BY <1>2, <1>7, <3>3, <4>2, <4>3
    <3>4. QED
      BY <1>4, <3>2, <3>3
  <2>2. QED
    BY <1>4, <2>1 DEF Whole, Position, Eq
<1>12. \A i \in 1 .. end - 1 : \E g \in 1 .. Len(groups') : In(i, g)'
  <2>1. SUFFICES ASSUME NEW i \in 1 .. end - 1
                 PROVE  \E g \in 1 .. L + 1 : In(i, g)'
    BY <1>4
  <2>2. CASE i < beg
    <3>1. i \in 1 .. n
      BY <1>2
    <3>2. PICK g \in 1 .. L : In(i, g)
      BY <1>0, <1>1, <2>2, <3>1 DEF Covered, Position
    <3>3. g \in 1 .. L + 1 /\ In(i, g)'
      BY <1>4, <1>7, <3>1, <3>2
    <3>4. QED
      BY <3>3
  <2>3. CASE beg <= i
    <3>1. In(i, L + 1)' /\ L + 1 \in 1 .. L + 1
      BY <1>2, <1>4, <1>7, <2>3
    <3>2. QED
      BY <3>1
  <2>4. QED
    BY <1>2, <2>2, <2>3
<1>13. \A g \in 1 .. Len(groups') : groups'[g][2] <= end
  <2>1. ASSUME NEW g \in 1 .. L + 1 PROVE groups'[g][2] <= end
    <3>1. CASE g \in 1 .. L
      <4>1. groups'[g][2] \in 2 .. n + 1 /\ groups'[g][2] <= beg
        BY <1>4, <1>5, <3>1
      <4>2. \A x \in 2 .. n + 1 : x <= beg => x <= end
        BY <1>2
      <4>3. QED
        BY <4>1, <4>2, Zenon
    <3>2. CASE g = L + 1
      <4>1. groups'[g][2] = end
        BY <1>4, <3>2
      <4>2. end <= end
        BY <1>2
      <4>3. QED
        BY <4>1, <4>2, Zenon
    <3>3. QED
      BY <1>4, <3>1, <3>2
  <2>2. QED
    BY <1>4, <2>1
<1>14. Permuted'
  BY <1>1 DEF Permuted, Position
<1>15. Ascending'
  <2>1. ASSUME NEW g \in 1 .. L + 1, NEW h \in 1 .. L + 1, g < h
        PROVE  groups'[g][2] <= groups'[h][1]
    <3>1. g \in 1 .. L /\ groups'[g] = groups[g]
      BY <1>4, <2>1
    <3>2. CASE h = L + 1
      BY <1>4, <1>5, <3>1, <3>2
    <3>3. CASE h # L + 1
      <4>1. h \in 1 .. L /\ groups'[h] = groups[h]
        BY <1>4, <3>3
      <4>2. QED
        BY <1>0, <1>1, <2>1, <3>1, <4>1 DEF Ascending
    <3>4. QED
      BY <3>2, <3>3
  <2>2. QED
    BY <1>4, <2>1 DEF Ascending
<1>16. QED
  BY <1>4, <1>9, <1>10, <1>11, <1>12, <1>13, <1>14, <1>15 DEF Eq

LEMMA PushGInv == GInv /\ Push => GInv'
<1> SUFFICES ASSUME GInv, Push PROVE GInv'
  OBVIOUS
<1>1. GroupTypeOK /\ Passed
  BY DEF GInv
<1>2. /\ pc = "probe" /\ n < probe /\ groups' = Append(groups, <<beg, end>>) /\ pc' = "scan"
      /\ UNCHANGED <<n, addr, data, probe>> /\ beg' = end /\ end' = end + 1
  BY <1>1, Bounds DEF Push
<1>3. /\ n \in Int /\ beg \in Int /\ end \in Int /\ 1 <= beg /\ beg < end
      /\ probe = n + 1
  <2>1. /\ n \in Int /\ beg \in Int /\ end \in Int /\ probe \in Int
        /\ 1 <= beg /\ beg < end /\ probe <= n + 1
    BY <1>1, Bounds
  <2>2. n < probe
    BY <1>2
  <2>3. QED
    BY <2>1, <2>2
<1>4. end <= n /\ \A i \in end .. n : ~Eq(i, beg)
  BY <1>1, <1>2, <1>3 DEF Passed
<1>5. /\ GroupsUniform' /\ Whole' /\ Permuted' /\ Ascending'
      /\ \A i \in 1 .. end - 1 : \E g \in 1 .. Len(groups') : In(i, g)'
      /\ \A i \in 1 .. end - 1, j \in end .. n : ~Eq(i, j)
      /\ groups'[Len(groups')] = <<beg, end>> /\ groups' # <<>>
      /\ \A g \in 1 .. Len(groups') : groups'[g][2] <= end
      /\ groups' \in Seq((1 .. n) \X (2 .. n + 1))
  BY <1>2, <1>4, NewGroup
<1>6. GroupTypeOK'
  <2>1. beg' \in 1 .. n' /\ end' \in beg' + 1 .. n' + 1 /\ probe' \in 2 .. n' + 1
    BY <1>2, <1>3, <1>4
  <2>2. /\ n' \in 1 .. MaxPkts /\ addr' \in [1 .. n' -> Addr] /\ data' \in [1 .. n' -> 1 .. n']
        /\ pc' \in {"scan", "probe", "done"}
    BY <1>1, <1>2 DEF GroupTypeOK, Position
  <2>3. groups' \in Seq((1 .. n') \X (2 .. n' + 1))
    BY <1>2, <1>5
  <2>4. QED
    BY <2>1, <2>2, <2>3 DEF GroupTypeOK, Position
<1>7. Uniform' /\ Passed'
  BY <1>2, <1>3 DEF Uniform, Passed, Eq, AddrAt
<1>8. Apart'
  BY <1>2, <1>5 DEF Apart, Eq, AddrAt
<1>9. Adjoining' /\ Behind'
  BY <1>2, <1>5 DEF Adjoining, Behind
<1>10. Covered'
  <2>1. ASSUME NEW i \in 1 .. n, i < end PROVE \E g \in 1 .. Len(groups') : In(i, g)'
    <3>1. i \in 1 .. end - 1
      BY <1>3, <2>1
    <3>2. QED
      BY <1>5, <3>1
  <2>2. QED
    BY <1>2, <2>1 DEF Covered, Position
<1>11. QED
  BY <1>5, <1>6, <1>7, <1>8, <1>9, <1>10 DEF GInv

LEMMA FinishGInv == GInv /\ Finish => GInv'
<1> SUFFICES ASSUME GInv, Finish PROVE GInv'
  OBVIOUS
<1>1. GroupTypeOK /\ Uniform /\ Apart
  BY DEF GInv
<1>2. /\ pc = "scan" /\ n < end /\ groups' = Append(groups, <<beg, end>>) /\ pc' = "done"
      /\ UNCHANGED <<n, addr, data, beg, end, probe>>
  BY <1>1, Bounds DEF Finish
<1>3. n \in Int /\ end = n + 1
  BY <1>1, <1>2, Bounds
<1>4. \A i \in end .. n : ~Eq(i, beg)
  BY <1>3
<1>5. /\ GroupsUniform' /\ Whole' /\ Permuted' /\ Ascending'
      /\ \A i \in 1 .. end - 1 : \E g \in 1 .. Len(groups') : In(i, g)'
      /\ groups' \in Seq((1 .. n) \X (2 .. n + 1))
  BY <1>2, <1>4, NewGroup
<1>6. GroupTypeOK'
  BY <1>1, <1>2, <1>5 DEF GroupTypeOK, Position
<1>7. Uniform' /\ Passed' /\ Apart' /\ Adjoining' /\ Behind'
  BY <1>1, <1>2 DEF Uniform, Passed, Apart, Adjoining, Behind, Eq, AddrAt
<1>8. Covered'
  BY <1>2, <1>3, <1>5 DEF Covered, Position
<1>9. QED
  BY <1>5, <1>6, <1>7, <1>8 DEF GInv

LEMMA GroupsNext == GInv /\ [GroupNext]_groupVars => GInv'
<1>1. GInv /\ UNCHANGED groupVars => GInv'
  <2> SUFFICES ASSUME GInv, UNCHANGED groupVars PROVE GInv'
    OBVIOUS
  <2>1. GroupTypeOK' /\ Permuted' /\ GroupsUniform'
    BY DEF groupVars, GInv, GroupTypeOK, Permuted, GroupsUniform, In, AddrAt, Position
  <2>2. Uniform' /\ Passed' /\ Apart' /\ Adjoining'
    BY DEF groupVars, GInv, Uniform, Passed, Apart, Adjoining, Eq, AddrAt
  <2>3. Covered' /\ Whole' /\ Behind' /\ Ascending'
    BY DEF groupVars, GInv, Covered, Whole, Behind, Ascending, In, Eq, AddrAt, Position
  <2>4. QED
    BY <2>1, <2>2, <2>3 DEF GInv
<1>2. QED
  BY <1>1, ExtendGInv, SearchGInv, FetchGInv, PassGInv, PushGInv, FinishGInv DEF GroupNext

LEMMA GroupInvariant == GroupSpec => []GInv
<1>1. QED
  BY GroupsAtFirst, GroupsNext, PTL DEF GroupSpec

-----------------------------------------------------------------------------
(* For every batch of any size, no index of group_by_inner leaves the      *)
(* batch (middle.rs:81-106).                                               *)
THEOREM IndicesInBatch == GroupSpec => []GroupTypeOK
<1>1. GInv => GroupTypeOK
  BY DEF GInv
<1>2. QED
  BY <1>1, GroupInvariant, PTL

(* The swaps lose no packet and repeat none (middle.rs:97).                *)
THEOREM NothingLost == GroupSpec => []Permuted
<1>1. GInv => Permuted
  BY DEF GInv
<1>2. QED
  BY <1>1, GroupInvariant, PTL

(* Every group is a non-empty run of one address, next to the last one     *)
(* (middle.rs:87-105).                                                     *)
THEOREM EveryGroupUniform == GroupSpec => []GroupsUniform
<1>1. GInv => GroupsUniform
  BY DEF GInv
<1>2. QED
  BY <1>1, GroupInvariant, PTL

(* When the loops are done the packets of an address, and no others, are   *)
(* in one group: each client is looked up once per batch.                  *)
THEOREM OneLookupPerClient == GroupSpec => []OneGroupPerAddress
<1>1. GInv => OneGroupPerAddress
  <2>1. SUFFICES ASSUME GInv, pc = "done"
                 PROVE  /\ \A i \in Position : \E g \in 1 .. Len(groups) : In(i, g)
                        /\ \A i, j \in Position : \A g \in 1 .. Len(groups) :
                              AddrAt(i) = AddrAt(j) => (In(i, g) <=> In(j, g))
    BY DEF OneGroupPerAddress
  <2>2. \A i \in Position : \E g \in 1 .. Len(groups) : In(i, g)
    BY <2>1 DEF GInv, Covered
  <2>3. \A i, j \in Position : \A g \in 1 .. Len(groups) :
           AddrAt(i) = AddrAt(j) => (In(i, g) <=> In(j, g))
    BY <2>1 DEF GInv, Whole, Eq
  <2>4. QED
    BY <2>2, <2>3
<1>2. QED
  BY <1>1, GroupInvariant, PTL

(* What UdpRelay takes from the grouping: its groups are the sets From(c), *)
(* one for each client with a packet in the batch, each met once.          *)
Members(g) == {data[i] : i \in {j \in Position : In(j, g)}}

PacketsFrom(a) == {p \in Position : addr[p] = a}

GroupsAreFrom ==
  pc = "done" =>
    /\ \A p \in Position : \E g \in 1 .. Len(groups) : Members(g) = PacketsFrom(addr[p])
    /\ \A g \in 1 .. Len(groups) : \E p \in Position : Members(g) = PacketsFrom(addr[p])
    /\ \A g, h \in 1 .. Len(groups) : g # h => Members(g) \cap Members(h) = {}

\* A swap loses no packet, so each still has a position.
LEMMA Placed ==
  ASSUME GInv, NEW p \in Position
  PROVE  \E i \in Position : data[i] = p
<1>1. data \in [Position -> Position] /\ n \in Int /\ Permuted
  BY DEF GInv, GroupTypeOK
<1>2. data \in Injection(Position, Position)
  BY <1>1 DEF Permuted, Injection, IsInjective
<1>3. IsFiniteSet(Position)
  BY <1>1, FS_Interval DEF Position
<1>4. data \in Surjection(Position, Position)
  BY <1>2, <1>3, FS_Injection
<1>5. QED
  BY <1>4 DEF Surjection

\* A group of a finished batch is what its packets' sender sent.
LEMMA GroupOf ==
  ASSUME GInv, NEW i \in Position, NEW g \in 1 .. Len(groups), In(i, g)
  PROVE  Members(g) = PacketsFrom(AddrAt(i))
<1>1. data \in [Position -> Position] /\ GroupsUniform /\ Whole
  BY DEF GInv, GroupTypeOK
<1>2. ASSUME NEW j \in Position, In(j, g)
      PROVE  data[j] \in PacketsFrom(AddrAt(i))
  <2>1. AddrAt(j) = AddrAt(groups[g][1]) /\ AddrAt(i) = AddrAt(groups[g][1])
    BY <1>1, <1>2 DEF GroupsUniform
  <2>2. QED
    BY <1>1, <2>1 DEF PacketsFrom, AddrAt
<1>3. ASSUME NEW p \in PacketsFrom(AddrAt(i))
      PROVE  p \in Members(g)
  <2>1. PICK j \in Position : data[j] = p
    BY Placed DEF PacketsFrom
  <2>2. Eq(i, j)
    BY <2>1 DEF PacketsFrom, Eq, AddrAt
  <2>3. In(j, g)
    BY <1>1, <2>2 DEF Whole
  <2>4. QED
    BY <2>1, <2>3 DEF Members
<1>4. QED
  BY <1>2, <1>3 DEF Members

\* UdpRelay does not model the swaps: it lets associate_and_relay take, in any
\* order, the packets of one client after those of another.  That is what
\* group_by_inner gives it (middle.rs:64-106): each client's packets of the
\* batch are the members of one group, and of no other.
THEOREM GroupsServeClients == GroupSpec => []GroupsAreFrom
<1>1. GInv => GroupsAreFrom
  <2> SUFFICES ASSUME GInv, pc = "done" PROVE GroupsAreFrom
    BY DEF GroupsAreFrom
  <2>1. \A p \in Position : \E g \in 1 .. Len(groups) : Members(g) = PacketsFrom(addr[p])
    <3>1. ASSUME NEW p \in Position
          PROVE  \E g \in 1 .. Len(groups) : Members(g) = PacketsFrom(addr[p])
      <4>1. PICK i \in Position : data[i] = p
        BY Placed
      <4>2. PICK g \in 1 .. Len(groups) : In(i, g)
        BY DEF GInv, Covered
      <4>3. Members(g) = PacketsFrom(AddrAt(i))
        BY <4>2, GroupOf
      <4>4. QED
        BY <4>1, <4>3 DEF AddrAt
    <3>2. QED
      BY <3>1
  <2>2. \A g \in 1 .. Len(groups) : \E p \in Position : Members(g) = PacketsFrom(addr[p])
    <3>1. ASSUME NEW g \in 1 .. Len(groups)
          PROVE  \E p \in Position : Members(g) = PacketsFrom(addr[p])
      <4> DEFINE i == groups[g][1]
      <4>1. i \in Position /\ In(i, g)
        <5>1. groups[g] \in (1 .. n) \X (2 .. n + 1)
          BY DEF GInv, GroupTypeOK
        <5>2. groups[g][1] \in 1 .. n /\ groups[g][1] < groups[g][2]
          BY <5>1 DEF GInv, GroupsUniform
        <5>3. i <= i
          BY <5>2
        <5>4. QED
          BY <5>2, <5>3 DEF In, Position
      <4>2. Members(g) = PacketsFrom(AddrAt(i))
        <5> HIDE DEF i
        <5>1. QED
          BY <4>1, GroupOf
      <4>3. data[i] \in Position
        BY <4>1 DEF GInv, GroupTypeOK
      <4>4. QED
        BY <4>2, <4>3 DEF AddrAt
    <3>2. QED
      BY <3>1
  <2>3. ASSUME NEW g \in 1 .. Len(groups), NEW h \in 1 .. Len(groups), g # h
        PROVE  Members(g) \cap Members(h) = {}
    <3>1. ASSUME NEW i \in Position, In(i, g), In(i, h)
          PROVE  FALSE
      <4>1. i \in Int /\ groups[g] \in (1 .. n) \X (2 .. n + 1)
            /\ groups[h] \in (1 .. n) \X (2 .. n + 1) /\ n \in Int
        <5>1. n \in Int /\ groups \in Seq((1 .. n) \X (2 .. n + 1))
          BY DEF GInv, GroupTypeOK
        <5>2. i \in Int
          BY DEF Position
        <5> DEFINE S == (1 .. n) \X (2 .. n + 1)
        <5> HIDE DEF S
        <5>3. groups[g] \in S /\ groups[h] \in S
          <6>1. groups \in Seq(S)
            BY <5>1 DEF S
          <6>2. QED
            BY <6>1
        <5>4. QED
          BY <5>1, <5>2, <5>3 DEF S
      <4>2. /\ groups[g][1] <= i /\ i < groups[g][2]
            /\ groups[h][1] <= i /\ i < groups[h][2]
        BY <3>1 DEF In
      <4>3. groups[g][2] <= groups[h][1] \/ groups[h][2] <= groups[g][1]
        BY <2>3 DEF GInv, Ascending
      <4>4. /\ groups[g][1] \in Int /\ groups[g][2] \in Int
            /\ groups[h][1] \in Int /\ groups[h][2] \in Int
        BY <4>1
      <4>5. QED
        BY <4>1, <4>2, <4>3, <4>4
    <3>2. \A i, j \in Position : data[i] = data[j] => i = j
      BY DEF GInv, Permuted
    <3>3. QED
      BY <3>1, <3>2 DEF Members
  <2>4. QED
    BY <2>1, <2>2, <2>3 DEF GroupsAreFrom
<1>2. QED
  BY <1>1, GroupInvariant, PTL

-----------------------------------------------------------------------------
(* UdpRelay                                                                *)

USE NobodyAssumption, BatchAssumption, ModeAssumption DEF NoSock

\* A socket is made for a packet that has left the batch, so that there are
\* never more sockets than packets.
Counted == /\ main = "recv" => batch = {}
           /\ made + Cardinality(batch) <= taken

TypeInv == UdpTypeOK /\ Counted

\* Sockets are numbered in the order of making.
Numbered == \A s \in Sock : /\ s <= made => owner[s] \in Client
                            /\ made < s => relayer[s] = "none"

\* A client's entry leads to a socket of that client's own.
OwnEntry == \A c \in Client : sockmap[c] # NoSock => owner[sockmap[c]] = c

\* Between the look-up and the insertion the client has no entry, and a relayer
\* that ends meanwhile ends early.
Pending == main = "insert" => /\ rsock = made
                              /\ rsock # NoSock
                              /\ sockmap[owner[rsock]] = NoSock
                              /\ relayer[rsock] = "gone" => rsock \in early

MapInv == Numbered /\ OwnEntry /\ Pending /\ Registered /\ NoDeadAssociation

\* A packet has arrived and is the owner's.
Belongs(p, s) == p <= arrived /\ s <= made /\ owner[s] = from[p]

\* The group at hand goes to the socket's owner, and so do the answers on their
\* way.
GroupsOwn  == main \in {"insert", "send"} =>
                  rsock # NoSock /\ \A p \in group : Belongs(p, rsock)
ThroughOwn == \A p \in Packet : through[p] # NoSock => Belongs(p, through[p])
AnswersOwn == \A s \in Sock : \A p \in replies[s] \cup held[s] : Belongs(p, s)
ReturnsOwn == \A c \in Client : \A p \in returned[c] : p <= arrived /\ from[p] = c

HomeInv == GroupsOwn /\ ThroughOwn /\ AnswersOwn /\ ReturnsOwn

UdpInv == TypeInv /\ MapInv /\ HomeInv

-----------------------------------------------------------------------------
(* Types                                                                   *)

LEMMA Lesser ==
  ASSUME NEW a \in Int, NEW b \in Int
  PROVE  Min({a, b}) \in {a, b} /\ Min({a, b}) <= a /\ Min({a, b}) <= b
BY DEF Min

LEMMA Counts ==
  ASSUME UdpTypeOK
  PROVE  /\ MaxPackets \in Nat /\ arrived \in Nat /\ taken \in Nat /\ made \in Nat
         /\ rsock \in Nat /\ rsock <= made
         /\ arrived <= MaxPackets /\ taken <= arrived /\ made <= taken
BY DEF UdpTypeOK

LEMMA BatchFinite ==
  ASSUME UdpTypeOK
  PROVE  IsFiniteSet(batch) /\ Cardinality(batch) \in Nat
<1>1. IsFiniteSet(1 .. taken)
  BY Counts, FS_Interval
<1>2. batch \subseteq 1 .. taken
  BY DEF UdpTypeOK
<1>3. QED
  BY <1>1, <1>2, FS_Subset, FS_CardinalityType

\* Taking a group out of the batch makes it smaller.
LEMMA GroupLeaves ==
  ASSUME UdpTypeOK, NEW c \in Client, From(c) # {}
  PROVE  /\ From(c) \subseteq batch
         /\ Cardinality(batch \ From(c)) \in Nat
         /\ Cardinality(batch \ From(c)) + 1 <= Cardinality(batch)
<1>1. From(c) \subseteq batch
  BY DEF From
<1>2. IsFiniteSet(batch) /\ Cardinality(batch) \in Nat
  BY BatchFinite
<1>3. batch \ From(c) \subseteq batch /\ batch \ From(c) # batch
  BY <1>1
<1>4. IsFiniteSet(batch \ From(c)) /\ Cardinality(batch \ From(c)) <= Cardinality(batch)
  BY <1>2, <1>3, FS_Subset
<1>5. Cardinality(batch \ From(c)) # Cardinality(batch)
  BY <1>2, <1>3, FS_Subset
<1>6. Cardinality(batch \ From(c)) \in Nat
  BY <1>4, FS_CardinalityType
<1>7. QED
  BY <1>1, <1>2, <1>4, <1>5, <1>6

LEMMA TypeInit == Init => TypeInv
<1> SUFFICES ASSUME Init PROVE TypeInv
  OBVIOUS
<1>1. UdpTypeOK
  BY DEF Init, UdpTypeOK, Packet, Sock
<1>2. Counted
  BY FS_EmptySet DEF Init, Counted
<1>3. QED
  BY <1>1, <1>2 DEF TypeInv

\* A step of the others leaves the count alone.
LEMMA SameCounts ==
  ASSUME TypeInv, UNCHANGED <<main, batch, made, taken>>
  PROVE  Counted'
BY DEF TypeInv, Counted

LEMMA MainTypes ==
  ASSUME TypeInv, MainSteps \/ MainFails
  PROVE  TypeInv'
<1> USE DEF client, relay, socks, answers
<1>1. UdpTypeOK /\ Counted
  BY DEF TypeInv
<1>2. /\ MaxPackets \in Nat /\ arrived \in Nat /\ taken \in Nat /\ made \in Nat
      /\ rsock \in Nat /\ rsock <= made
      /\ arrived <= MaxPackets /\ taken <= arrived /\ made <= taken
      /\ Cardinality(batch) \in Nat
  BY <1>1, Counts, BatchFinite
<1>3. CASE Receive
  <2>1. /\ taken' \in Nat /\ taken < taken' /\ taken' <= arrived
    <3>1. taken' = Min({arrived, taken + MaxBatch}) /\ taken < arrived
      BY <1>3 DEF Receive
    <3>2. taken + MaxBatch \in Nat /\ taken < taken + MaxBatch
      BY <1>2
    <3>3. taken' \in {arrived, taken + MaxBatch} /\ taken' <= arrived
      <4>1. \A b \in Int : Min({arrived, b}) \in {arrived, b} /\ Min({arrived, b}) <= arrived
        <5>1. arrived \in Int
          BY <1>2
        <5>2. QED
          BY <5>1, Lesser
      <4>2. QED
        BY <3>1, <3>2, <4>1
    <3>4. QED
      BY <1>2, <3>1, <3>2, <3>3
  <2>2. batch' = taken + 1 .. taken' /\ batch' \subseteq 1 .. taken'
    BY <1>2, <1>3, <2>1 DEF Receive
  <2>3. Cardinality(batch') = taken' - taken
    BY <1>2, <2>1, <2>2, FS_Interval
  <2>4. made <= taken /\ main' = "resolve" /\ made' = made
    BY <1>2, <1>3 DEF Receive
  <2>5. Counted'
    <3>1. made' + (taken' - taken) <= taken'
      <4>1. \A x \in Nat : made + (x - taken) <= x
        BY <1>2
      <4>2. QED
        BY <2>1, <2>4, <4>1
    <3>2. QED
      BY <2>3, <2>4, <3>1 DEF Counted
  <2>6. UdpTypeOK'
    <3>1. UNCHANGED <<from, arrived, group, rsock, sockmap, made, owner, relayer, through, replies,
                      held, returned, early, lost>>
      BY <1>3 DEF Receive
    <3>2. taken' \in 0 .. arrived' /\ made' \in 0 .. taken' /\ group' \in SUBSET (1 .. taken')
      <4>1. \A i \in 1 .. taken : i \in 1 .. taken'
        BY <1>2, <2>1
      <4>2. group \subseteq 1 .. taken
        BY <1>1 DEF UdpTypeOK
      <4>3. QED
        BY <1>2, <2>1, <3>1, <4>1, <4>2
    <3>3. QED
      BY <1>1, <2>2, <2>4, <3>1, <3>2 DEF UdpTypeOK
  <2>7. QED
    BY <2>5, <2>6 DEF TypeInv
<1>4. CASE Resolve
  BY <1>1, <1>4 DEF Resolve, TypeInv, UdpTypeOK, Counted
<1>5. CASE Insert
  <2>1. UdpTypeOK'
    BY <1>1, <1>2, <1>5 DEF Insert, UdpTypeOK
  <2>2. QED
    BY <1>1, <1>5, <2>1 DEF Insert, TypeInv, Counted
<1>6. ASSUME NEW c \in Client, Find(c) PROVE TypeInv'
  <2>1. /\ From(c) \subseteq batch /\ Cardinality(batch \ From(c)) \in Nat
        /\ Cardinality(batch \ From(c)) + 1 <= Cardinality(batch)
    BY <1>1, <1>6, GroupLeaves DEF Find
  <2>2. UdpTypeOK'
    BY <1>1, <1>6, <2>1 DEF Find, UdpTypeOK
  <2>3. Counted'
    BY <1>1, <1>2, <1>6, <2>1 DEF Find, Counted
  <2>4. QED
    BY <2>2, <2>3 DEF TypeInv
<1>7. ASSUME NEW c \in Client, Associate(c) PROVE TypeInv'
  <2>1. /\ From(c) \subseteq batch /\ Cardinality(batch \ From(c)) \in Nat
        /\ Cardinality(batch \ From(c)) + 1 <= Cardinality(batch)
    BY <1>1, <1>7, GroupLeaves DEF Associate
  <2>2. made' = made + 1 /\ batch' = batch \ From(c) /\ taken' = taken /\ main' = "insert"
    BY <1>7 DEF Associate
  <2>3. Counted'
    BY <1>1, <1>2, <2>1, <2>2 DEF Counted
  <2>4. made' \in 1 .. taken /\ made' \in Sock
    BY <1>1, <1>2, <2>1, <2>2 DEF Counted, Sock
  <2>5. UdpTypeOK'
    <3>1. /\ owner' \in [Sock -> Client \cup {Nobody}]
          /\ relayer' \in [Sock -> {"none", "recv", "send", "remove", "gone"}]
      BY <1>1, <1>7, <2>4 DEF Associate, UdpTypeOK
    <3>2. sockmap' \in [Client -> 0 .. made'] /\ through' \in [Packet -> 0 .. made']
      BY <1>1, <1>2, <1>7, <2>2 DEF Associate, UdpTypeOK
    <3>3. batch' \subseteq 1 .. taken' /\ group' \subseteq 1 .. taken' /\ rsock' \in 0 .. made'
      <4>1. batch \subseteq 1 .. taken
        BY <1>1 DEF UdpTypeOK
      <4>2. group' = From(c) /\ rsock' = made'
        BY <1>7 DEF Associate
      <4>3. rsock' \in 0 .. made'
        BY <1>2, <2>2, <4>2
      <4>4. QED
        BY <2>1, <2>2, <4>1, <4>2, <4>3
    <3>4. QED
      BY <1>1, <1>7, <2>2, <2>4, <3>1, <3>2, <3>3 DEF Associate, UdpTypeOK
  <2>6. QED
    BY <2>3, <2>5 DEF TypeInv
<1>8. ASSUME NEW p \in Packet, Send(p) PROVE TypeInv'
  <2>1. UdpTypeOK'
    BY <1>1, <1>2, <1>8 DEF Send, UdpTypeOK
  <2>2. Counted'
    BY <1>1, <1>8 DEF Send, Counted
  <2>3. QED
    BY <2>1, <2>2 DEF TypeInv
<1>9. CASE MainFails
  <2>1. batch' = {} /\ main' = "recv" /\ UNCHANGED <<made, taken>>
    BY <1>9 DEF MainFails, Restart
  <2>2. Counted'
    BY <1>2, <2>1, FS_EmptySet DEF Counted
  <2>3. UdpTypeOK'
    BY <1>1, <1>9 DEF MainFails, Restart, UdpTypeOK
  <2>4. QED
    BY <2>2, <2>3 DEF TypeInv
<1>10. QED
  BY <1>3, <1>4, <1>5, <1>6, <1>7, <1>8, <1>9 DEF MainSteps

LEMMA RelayerTypes ==
  ASSUME TypeInv, NEW s \in Sock, RelayerSteps(s) \/ RearFails(s) \/ ReturnFails(s),
         MapInv
  PROVE  TypeInv'
<1> USE DEF client, relay, socks, answers
<1>1. UdpTypeOK
  BY DEF TypeInv
<1>2. UNCHANGED <<main, batch, made, taken>>
  BY DEF RelayerSteps, RearReceive, RearTimeout, RearFails, Return, ReturnFails, Remove
<1> SUFFICES UdpTypeOK'
  BY <1>2, SameCounts DEF TypeInv
<1>3. CASE RearReceive(s)
  BY <1>1, <1>3 DEF RearReceive, RelayerStep, UdpTypeOK
<1>4. CASE RearTimeout(s) \/ RearFails(s)
  BY <1>1, <1>4 DEF RearTimeout, RearFails, RelayerStep, UdpTypeOK
<1>5. ASSUME NEW p \in Packet, Return(s, p) PROVE UdpTypeOK'
  <2>1. owner[s] \in Client
    BY <1>1, <1>5, Counts DEF Return, RelayerStep, MapInv, Numbered, Sock
  <2>2. relayer' \in [Sock -> {"none", "recv", "send", "remove", "gone"}]
    BY <1>1, <1>5 DEF Return, RelayerStep, UdpTypeOK
  <2>3. held' \in [Sock -> SUBSET Packet] /\ returned' \in [Client -> SUBSET Packet]
    BY <1>1, <1>5, <2>1 DEF Return, UdpTypeOK
  <2>4. UNCHANGED <<replies, from, arrived, main, batch, group, rsock, taken, sockmap, made, owner,
                    through, early, lost>>
    BY <1>5 DEF Return
  <2>5. QED
    BY <1>1, <2>2, <2>3, <2>4 DEF UdpTypeOK
<1>6. CASE ReturnFails(s)
  BY <1>1, <1>6 DEF ReturnFails, RelayerStep, UdpTypeOK
<1>7. CASE Remove(s)
  <2>1. /\ relayer' \in [Sock -> {"none", "recv", "send", "remove", "gone"}]
        /\ sockmap' \in [Client -> 0 .. made]
    <3>1. sockmap \in [Client -> 0 .. made] /\ 0 \in 0 .. made
      BY <1>1, Counts DEF UdpTypeOK
    <3>2. sockmap' = [sockmap EXCEPT ![owner[s]] = 0]
      BY <1>7 DEF Remove
    <3>3. sockmap' \in [Client -> 0 .. made]
      BY <3>1, <3>2
    <3>4. relayer' \in [Sock -> {"none", "recv", "send", "remove", "gone"}]
      BY <1>1, <1>7 DEF Remove, RelayerStep, UdpTypeOK
    <3>5. QED
      BY <3>3, <3>4
  <2>2. replies' \in [Sock -> SUBSET Packet] /\ lost' \subseteq Packet /\ early' \subseteq Sock
    BY <1>1, <1>7 DEF Remove, UdpTypeOK
  <2>3. UNCHANGED <<held, returned, from, arrived, main, batch, group, rsock, taken, made, owner,
                    through>>
    BY <1>7 DEF Remove
  <2>4. QED
    BY <1>1, <2>1, <2>2, <2>3 DEF UdpTypeOK
<1>8. QED
  BY <1>3, <1>4, <1>5, <1>6, <1>7 DEF RelayerSteps

LEMMA WorldTypes ==
  ASSUME TypeInv, \/ \E c \in Client : ClientSends(c)
                  \/ \E p \in Packet : RemoteAnswers(p)
                  \/ UNCHANGED vars
  PROVE  TypeInv'
<1> USE DEF client, relay, socks, answers
<1>1. UdpTypeOK
  BY DEF TypeInv
<1>2. UNCHANGED <<main, batch, made, taken>>
  BY DEF ClientSends, RemoteAnswers, vars
<1> SUFFICES UdpTypeOK'
  BY <1>2, SameCounts DEF TypeInv
<1>3. ASSUME NEW c \in Client, ClientSends(c) PROVE UdpTypeOK'
  <2>1. arrived' \in 0 .. MaxPackets /\ taken \in 0 .. arrived'
    BY <1>1, <1>3, Counts DEF ClientSends
  <2>2. from' \in [Packet -> Client \cup {Nobody}]
    BY <1>1, <1>3 DEF ClientSends, UdpTypeOK
  <2>3. QED
    BY <1>1, <1>3, <2>1, <2>2 DEF ClientSends, UdpTypeOK
<1>4. ASSUME NEW p \in Packet, RemoteAnswers(p) PROVE UdpTypeOK'
  <2>1. replies' \in [Sock -> SUBSET Packet]
    BY <1>1, <1>4 DEF RemoteAnswers, UdpTypeOK
  <2>2. UNCHANGED <<held, returned, client, relay, sockmap, socks, relayer, through, early, lost>>
    BY <1>4 DEF RemoteAnswers
  <2>3. QED
    BY <1>1, <2>1, <2>2 DEF UdpTypeOK
<1>5. CASE UNCHANGED vars
  BY <1>1, <1>5 DEF vars, UdpTypeOK
<1>6. QED
  BY <1>3, <1>4, <1>5

-----------------------------------------------------------------------------
(* The map                                                                 *)

LEMMA MapInit == Init => MapInv
BY DEF Init, MapInv, Numbered, OwnEntry, Pending, Registered, NoDeadAssociation, Live, Sock

\* A step that changes neither the map nor which relayers have ended.
LEMMA SameMap ==
  ASSUME UdpTypeOK, MapInv, UNCHANGED <<sockmap, owner, made, early>>,
         main' = "insert" => UNCHANGED <<main, rsock>>,
         main = "insert" => UNCHANGED <<main, rsock>>,
         \A s \in Sock : /\ relayer'[s] = "gone" <=> relayer[s] = "gone"
                         /\ relayer'[s] = "none" <=> relayer[s] = "none"
                         /\ relayer'[s] \in {"none", "recv", "send", "remove", "gone"}
  PROVE  MapInv'
<1>1. \A s \in Sock : Live(s)' <=> Live(s)
  BY DEF Live, UdpTypeOK
<1>2. \A c \in Client : sockmap[c] # NoSock => sockmap[c] \in Sock
  BY Counts DEF UdpTypeOK, Sock
<1>3. rsock # NoSock => rsock \in Sock
  BY Counts DEF Sock
<1>4. Numbered' /\ OwnEntry'
  BY DEF MapInv, Numbered, OwnEntry
<1>5. Pending'
  BY <1>3 DEF MapInv, Pending
<1>6. Registered'
  BY <1>1 DEF MapInv, Registered
<1>7. NoDeadAssociation'
  BY <1>2 DEF MapInv, NoDeadAssociation
<1>8. QED
  BY <1>4, <1>5, <1>6, <1>7 DEF MapInv

LEMMA AssociateMap ==
  ASSUME TypeInv, TypeInv', MapInv, NEW c \in Client, Associate(c)
  PROVE  MapInv'
<1>1. /\ main = "group" /\ main' = "insert" /\ made' = made + 1 /\ rsock' = made'
      /\ owner' = [owner EXCEPT ![made'] = c] /\ relayer' = [relayer EXCEPT ![made'] = "recv"]
      /\ sockmap[c] = NoSock /\ UNCHANGED <<sockmap, early>>
  BY DEF Associate
<1>2. /\ made \in Nat /\ made' \in Sock /\ owner \in [Sock -> Client \cup {Nobody}]
      /\ relayer \in [Sock -> {"none", "recv", "send", "remove", "gone"}]
      /\ sockmap \in [Client -> 0 .. made]
  <2>1. made \in Nat /\ made' <= MaxPackets
    BY Counts DEF TypeInv, UdpTypeOK
  <2>2. made' \in 1 .. MaxPackets
    BY <1>1, <2>1
  <2>3. QED
    BY <2>1, <2>2 DEF TypeInv, UdpTypeOK, Sock
<1>3. /\ owner'[made'] = c /\ relayer'[made'] = "recv"
      /\ \A s \in Sock : s # made' => owner'[s] = owner[s] /\ relayer'[s] = relayer[s]
  BY <1>1, <1>2
<1>4. \A s \in Sock : s \in Int /\ (s # made' => (s <= made' <=> s <= made))
  BY <1>1, <1>2 DEF Sock
<1>5. \A d \in Client : sockmap[d] # NoSock => sockmap[d] \in Sock /\ sockmap[d] # made'
  BY <1>1, <1>2 DEF Sock
<1>6. Numbered'
  <2>1. ASSUME NEW s \in Sock
        PROVE  (s <= made' => owner'[s] \in Client) /\ (made' < s => relayer'[s] = "none")
    <3>1. CASE s = made'
      BY <1>3, <1>2, <1>1, <3>1
    <3>2. CASE s # made'
      <4>1. made' < s => made < s
        BY <1>1, <1>2, <1>4
      <4>2. QED
        BY <1>3, <1>4, <3>2, <4>1 DEF MapInv, Numbered
    <3>3. QED
      BY <3>1, <3>2
  <2>2. QED
    BY <2>1 DEF Numbered
<1>7. OwnEntry'
  BY <1>1, <1>3, <1>5 DEF MapInv, OwnEntry
<1>8. Pending'
  <2>1. made' # NoSock
    BY <1>1, <1>2
  <2>2. QED
    BY <1>1, <1>3, <2>1 DEF Pending
<1>9. Registered'
  <2>1. ASSUME NEW s \in Sock, relayer'[s] \in {"recv", "send", "remove"}
        PROVE  sockmap'[owner'[s]] = s \/ (main' = "insert" /\ rsock' = s)
    <3>1. CASE s # made'
      BY <1>1, <1>3, <2>1, <3>1 DEF MapInv, Registered, Live
    <3>2. QED
      BY <1>1, <3>1
  <2>2. QED
    BY <2>1 DEF Registered, Live
<1>10. NoDeadAssociation'
  BY <1>1, <1>3, <1>5 DEF MapInv, NoDeadAssociation
<1>11. QED
  BY <1>6, <1>7, <1>8, <1>9, <1>10 DEF MapInv

LEMMA InsertMap ==
  ASSUME TypeInv, MapInv, Insert
  PROVE  MapInv'
<1>1. /\ main = "insert" /\ main' = "send" /\ sockmap' = [sockmap EXCEPT ![owner[rsock]] = rsock]
      /\ UNCHANGED <<rsock, made, owner, relayer, early>>
  BY DEF Insert, relay, socks
<1>2. /\ rsock = made /\ rsock # NoSock /\ sockmap[owner[rsock]] = NoSock
      /\ relayer[rsock] = "gone" => rsock \in early
  BY <1>1 DEF MapInv, Pending
<1>3. rsock \in Sock /\ rsock <= made /\ sockmap \in [Client -> 0 .. made]
  BY <1>2, Counts DEF TypeInv, UdpTypeOK, Sock
<1>4. owner[rsock] \in Client
  BY <1>3 DEF MapInv, Numbered
<1>5. /\ sockmap'[owner[rsock]] = rsock
      /\ \A c \in Client : c # owner[rsock] => sockmap'[c] = sockmap[c]
  BY <1>1, <1>3, <1>4
<1>6. Numbered' /\ Pending'
  BY <1>1 DEF MapInv, Numbered, Pending
<1>7. OwnEntry'
  BY <1>1, <1>5 DEF MapInv, OwnEntry
<1>8. Registered'
  <2>1. ASSUME NEW s \in Sock, relayer[s] \in {"recv", "send", "remove"}
        PROVE  sockmap'[owner[s]] = s
    <3>1. s <= made \/ made < s
      BY Counts DEF TypeInv, Sock
    <3>2. owner[s] \in Client
      BY <2>1, <3>1 DEF MapInv, Numbered
    <3>3. sockmap[owner[s]] = s \/ rsock = s
      BY <2>1 DEF MapInv, Registered, Live
    <3>4. s # NoSock
      BY DEF Sock
    <3>5. QED
      BY <1>2, <1>5, <3>2, <3>3, <3>4
  <2>2. QED
    BY <1>1, <2>1 DEF Registered, Live
<1>9. NoDeadAssociation'
  BY <1>1, <1>2, <1>5 DEF MapInv, NoDeadAssociation
<1>10. QED
  BY <1>6, <1>7, <1>8, <1>9 DEF MapInv

\* The entry a relayer removes is its own, or there is none yet.
LEMMA RemovesOwn ==
  ASSUME TypeInv, MapInv, NEW s \in Sock, Live(s)
  PROVE  /\ owner[s] \in Client
         /\ sockmap[owner[s]] = s \/ (main = "insert" /\ rsock = s /\ sockmap[owner[s]] = NoSock)
<1>1. s <= made \/ made < s
  BY Counts DEF TypeInv, Sock
<1>2. owner[s] \in Client
  BY <1>1 DEF MapInv, Numbered, Live
<1>3. QED
  BY <1>2 DEF MapInv, Registered, Pending

LEMMA RemoveMap ==
  ASSUME TypeInv, MapInv, NEW s \in Sock, Remove(s)
  PROVE  MapInv'
<1>1. /\ relayer[s] = "remove" /\ relayer' = [relayer EXCEPT ![s] = "gone"]
      /\ sockmap' = [sockmap EXCEPT ![owner[s]] = NoSock]
      /\ early' = IF sockmap[owner[s]] = s THEN early ELSE early \cup {s}
      /\ UNCHANGED <<main, rsock, made, owner>>
  BY DEF Remove, RelayerStep, relay, socks
<1>2. /\ owner[s] \in Client
      /\ sockmap[owner[s]] = s \/ (main = "insert" /\ rsock = s /\ sockmap[owner[s]] = NoSock)
  BY <1>1, RemovesOwn DEF Live
<1>3. /\ sockmap \in [Client -> 0 .. made] /\ made \in Nat /\ made <= MaxPackets
      /\ relayer \in [Sock -> {"none", "recv", "send", "remove", "gone"}]
  BY Counts DEF TypeInv, UdpTypeOK
<1>4. /\ sockmap'[owner[s]] = NoSock
      /\ \A c \in Client : c # owner[s] => sockmap'[c] = sockmap[c]
  BY <1>1, <1>2, <1>3
<1>5. relayer'[s] = "gone" /\ \A t \in Sock : t # s => relayer'[t] = relayer[t]
  BY <1>1, <1>3
<1>6. s # NoSock /\ \A c \in Client : sockmap[c] # NoSock => sockmap[c] \in Sock
  BY <1>3 DEF Sock
<1>7. Numbered'
  <2>1. ~(made < s)
    BY <1>1 DEF MapInv, Numbered
  <2>2. QED
    BY <1>1, <1>5, <2>1 DEF MapInv, Numbered
<1>8. OwnEntry'
  BY <1>1, <1>4 DEF MapInv, OwnEntry
<1>9. Pending'
  <2>1. SUFFICES ASSUME main = "insert"
                 PROVE  /\ rsock = made /\ rsock # NoSock /\ sockmap'[owner[rsock]] = NoSock
                        /\ relayer'[rsock] = "gone" => rsock \in early'
    BY <1>1 DEF Pending
  <2>2. /\ rsock = made /\ rsock # NoSock /\ sockmap[owner[rsock]] = NoSock
        /\ relayer[rsock] = "gone" => rsock \in early
    BY <2>1 DEF MapInv, Pending
  <2>3. rsock \in Sock /\ owner[rsock] \in Client
    BY <1>3, <2>2 DEF MapInv, Numbered, Sock
  <2>4. sockmap'[owner[rsock]] = NoSock
    BY <1>4, <2>2, <2>3
  <2>5. relayer'[rsock] = "gone" => rsock \in early'
    BY <1>1, <1>5, <1>6, <2>2, <2>3
  <2>6. QED
    BY <2>2, <2>4, <2>5
<1>10. Registered'
  <2>1. ASSUME NEW t \in Sock, relayer'[t] \in {"recv", "send", "remove"}
        PROVE  sockmap'[owner[t]] = t \/ (main = "insert" /\ rsock = t)
    <3>1. t # s /\ Live(t) /\ t # NoSock
      BY <1>5, <2>1 DEF Live, Sock
    <3>2. /\ owner[t] \in Client
          /\ sockmap[owner[t]] = t \/ (main = "insert" /\ rsock = t)
      BY <3>1, RemovesOwn
    <3>3. QED
      BY <1>2, <1>4, <3>1, <3>2
  <2>2. QED
    BY <1>1, <2>1 DEF Registered, Live
<1>11. NoDeadAssociation'
  <2>1. ASSUME NEW c \in Client, sockmap'[c] # NoSock, relayer'[sockmap'[c]] = "gone"
        PROVE  sockmap'[c] \in early'
    <3>1. c # owner[s] /\ sockmap'[c] = sockmap[c]
      BY <1>4, <2>1
    <3>2. owner[sockmap[c]] = c /\ sockmap[c] \in Sock
      BY <1>6, <2>1, <3>1 DEF MapInv, OwnEntry
    <3>3. relayer[sockmap[c]] = "gone"
      BY <1>5, <2>1, <3>1, <3>2
    <3>4. QED
      BY <1>1, <2>1, <3>1, <3>3 DEF MapInv, NoDeadAssociation
  <2>2. QED
    BY <2>1 DEF NoDeadAssociation
<1>12. QED
  BY <1>7, <1>8, <1>9, <1>10, <1>11 DEF MapInv

LEMMA MapNext ==
  ASSUME TypeInv, TypeInv', MapInv, Next \/ UNCHANGED vars
  PROVE  MapInv'
<1> USE DEF client, relay, socks, answers
<1>1. UdpTypeOK /\ UdpTypeOK'
  BY DEF TypeInv
<1> DEFINE Quiet == /\ UNCHANGED <<sockmap, owner, made, early>>
                    /\ main' = "insert" => UNCHANGED <<main, rsock>>
                    /\ main = "insert" => UNCHANGED <<main, rsock>>
           Ends  == \A s \in Sock : /\ relayer'[s] = "gone" <=> relayer[s] = "gone"
                                    /\ relayer'[s] = "none" <=> relayer[s] = "none"
<1>2. Quiet /\ Ends => MapInv'
  <2>1. \A s \in Sock : relayer'[s] \in {"none", "recv", "send", "remove", "gone"}
    BY <1>1 DEF UdpTypeOK
  <2>2. QED
    BY <1>1, <2>1, SameMap
<1>3. UNCHANGED relayer => Ends
  OBVIOUS
<1>4. ASSUME MainSteps PROVE MapInv'
  <2>1. CASE Receive \/ Resolve
    BY <1>2, <1>3, <2>1 DEF Receive, Resolve
  <2>2. CASE Insert
    BY <2>2, InsertMap
  <2>3. ASSUME NEW c \in Client, Find(c) PROVE MapInv'
    BY <1>2, <1>3, <2>3 DEF Find
  <2>4. ASSUME NEW c \in Client, Associate(c) PROVE MapInv'
    BY <2>4, AssociateMap
  <2>5. ASSUME NEW p \in Packet, Send(p) PROVE MapInv'
    <3>1. main = "send" /\ main' \in {"send", "recv", "group"}
      BY <2>5 DEF Send
    <3>2. UNCHANGED <<sockmap, owner, made, early, relayer>>
      BY <2>5 DEF Send
    <3>3. QED
      BY <1>2, <1>3, <3>1, <3>2
  <2>6. QED
    BY <1>4, <2>1, <2>2, <2>3, <2>4, <2>5 DEF MainSteps
<1>5. CASE MainFails
  BY <1>2, <1>3, <1>5 DEF MainFails, Restart
<1>6. ASSUME NEW s \in Sock, RelayerSteps(s) \/ RearFails(s) \/ ReturnFails(s) PROVE MapInv'
  <2>1. CASE Remove(s)
    BY <2>1, RemoveMap
  <2>2. CASE RearReceive(s) \/ RearTimeout(s) \/ RearFails(s) \/ ReturnFails(s)
    <3>1. Quiet
      BY <2>2 DEF RearReceive, RearTimeout, RearFails, ReturnFails
    <3>2. Ends
      BY <1>1, <2>2 DEF RearReceive, RearTimeout, RearFails, ReturnFails, RelayerStep, UdpTypeOK
    <3>3. QED
      BY <1>2, <3>1, <3>2
  <2>3. ASSUME NEW p \in Packet, Return(s, p) PROVE MapInv'
    <3>1. Quiet
      BY <2>3 DEF Return
    <3>2. Ends
      BY <1>1, <2>3 DEF Return, RelayerStep, UdpTypeOK
    <3>3. QED
      BY <1>2, <3>1, <3>2
  <2>4. QED
    BY <1>6, <2>1, <2>2, <2>3 DEF RelayerSteps
<1>7. ASSUME NEW c \in Client, ClientSends(c) PROVE MapInv'
  BY <1>2, <1>3, <1>7 DEF ClientSends
<1>8. ASSUME NEW p \in Packet, RemoteAnswers(p) PROVE MapInv'
  BY <1>2, <1>3, <1>8 DEF RemoteAnswers
<1>9. CASE UNCHANGED vars
  BY <1>2, <1>3, <1>9 DEF vars
<1>10. QED
  BY <1>4, <1>5, <1>6, <1>7, <1>8, <1>9 DEF Next

-----------------------------------------------------------------------------
(* Whose packets go where                                                  *)

LEMMA HomeInit == Init => HomeInv
BY DEF Init, HomeInv, GroupsOwn, ThroughOwn, AnswersOwn, ReturnsOwn, Sock, Packet

\* Packets and sockets keep their owners.
LEMMA OwnersStay ==
  ASSUME UdpTypeOK, Next \/ UNCHANGED vars
  PROVE  /\ \A p \in Packet : p <= arrived => p <= arrived' /\ from'[p] = from[p]
         /\ \A s \in Sock : s <= made => s <= made' /\ owner'[s] = owner[s]
         /\ \A p \in Packet, s \in Sock : Belongs(p, s) => Belongs(p, s)'
<1> USE DEF client, relay, socks, answers
<1>1. /\ arrived \in Nat /\ made \in Nat
      /\ \A p \in Packet : p \in Int
      /\ \A s \in Sock : s \in Int
  BY Counts DEF Packet, Sock
<1>2. \/ UNCHANGED <<arrived, from>>
      \/ \E c \in Client : arrived' = arrived + 1 /\ from' = [from EXCEPT ![arrived'] = c]
  BY DEF Next, MainSteps, MainFails, Restart, Receive, Resolve, Insert, Find, Associate, Send,
         RelayerSteps, RearReceive, RearTimeout, RearFails, Return, ReturnFails, Remove,
         ClientSends, RemoteAnswers, vars
<1>3. \/ UNCHANGED <<made, owner>>
      \/ \E c \in Client : made' = made + 1 /\ owner' = [owner EXCEPT ![made'] = c]
  BY DEF Next, MainSteps, MainFails, Restart, Receive, Resolve, Insert, Find, Associate, Send,
         RelayerSteps, RearReceive, RearTimeout, RearFails, Return, ReturnFails, Remove,
         ClientSends, RemoteAnswers, vars
<1>4. \A p \in Packet : p <= arrived => p <= arrived' /\ from'[p] = from[p]
  BY <1>1, <1>2 DEF UdpTypeOK
<1>5. \A s \in Sock : s <= made => s <= made' /\ owner'[s] = owner[s]
  BY <1>1, <1>3 DEF UdpTypeOK
<1>6. QED
  BY <1>4, <1>5 DEF Belongs

LEMMA GroupsOwnNext ==
  ASSUME TypeInv, TypeInv', MapInv, HomeInv, Next \/ UNCHANGED vars
  PROVE  GroupsOwn'
<1> USE DEF client, relay, socks, answers
<1>1. /\ UdpTypeOK /\ UdpTypeOK'
      /\ \A p \in Packet, s \in Sock : Belongs(p, s) => Belongs(p, s)'
  BY OwnersStay DEF TypeInv
<1>2. /\ \A p \in 1 .. taken : p \in Packet /\ p <= arrived
      /\ \A c \in Client : sockmap[c] # NoSock => sockmap[c] \in Sock /\ sockmap[c] <= made
      /\ rsock # NoSock => rsock \in Sock
  BY <1>1, Counts DEF UdpTypeOK, Packet, Sock
<1>3. group \subseteq Packet
  BY <1>1, <1>2 DEF UdpTypeOK
<1>4. ASSUME UNCHANGED <<main, group, rsock>> PROVE GroupsOwn'
  <2>1. SUFFICES ASSUME main \in {"insert", "send"}
                 PROVE  rsock # NoSock /\ \A p \in group : Belongs(p, rsock)'
    BY <1>4 DEF GroupsOwn, Belongs
  <2>2. rsock # NoSock /\ \A p \in group : Belongs(p, rsock)
    BY <2>1 DEF HomeInv, GroupsOwn
  <2>3. QED
    BY <1>1, <1>2, <1>3, <1>4, <2>2 DEF Belongs
<1>5. CASE MainSteps
  <2>1. CASE Receive \/ Resolve
    BY <2>1 DEF Receive, Resolve, GroupsOwn
  <2>2. CASE Insert
    <3>1. main = "insert" /\ UNCHANGED <<group, rsock, from, arrived, made, owner>>
      BY <2>2 DEF Insert
    <3>2. QED
      BY <3>1 DEF HomeInv, GroupsOwn, Belongs
  <2>3. ASSUME NEW c \in Client, Find(c) PROVE GroupsOwn'
    <3>1. /\ group' = From(c) /\ rsock' = sockmap[c] /\ sockmap[c] # NoSock
          /\ UNCHANGED <<from, arrived, made, owner>>
      BY <2>3 DEF Find
    <3>2. owner[sockmap[c]] = c /\ sockmap[c] <= made
      BY <1>2, <3>1 DEF MapInv, OwnEntry
    <3>3. \A p \in From(c) : from[p] = c /\ p <= arrived
      BY <1>1, <1>2 DEF From, UdpTypeOK
    <3>4. QED
      BY <3>1, <3>2, <3>3 DEF GroupsOwn, Belongs
  <2>4. ASSUME NEW c \in Client, Associate(c) PROVE GroupsOwn'
    <3>1. /\ group' = From(c) /\ rsock' = made' /\ made' = made + 1
          /\ owner' = [owner EXCEPT ![made'] = c] /\ UNCHANGED <<from, arrived>>
      BY <2>4 DEF Associate
    <3>2. made' \in Nat /\ made' <= MaxPackets /\ made' # 0
      BY <1>1, <3>1, Counts DEF UdpTypeOK
    <3>3. owner'[made'] = c
      <4>1. made' \in Sock
        BY <3>2 DEF Sock
      <4>2. QED
        BY <1>1, <3>1, <4>1 DEF UdpTypeOK
    <3>4. \A p \in From(c) : from[p] = c /\ p <= arrived
      BY <1>1, <1>2 DEF From, UdpTypeOK
    <3>5. QED
      BY <3>1, <3>2, <3>3, <3>4 DEF GroupsOwn, Belongs
  <2>5. ASSUME NEW p \in Packet, Send(p) PROVE GroupsOwn'
    <3>1. /\ main = "send" /\ group' \subseteq group
          /\ main' \in {"insert", "send"} => rsock' = rsock
          /\ UNCHANGED <<from, arrived, made, owner>>
      BY <2>5 DEF Send
    <3>2. QED
      BY <3>1 DEF HomeInv, GroupsOwn, Belongs
  <2>6. QED
    BY <1>5, <2>1, <2>2, <2>3, <2>4, <2>5 DEF MainSteps
<1>6. CASE MainFails
  BY <1>6 DEF MainFails, Restart, GroupsOwn
<1>7. ASSUME NEW s \in Sock, RelayerSteps(s) \/ RearFails(s) \/ ReturnFails(s) PROVE GroupsOwn'
  BY <1>4, <1>7 DEF RelayerSteps, RearReceive, RearTimeout, RearFails, Return, ReturnFails, Remove
<1>8. ASSUME \/ \E c \in Client : ClientSends(c)
             \/ \E p \in Packet : RemoteAnswers(p)
             \/ UNCHANGED vars
      PROVE  GroupsOwn'
  BY <1>4, <1>8 DEF ClientSends, RemoteAnswers, vars
<1>9. QED
  BY <1>5, <1>6, <1>7, <1>8 DEF Next

LEMMA ThroughOwnNext ==
  ASSUME TypeInv, HomeInv, Next \/ UNCHANGED vars
  PROVE  ThroughOwn'
<1> USE DEF client, relay, socks, answers
<1>1. /\ UdpTypeOK
      /\ \A p \in Packet, s \in Sock : Belongs(p, s) => Belongs(p, s)'
  BY OwnersStay DEF TypeInv
<1>2. \A p \in Packet : through[p] # NoSock => through[p] \in Sock
  BY <1>1, Counts DEF UdpTypeOK, Sock
<1>3. ASSUME UNCHANGED through PROVE ThroughOwn'
  <2>1. ASSUME NEW p \in Packet, through[p] # NoSock PROVE Belongs(p, through[p])'
    <3>1. PICK s \in Sock : s = through[p]
      BY <1>2, <2>1
    <3>2. Belongs(p, s)
      BY <2>1, <3>1 DEF HomeInv, ThroughOwn
    <3>3. Belongs(p, s)'
      BY <1>1, <3>2
    <3>4. QED
      BY <1>3, <3>1, <3>3 DEF Belongs
  <2>2. QED
    BY <1>3, <2>1 DEF ThroughOwn
<1>4. ASSUME NEW q \in Packet, Send(q) PROVE ThroughOwn'
  <2>1. /\ main = "send" /\ q \in group /\ through' = [through EXCEPT ![q] = rsock]
        /\ UNCHANGED <<from, arrived, made, owner>>
    BY <1>4 DEF Send
  <2>2. Belongs(q, rsock)
    BY <2>1 DEF HomeInv, GroupsOwn
  <2>3. \A p \in Packet : through'[p] = IF p = q THEN rsock ELSE through[p]
    BY <1>1, <2>1 DEF UdpTypeOK
  <2>4. QED
    BY <2>1, <2>2, <2>3 DEF HomeInv, ThroughOwn, Belongs
<1>5. QED
  BY <1>3, <1>4 DEF Next, MainSteps, MainFails, Restart, Receive, Resolve, Insert, Find, Associate,
         RelayerSteps, RearReceive, RearTimeout, RearFails, Return, ReturnFails, Remove,
         ClientSends, RemoteAnswers, vars

LEMMA AnswersOwnNext ==
  ASSUME TypeInv, HomeInv, Next \/ UNCHANGED vars
  PROVE  AnswersOwn'
<1> USE DEF client, relay, socks, answers
<1>1. /\ UdpTypeOK
      /\ \A p \in Packet, s \in Sock : Belongs(p, s) => Belongs(p, s)'
  BY OwnersStay DEF TypeInv
<1>2. ASSUME \A s \in Sock : replies'[s] \cup held'[s] \subseteq replies[s] \cup held[s]
      PROVE  AnswersOwn'
  <2>1. ASSUME NEW s \in Sock, NEW p \in replies'[s] \cup held'[s] PROVE Belongs(p, s)'
    <3>1. p \in replies[s] \cup held[s] /\ p \in Packet
      BY <1>1, <1>2, <2>1 DEF UdpTypeOK
    <3>2. Belongs(p, s)
      BY <3>1 DEF HomeInv, AnswersOwn
    <3>3. QED
      BY <1>1, <3>1, <3>2
  <2>2. QED
    BY <2>1 DEF AnswersOwn
<1>3. ASSUME UNCHANGED <<replies, held>> PROVE AnswersOwn'
  BY <1>2, <1>3
<1>4. ASSUME NEW s \in Sock, RelayerSteps(s) \/ RearFails(s) \/ ReturnFails(s) PROVE AnswersOwn'
  <2>1. CASE RearReceive(s)
    BY <1>1, <1>2, <2>1 DEF RearReceive, UdpTypeOK
  <2>2. CASE RearTimeout(s) \/ RearFails(s)
    BY <1>3, <2>2 DEF RearTimeout, RearFails
  <2>3. ASSUME NEW p \in Packet, Return(s, p) PROVE AnswersOwn'
    BY <1>1, <1>2, <2>3 DEF Return, UdpTypeOK
  <2>4. CASE ReturnFails(s)
    BY <1>1, <1>2, <2>4 DEF ReturnFails, UdpTypeOK
  <2>5. CASE Remove(s)
    BY <1>1, <1>2, <2>5 DEF Remove, UdpTypeOK
  <2>6. QED
    BY <1>4, <2>1, <2>2, <2>3, <2>4, <2>5 DEF RelayerSteps
<1>5. ASSUME NEW q \in Packet, RemoteAnswers(q) PROVE AnswersOwn'
  <2>1. /\ through[q] # NoSock /\ replies' = [replies EXCEPT ![through[q]] = @ \cup {q}]
        /\ UNCHANGED <<held, from, arrived, made, owner>>
    BY <1>5 DEF RemoteAnswers
  <2>2. Belongs(q, through[q])
    BY <2>1 DEF HomeInv, ThroughOwn
  <2>3. ASSUME NEW s \in Sock, NEW p \in replies'[s] \cup held'[s]
        PROVE  p \in replies[s] \cup held[s] \/ (p = q /\ s = through[q])
    BY <1>1, <2>1, <2>3 DEF UdpTypeOK
  <2>4. QED
    BY <2>1, <2>2, <2>3 DEF HomeInv, AnswersOwn, Belongs
<1>6. CASE MainSteps \/ MainFails
  BY <1>3, <1>6 DEF MainSteps, MainFails, Restart, Receive, Resolve, Insert, Find, Associate, Send
<1>7. ASSUME NEW c \in Client, ClientSends(c) PROVE AnswersOwn'
  BY <1>3, <1>7 DEF ClientSends
<1>8. CASE UNCHANGED vars
  BY <1>3, <1>8 DEF vars
<1>9. QED
  BY <1>4, <1>5, <1>6, <1>7, <1>8 DEF Next

LEMMA ReturnsOwnNext ==
  ASSUME TypeInv, MapInv, HomeInv, Next \/ UNCHANGED vars
  PROVE  ReturnsOwn'
<1> USE DEF client, relay, socks, answers
<1>1. /\ UdpTypeOK
      /\ \A p \in Packet : p <= arrived => p <= arrived' /\ from'[p] = from[p]
  BY OwnersStay DEF TypeInv
<1>2. ASSUME UNCHANGED returned PROVE ReturnsOwn'
  BY <1>1, <1>2 DEF HomeInv, ReturnsOwn, UdpTypeOK
<1>3. ASSUME NEW s \in Sock, NEW q \in Packet, Return(s, q) PROVE ReturnsOwn'
  <2>1. /\ q \in held[s] /\ returned' = [returned EXCEPT ![owner[s]] = @ \cup {q}]
        /\ UNCHANGED <<from, arrived>> /\ relayer[s] = "send"
    BY <1>3 DEF Return, RelayerStep
  <2>2. Belongs(q, s)
    BY <2>1 DEF HomeInv, AnswersOwn
  <2>3. owner[s] \in Client
    BY <2>1, RemovesOwn DEF Live
  <2>4. ASSUME NEW c \in Client, NEW p \in returned'[c]
        PROVE  p \in returned[c] \/ (p = q /\ c = owner[s])
    BY <1>1, <2>1, <2>3, <2>4 DEF UdpTypeOK
  <2>5. QED
    BY <2>1, <2>2, <2>4 DEF HomeInv, ReturnsOwn, Belongs
<1>4. QED
  BY <1>2, <1>3 DEF Next, MainSteps, MainFails, Restart, Receive, Resolve, Insert, Find, Associate,
         Send, RelayerSteps, RearReceive, RearTimeout, RearFails, ReturnFails, Remove,
         ClientSends, RemoteAnswers, vars

-----------------------------------------------------------------------------

LEMMA UdpInitInv == Init => UdpInv
BY TypeInit, MapInit, HomeInit DEF UdpInv

LEMMA UdpNextInv == UdpInv /\ [Next]_vars => UdpInv'
<1> SUFFICES ASSUME UdpInv, Next \/ UNCHANGED vars PROVE UdpInv'
  OBVIOUS
<1>1. TypeInv /\ MapInv /\ HomeInv
  BY DEF UdpInv
<1>2. TypeInv'
  <2>1. CASE MainSteps \/ MainFails
    BY <1>1, <2>1, MainTypes
  <2>2. ASSUME NEW s \in Sock, RelayerSteps(s) \/ RearFails(s) \/ ReturnFails(s) PROVE TypeInv'
    BY <1>1, <2>2, RelayerTypes
  <2>3. ASSUME \/ \E c \in Client : ClientSends(c)
               \/ \E p \in Packet : RemoteAnswers(p)
               \/ UNCHANGED vars
        PROVE  TypeInv'
    BY <1>1, <2>3, WorldTypes
  <2>4. QED
    BY <2>1, <2>2, <2>3 DEF Next
<1>3. MapInv'
  BY <1>1, <1>2, MapNext
<1>4. HomeInv'
  BY <1>1, <1>2, GroupsOwnNext, ThroughOwnNext, AnswersOwnNext, ReturnsOwnNext DEF HomeInv
<1>5. QED
  BY <1>2, <1>3, <1>4 DEF UdpInv

LEMMA UdpInvariant == Spec => []UdpInv
<1>1. QED
  BY UdpInitInv, UdpNextInv, PTL DEF Spec

(* For any number of clients and packets the two tasks keep within their    *)
(* types; in particular no more sockets are made than packets were taken    *)
(* (sockmap.rs:36-58, middle.rs:50-134).                                    *)
THEOREM UdpTypes == Spec => []UdpTypeOK
<1>1. UdpInv => UdpTypeOK
  BY DEF UdpInv, TypeInv
<1>2. QED
  BY <1>1, UdpInvariant, PTL

(* Every running relayer is its client's one, so that removing the client's *)
(* entry removes the relayer's own (middle.rs:171).                         *)
THEOREM RelayersRegistered == Spec => []Registered
<1>1. UdpInv => Registered
  BY DEF UdpInv, MapInv
<1>2. QED
  BY <1>1, UdpInvariant, PTL

(* However the relayers' ends and the insertion of sockets interleave, a    *)
(* client is left with a dead socket only if its relayer ended before the   *)
(* insertion (sockmap.rs:42-45).                                            *)
THEOREM DeadOnlyEarly == Spec => []NoDeadAssociation
<1>1. UdpInv => NoDeadAssociation
  BY DEF UdpInv, MapInv
<1>2. QED
  BY <1>1, UdpInvariant, PTL

(* No client's packets leave through another's socket, and no client gets   *)
(* another's answers (middle.rs:121-134, 143-162), each socket having a     *)
(* local port of its own.                                                   *)
THEOREM NoCrossTalk == Spec => []RepliesGoHome
<1>1. UdpInv => RepliesGoHome
  BY DEF UdpInv, HomeInv, ThroughOwn, ReturnsOwn, Belongs, RepliesGoHome
<1>2. QED
  BY <1>1, UdpInvariant, PTL

(* Only the relayer of an association, having ended, takes it out of the    *)
(* map; no other one ever replaces it (sockmap.rs:36-58).                   *)
THEOREM AssociationsStay == Spec => NeverReplaced
<1> DEFINE Stays == \A c \in Client :
                       sockmap[c] # NoSock => \/ sockmap'[c] = sockmap[c]
                                              \/ /\ sockmap'[c] = NoSock
                                                 /\ relayer[sockmap[c]] = "remove"
<1>1. UdpInv /\ [Next]_vars => [Stays]_vars
  <2> SUFFICES ASSUME UdpInv, Next PROVE Stays
    OBVIOUS
  <2> USE DEF client, relay, socks, answers
  <2>1. TypeInv /\ MapInv /\ sockmap \in [Client -> 0 .. made]
    BY DEF UdpInv, TypeInv, UdpTypeOK
  <2>2. CASE UNCHANGED sockmap
    BY <2>2
  <2>3. CASE Insert
    <3>1. sockmap' = [sockmap EXCEPT ![owner[rsock]] = rsock] /\ sockmap[owner[rsock]] = NoSock
      BY <2>1, <2>3 DEF Insert, MapInv, Pending
    <3>2. QED
      BY <2>1, <3>1
  <2>4. ASSUME NEW s \in Sock, Remove(s) PROVE Stays
    <3>1. sockmap' = [sockmap EXCEPT ![owner[s]] = NoSock] /\ relayer[s] = "remove"
      BY <2>4 DEF Remove, RelayerStep
    <3>2. sockmap[owner[s]] \in {s, NoSock}
      BY <2>1, <3>1, RemovesOwn DEF Live
    <3>3. QED
      BY <2>1, <3>1, <3>2
  <2>5. QED
    BY <2>2, <2>3, <2>4 DEF Next, MainSteps, MainFails, Restart, Receive, Resolve, Find, Associate,
       Send, RelayerSteps, RearReceive, RearTimeout, RearFails, Return, ReturnFails,
       ClientSends, RemoteAnswers
<1>2. QED
  BY <1>1, UdpInvariant, PTL DEF Spec, NeverReplaced
=============================================================================
