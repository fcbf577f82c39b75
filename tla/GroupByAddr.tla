---------------------------- MODULE GroupByAddr ----------------------------
(***************************************************************************)
(* group_by_inner (bytehub_core/src/udp/middle.rs:81-106): sorts a batch   *)
(* of packets, in place, into runs of packets with the same address.       *)
(* Each action is one turn of a loop.  Positions are numbered from one, a  *)
(* packet is named after the position it arrived at, and a group is the    *)
(* half-open range <<first, end>>.                                         *)
(***************************************************************************)
EXTENDS Integers, Sequences

CONSTANTS Addr,    \* the addresses
          MaxPkts  \* number of packets a batch may have

ASSUME PktsAssumption == MaxPkts \in Nat \ {0}

VARIABLES n,       \* number of packets in the batch
          addr,    \* the address of each packet
          data,    \* the packet at each position
          groups,  \* the groups found
          beg,     \* start of the group at hand
          end,     \* end of it so far
          probe,   \* next position to look at
          pc       \* "scan": the outer loop; "probe": the inner one; "done"

groupVars == <<n, addr, data, groups, beg, end, probe, pc>>

Position == 1 .. n

GroupInit == /\ n \in 1 .. MaxPkts
        /\ addr \in [1 .. n -> Addr]
        /\ data = [i \in 1 .. n |-> i]
        /\ groups = <<>>
        /\ beg = 1
        /\ end = 2
        /\ probe = 2
        /\ pc = "scan"

AddrAt(i) == addr[data[i]]

\* Mutant: compares with the neighbour on the left.
EqLeft(i, j) == AddrAt(i) = AddrAt(i - 1)

Eq(i, j) == AddrAt(i) = AddrAt(j)

\* Already in place: no need to look for it.
Extend == /\ pc = "scan"
          /\ end <= n
          /\ Eq(end, beg)
          /\ end' = end + 1
          /\ UNCHANGED <<n, addr, data, groups, beg, probe, pc>>

Search == /\ pc = "scan"
          /\ end <= n
          /\ ~Eq(end, beg)
          /\ probe' = end + 1
          /\ pc' = "probe"
          /\ UNCHANGED <<n, addr, data, groups, beg, end>>

\* Mutant: the packet moved out of the way is overwritten.
FetchOver == /\ pc = "probe"
             /\ probe <= n
             /\ Eq(probe, beg)
             /\ data' = [data EXCEPT ![end] = data[probe]]
             /\ end' = end + 1
             /\ probe' = probe + 1
             /\ UNCHANGED <<n, addr, groups, beg, pc>>

\* Mutant: the range is not extended over the packet just fetched.
FetchShort == /\ pc = "probe"
              /\ probe <= n
              /\ Eq(probe, beg)
              /\ data' = [data EXCEPT ![end] = data[probe], ![probe] = data[end]]
              /\ probe' = probe + 1
              /\ UNCHANGED <<n, addr, groups, beg, end, pc>>

Fetch == /\ pc = "probe"
         /\ probe <= n
         /\ Eq(probe, beg)
         /\ data' = [data EXCEPT ![end] = data[probe], ![probe] = data[end]]
         /\ end' = end + 1
         /\ probe' = probe + 1
         /\ UNCHANGED <<n, addr, groups, beg, pc>>

Pass == /\ pc = "probe"
        /\ probe <= n
        /\ ~Eq(probe, beg)
        /\ probe' = probe + 1
        /\ UNCHANGED <<n, addr, data, groups, beg, end, pc>>

\* Mutant: skips a position between two groups.
PushSkips == /\ pc = "probe"
             /\ probe > n
             /\ groups' = Append(groups, <<beg, end>>)
             /\ beg' = end + 1
             /\ end' = end + 2
             /\ pc' = "scan"
             /\ UNCHANGED <<n, addr, data, probe>>

Push == /\ pc = "probe"
        /\ probe > n
        /\ groups' = Append(groups, <<beg, end>>)
        /\ beg' = end
        /\ end' = end + 1
        /\ pc' = "scan"
        /\ UNCHANGED <<n, addr, data, probe>>

Finish == /\ pc = "scan"
          /\ end > n
          /\ groups' = Append(groups, <<beg, end>>)
          /\ pc' = "done"
          /\ UNCHANGED <<n, addr, data, beg, end, probe>>

GroupNext == Extend \/ Search \/ Fetch \/ Pass \/ Push \/ Finish

GroupSpec == GroupInit /\ [][GroupNext]_groupVars

-----------------------------------------------------------------------------
\* Types of the indices and of the ranges: no index leaves the batch.
GroupTypeOK ==
    /\ n \in 1 .. MaxPkts
    /\ addr \in [Position -> Addr]
    /\ data \in [Position -> Position]
    /\ groups \in Seq((1 .. n) \X (2 .. n + 1))
    /\ beg \in 1 .. n
    /\ end \in beg + 1 .. n + 1
    /\ probe \in 2 .. n + 1
    /\ pc \in {"scan", "probe", "done"}

\* No packet is lost or sent twice: however the swaps fall, every packet has
\* one place.
Permuted == \A i, j \in Position : data[i] = data[j] => i = j

In(i, g) == groups[g][1] <= i /\ i < groups[g][2]

\* A group is never empty, starts where the last one ended, and holds packets
\* of one address only: send_all sends all of them through the socket found
\* for the first (middle.rs:124-134).
GroupsUniform ==
    \A g \in 1 .. Len(groups) :
        /\ groups[g][1] < groups[g][2]
        /\ groups[g][1] = (IF g = 1 THEN 1 ELSE groups[g - 1][2])
        /\ \A i \in Position : In(i, g) => AddrAt(i) = AddrAt(groups[g][1])

\* In the end every packet is in a group, and all packets of one address are
\* in one: find_or_insert is asked once for each client of the batch.
OneGroupPerAddress ==
    pc = "done" => /\ \A i \in Position : \E g \in 1 .. Len(groups) : In(i, g)
                   /\ \A i, j \in Position : \A g \in 1 .. Len(groups) :
                         AddrAt(i) = AddrAt(j) => (In(i, g) <=> In(j, g))
=============================================================================
