---------------------------- MODULE MCIpHashCalls ----------------------------
(* A ring of two virtual nodes for IpHashCalls, one of each peer.           *)
EXTENDS IpHashCalls, TLC

RingAB == [d \in 0 .. 1 |-> d]

Symmetric == Permutations(Thread \ {Caller})

(* What the other threads picked is never read again.                       *)
Seen == <<fails, left, pc, start, off, age, arg, pick[Caller], sound, shut, from>>
==============================================================================
