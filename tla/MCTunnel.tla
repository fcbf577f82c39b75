------------------------------ MODULE MCTunnel ------------------------------
(* Tunnels that differ in their obfuscation, PROXY headers and limits.      *)
EXTENDS Tunnel

Both(a, b) == [r \in Relay |-> IF r = "A" THEN a ELSE b]

Plain == [mode |-> Both(0, 0), accept |-> Both(FALSE, FALSE), send |-> Both(FALSE, FALSE),
          limit |-> Both(FALSE, FALSE), lead |-> "none", brutal |-> FALSE]

Hidden == [Plain EXCEPT !.mode = Both(1, 2)]

(* Names given by A alone, handed on from the client or taken off by A; and *)
(* a relay in front of B that does not know the handshake.                  *)
Tunnels ==
  { [Hidden EXCEPT !.limit = Both(TRUE, TRUE)],
    [Hidden EXCEPT !.accept = Both(FALSE, TRUE), !.send = Both(TRUE, FALSE), !.brutal = TRUE],
    [Plain EXCEPT !.accept = Both(TRUE, TRUE), !.send = Both(TRUE, TRUE), !.lead = "tcp"],
    [Plain EXCEPT !.accept = Both(TRUE, TRUE), !.send = Both(TRUE, TRUE), !.lead = "other",
                  !.limit = Both(FALSE, TRUE)],
    [Plain EXCEPT !.accept = Both(TRUE, FALSE), !.send = Both(FALSE, TRUE), !.lead = "tcp",
                  !.brutal = TRUE],
    [Plain EXCEPT !.mode = Both(0, 2)] }

(* Nothing but a limit. *)
LateTunnels == {[Plain EXCEPT !.limit = Both(TRUE, FALSE)]}

(* The server says more than the client. *)
Chunks == [p \in Party |-> IF p = "S" THEN 2 ELSE 1]
=============================================================================
