--------------------------- MODULE MCTcpEndpoint ---------------------------
(* Two peers, the first of which has two addresses.                         *)
EXTENDS TcpEndpoint, TLC

TwoAddrs == (0 :> <<"a", "b">>) @@ (1 :> <<"c">>)

OneAddr == 0 :> <<"a">>
=============================================================================
