--------------------------- MODULE MCSocketNetwork ---------------------------
(* A small instance of SocketNetwork for TLC: one client publishes twice, so *)
(* that an event can be missing or overtaken, the hub once, the other client *)
(* only listens, joins, leaves and crashes.                                 *)
EXTENDS SocketNetwork, TLC

CONSTANTS k1, k2

MCClients == {k1, k2}
MCMaxSent == (k1 :> 2) @@ (k2 :> 0) @@ (Hub :> 1)
==============================================================================
