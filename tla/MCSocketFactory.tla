--------------------------- MODULE MCSocketFactory ---------------------------
(* A small instance of SocketFactory for TLC. *)
EXTENDS SocketFactory, TLC

CONSTANTS c1, c2, c3, p1, p2

\* Two connectors in one process and a third in another one.
MCProcessOf == (c1 :> p1) @@ (c2 :> p1) @@ (c3 :> p2)

\* Two names of the machine
MCHosts == {"host", "alias"}

W(m, h, n, w) == [mode |-> m, host |-> h, tcpnodelay |-> n, wait |-> w]

\* Every mode, with and without waiting, another name, and other socket options.
MCWishes == { W("auto", "host", FALSE, TRUE), W("auto", "host", TRUE, FALSE),
              W("yes", "host", FALSE, TRUE),
              W("no", "host", FALSE, TRUE), W("no", "alias", FALSE, TRUE) }

\* Connectors of one process are alike: c1 is activated before c2, and of two
\* of them one at most insists on being the server.  Names and socket options
\* matter between connectors of one process: c3 does without.
OneOrder ==
    /\ pc'[c2] # "idle" => pc'[c1] # "idle"
    /\ wish'[c2] # None => wish'[c2].mode # "yes"
    /\ wish'[c3] # None => wish'[c3] \in { W("auto", "host", FALSE, TRUE), W("no", "host", FALSE, TRUE) }

OrderedSpec == Init /\ [][Next /\ OneOrder]_vars /\ Fairness
==============================================================================
