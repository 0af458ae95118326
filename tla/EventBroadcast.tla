--------------------------- MODULE EventBroadcast ---------------------------
(***************************************************************************)
(* What processes connected by a bus may rely on: every process sees the   *)
(* events of every process in the order they were published, each once and *)
(* without gaps, from some point on (when it joined) up to some point (when *)
(* it, or the publisher, left).  There is no order between publishers.     *)
(***************************************************************************)
EXTENDS Naturals, Sequences

CONSTANTS Processes

VARIABLES sent,  \* sent[p]: number of events p has published
          inbox  \* inbox[p]: the events p's sinks were given

vars == <<sent, inbox>>

Init == sent = [p \in Processes |-> 0] /\ inbox = [p \in Processes |-> <<>>]

\* The numbers of o's events that p has seen
Seen(p, o) == {inbox[p][i].n : i \in {k \in DOMAIN inbox[p] : inbox[p][k].from = o}}

Deliver(p, event) ==
    /\ Seen(p, event.from) # {} => event.n - 1 \in Seen(p, event.from)
    /\ event.n \notin Seen(p, event.from)
    /\ event.n \in 1..sent'[event.from]
    /\ inbox' = [inbox EXCEPT ![p] = Append(@, event)]

\* The publisher's own process sees the event at once.
Publish(p) ==
    /\ sent' = [sent EXCEPT ![p] = @ + 1]
    /\ Deliver(p, [from |-> p, n |-> sent[p] + 1])

Next ==
    \E p \in Processes :
        \/ Publish(p)
        \/ /\ UNCHANGED sent
           /\ \E o \in Processes \ {p} : \E n \in 1..sent[o] : Deliver(p, [from |-> o, n |-> n])

Spec == Init /\ [][Next]_vars
=============================================================================
