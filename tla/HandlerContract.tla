--------------------------- MODULE HandlerContract ---------------------------
(***************************************************************************)
(* What a listener promises about its handlers (rsb/Listener.h, addHandler *)
(* and removeHandler): a handler is called only between the two, and       *)
(* removeHandler returns only when no call of it is left.                  *)
(***************************************************************************)
EXTENDS Naturals

CONSTANTS Handlers, Events

VARIABLES installed, \* handlers that may be called
          calls      \* calls in progress: pairs of a handler and an event

vars == <<installed, calls>>

Init == installed = {} /\ calls = {}

Install(h) == installed' = installed \cup {h} /\ UNCHANGED calls

\* removeHandler returns
Uninstall(h) ==
    /\ \A e \in Events : <<h, e>> \notin calls
    /\ installed' = installed \ {h}
    /\ UNCHANGED calls

Begin(h, e) ==
    /\ h \in installed
    /\ calls' = calls \cup {<<h, e>>}
    /\ UNCHANGED installed

End(h, e) == calls' = calls \ {<<h, e>>} /\ UNCHANGED installed

Next ==
    \E h \in Handlers :
        \/ Install(h) \/ Uninstall(h)
        \/ \E e \in Events : Begin(h, e) \/ End(h, e)

Spec == Init /\ [][Next]_vars
=============================================================================
