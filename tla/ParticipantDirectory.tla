------------------------ MODULE ParticipantDirectory -------------------------
(***************************************************************************)
(* What introspection promises to a process that follows the messages about *)
(* the participants of another one: a participant appears while it exists,  *)
(* it vanishes before it has ceased to exist, and it does not come back,    *)
(* unless it had to go without a word.                                     *)
(***************************************************************************)
CONSTANT Participants

VARIABLES alive,    \* participants that exist
          leftover, \* participants that could not say that they were going
          known     \* known[p]: "unknown", "present" or "absent"

vars == <<alive, leftover, known>>

Init ==
    /\ alive = {} /\ leftover = {}
    /\ known = [p \in Participants |-> "unknown"]

Start(p) ==
    /\ known[p] = "unknown"
    /\ alive' = alive \cup {p}
    /\ UNCHANGED <<leftover, known>>

Appear(p) ==
    /\ p \in alive /\ known[p] = "unknown"
    /\ known' = [known EXCEPT ![p] = "present"]
    /\ UNCHANGED <<alive, leftover>>

\* A participant that could not be announced may say that it goes, too.
Vanish(p) ==
    /\ p \in alive /\ known[p] # "absent"
    /\ known' = [known EXCEPT ![p] = "absent"]
    /\ UNCHANGED <<alive, leftover>>

End(p) ==
    /\ known[p] # "present"
    /\ alive' = alive \ {p}
    /\ UNCHANGED <<leftover, known>>

\* A participant that is known to exist cannot say that it goes, or only some
\* hear it; from now on it may be taken for alive.
LeaveUnsaid(p) ==
    /\ p \in alive /\ known[p] = "present"
    /\ alive' = alive \ {p}
    /\ leftover' = leftover \cup {p}
    /\ \E k \in {"present", "absent"} : known' = [known EXCEPT ![p] = k]

Haunt(p) ==
    /\ p \in leftover
    /\ known' = [known EXCEPT ![p] = "present"]
    /\ UNCHANGED <<alive, leftover>>

Next ==
    \E p \in Participants :
        Start(p) \/ Appear(p) \/ Vanish(p) \/ End(p) \/ LeaveUnsaid(p) \/ Haunt(p)

Spec == Init /\ [][Next]_vars
==============================================================================
