------------------------------ MODULE LocalBus ------------------------------
(* The constants of the two buses that route events inside a process,        *)
(* InprocessBus and SocketSinks.                                             *)
EXTENDS Naturals, Sequences, FiniteSets

CONSTANTS Connectors,        \* in-connectors
          Scopes,            \* scopes in use
          MaxEvents,         \* bound on the number of published events
          ReleaseWhileActive \* may the owner drop an in-process connector
                             \* it has not deactivated? Participants never
                             \* do (their route configurator deactivates
                             \* first); the connector's destructor allows
                             \* it.

ASSUME ConnectorsAssumption == IsFiniteSet(Connectors)
ASSUME ScopesAssumption == Scopes # {} /\ Scopes \subseteq Seq(STRING)
ASSUME MaxEventsAssumption == MaxEvents \in Nat
ASSUME ReleaseAssumption == ReleaseWhileActive \in BOOLEAN
=============================================================================
