-------------------------- MODULE ProcessDescription --------------------------
(***************************************************************************)
(* What a process tells of itself: rsb/introspection/Model.cpp, which asks    *)
(* the operating system and makes do without an answer, and the constructor   *)
(* and sendHello of rsb/introspection/IntrospectionSender.cpp, which use it.   *)
(* When a Hello is sent is the subject of Introspection.                      *)
(*                                                                         *)
(* A name is a sequence of characters, like the text of a scope.              *)
(***************************************************************************)
EXTENDS ScopeSyntax

CONSTANT HostNames \* what the operating system may call the host

\* Functions of rsc::os
ProcessQueries == {"programName", "commandlineArguments", "processStartTime", "executingUser"}
HostQueries == {"hostId", "hostname", "machineType", "machineVersion", "softwareType", "softwareVersion"}

VARIABLES os,      \* "linux" or "darwin", the host's names
          failing, \* the functions that throw
          hasParent,
          progress, \* "start", "described", "serving", "told" or "thrown"
          process, host, \* ProcessInfo and HostInfo: what is known
          hello          \* protocol::introspection::Hello: its fields that are set

descriptionVars == <<os, failing, hasParent, progress, process, host, hello>>

Unknown == <<>>

DescriptionInit ==
    /\ os \in [type : {"linux", "darwin"}, id : HostNames, hostname : HostNames]
    /\ failing \in SUBSET (ProcessQueries \cup HostQueries)
    /\ hasParent \in BOOLEAN
    /\ progress = "start" /\ process = Unknown /\ host = Unknown /\ hello = Unknown

-----------------------------------------------------------------------------
(* Model.cpp *)

\* The wrapped functions: a fallback for an exception
Try(query, value, fallback) == IF query \in failing THEN fallback ELSE value

SoftwareType == Try("softwareType", os.type, "")
HostName == Try("hostname", os.hostname, <<"?">>)

\* currentCompatibleHostId: for some systems the name of the host
HostId == IF SoftwareType \in {"win32", "darwin"} THEN HostName ELSE Try("hostId", os.id, Unknown)

\* The fields that are set: those without an answer only if they have a fallback
Told(queries, optional) == {q \in queries : q \in failing => q \notin optional}

\* What the observer says of the participant itself
ParticipantInfo == {"id", "kind", "scope"} \cup (IF hasParent THEN {"parent"} ELSE {})

ProcessInfo == [fields |-> Told(ProcessQueries, {"commandlineArguments", "executingUser"})]

HostInfo ==
    [id |-> HostId, hostname |-> HostName,
     fields |-> Told(HostQueries \ {"hostId", "hostname"}, HostQueries)]

-----------------------------------------------------------------------------
(* IntrospectionSender.cpp *)

\* Mutated: the functions of rsc are not wrapped.
Describe_unwrapped ==
    /\ progress = "start"
    /\ IF failing = {}
       THEN progress' = "described" /\ process' = ProcessInfo /\ host' = HostInfo
       ELSE progress' = "thrown" /\ UNCHANGED <<process, host>>
    /\ UNCHANGED <<os, failing, hasParent, hello>>

\* The members of the sender are made.
Describe ==
    /\ progress = "start"
    /\ progress' = "described" /\ process' = ProcessInfo /\ host' = HostInfo
    /\ UNCHANGED <<os, failing, hasParent, hello>>

\* The host's identifier is a component of the scope of the sender's server.
CreateServer ==
    /\ progress = "described"
    /\ progress' = IF host.id \in Component THEN "serving" ELSE "thrown"
    /\ UNCHANGED <<os, failing, hasParent, process, host, hello>>

\* sendHello: optional fields are set if there is something to say.
TellHello ==
    /\ progress = "serving"
    /\ progress' = "told"
    /\ hello' = [participant |-> ParticipantInfo,
                 process     |-> process.fields \cup {"pid", "rsbVersion"},
                 host        |-> host.fields \cup {"hostname"}
                                     \cup (IF host.id = Unknown THEN {} ELSE {"hostId"})]
    /\ UNCHANGED <<os, failing, hasParent, process, host>>

DescriptionNext == Describe \/ CreateServer \/ TellHello

DescriptionSpec == DescriptionInit /\ [][DescriptionNext]_descriptionVars

-----------------------------------------------------------------------------
(* Properties *)

\* What the operating system cannot say does not keep a process from telling
\* others about its participants, unless it is the one name of the host that is
\* part of a scope, or that name has characters a scope may not have: then the
\* creation of any participant fails (Model.h:81, IntrospectionSender.cpp:143).
DescribedUnlessNameless ==
    progress = "thrown" =>
        LET byName == os.type = "darwin" /\ "softwareType" \notin failing
        IN  IF byName THEN "hostname" \in failing \/ os.hostname \notin Component
            ELSE "hostId" \in failing \/ os.id \notin Component
===============================================================================
