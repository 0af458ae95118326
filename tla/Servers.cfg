SPECIFICATION ServersSpec
CONSTANTS
    Calls = {q1, q2}
    Servers = {s1, s2}
    Mismatched = {q2}
    Transports = 2
    OwnCauses = FALSE
    Failures = TRUE
    Threads = {t1, t2, t3}
    Names = {"echo", "ping"}
    Classes = {"local", "remote"}
    MaxEvents = 3
    Nobody = Nobody
INVARIANTS NoReplyLost SettledOnce MethodsSound
PROPERTIES RpcSpec AnswerArrives ServerEnds
CHECK_DEADLOCK FALSE
