SPECIFICATION FairSpec
CONSTANTS
    Calls = {q1}
    Servers = {s1}
    Mismatched = {}
    Transports = 1
    OwnCauses = TRUE
    Failures = FALSE
PROPERTY AnswerArrives
CHECK_DEADLOCK FALSE
