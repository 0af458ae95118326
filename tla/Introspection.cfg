SPECIFICATION FairSpec
CONSTANTS
    Participants = {a, b, c}
    Disabled = {c}
    MaxQueries = 1
INVARIANTS EveryoneIsTold InformerOutlivesAnswers
PROPERTIES DirectorySpec SignalsReturn
CHECK_DEADLOCK FALSE
