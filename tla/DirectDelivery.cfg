SPECIFICATION Spec
CONSTANTS
    Threads = {t1}
    Handlers = {h1}
    MaxEvents = 1
PROPERTY ContractSpec
CHECK_DEADLOCK FALSE
