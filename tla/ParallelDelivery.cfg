SPECIFICATION FairSpec
CONSTANTS
    Workers = {w1, w2}
    h1 = h1
    h2 = h2
    f1 = f1
    Handlers <- MCHandlers
    Filters <- MCFilters
    Passes <- MCPasses
    Throwing = {h1}
    MaxEvents = 3
    ParallelHandlerCalls = FALSE
    HandlersRemove = FALSE
INVARIANT HandledInOrder
PROPERTIES ContractSpec Progress
CHECK_DEADLOCK FALSE
