SPECIFICATION ApiFairSpec
CONSTANTS
    NUMBER_OF_ITEM = 2
    IdMod = 3
    NoTask = NoTask
    NULL = NULL
    api = api
    wifi = wifi
    t1 = t1
    t2 = t2
    open = open
    join = join
    send = send
    Tasks <- MCTasks
    Objects <- MCObjects
    Cmds <- MCCmds
    RawCmds <- MCRawCmds
    StrayIds <- MCStray
INVARIANTS
    OwnAnswer
    HandlerHolds
PROPERTY CallReturns
VIEW ApiView
CHECK_DEADLOCK FALSE
