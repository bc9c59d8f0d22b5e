SPECIFICATION InTurnSpec
CONSTANTS
    r1 = r1
    r2 = r2
    r3 = r3
    Request = {r1, r2, r3}
    NoRequest = NoRequest
    SLOTS = 3
    QUEUE = 2
    CHANNEL = 1
    PoolSizes = {1, 4, 6}
    PAGE_ROWS = 2
    VERIFY = 1
    Layouts = {"TargetPass", "DistributedTargetPass"}
    Prompt <- ShortPrompts
    Output <- ShortAnswers
    Leavers = {r1, r2, r3}
CHECK_DEADLOCK FALSE
INVARIANTS
    SchedulerTypeOK
    LanesWithinBatch
    BudgetsCovered
    AnsweredWhenGone
PROPERTIES
    DrainsAdmit
    KeepsTheLine
