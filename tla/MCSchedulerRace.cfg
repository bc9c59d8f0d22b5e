SPECIFICATION Spec
CONSTANTS
    r1 = r1
    r2 = r2
    r3 = r3
    Request = {r1, r2}
    NoRequest = NoRequest
    SLOTS = 3
    QUEUE = 2
    CHANNEL = 1
    PoolSizes = {4}
    PAGE_ROWS = 2
    VERIFY = 1
    Layouts = {"TargetPass", "DistributedTargetPass"}
    Prompt <- ShortPrompts
    Output <- LongAnswers
    Leavers = {}
CHECK_DEADLOCK FALSE
INVARIANT CheckedRoomHolds
