CONSTANTS
    a = a b = b w = w ra = ra rb = rb rw = rw ax = ax
    NoTask = NoTask
    Requests = {a, b}
    Reworks = {}
    Reviews = {ra, rb}
    ReviewOf <- TwoReviews
    AgainOf <- NoneAgain
    ReworkOf <- NoneAgain
    External = {a}
    ZergFlow = {a}
    MaxRetry = 1
    MaxHistory = 3
    WaitScans = 1
    InitMax = 1
    Sizes = {2}
    Writes = {TRUE}
    Events = {"terminate", "requeue", "reclaim", "cancel", "pause", "retry", "delete", "move", "knobs"}
    MaxOps = 1
    MaxCrashes = 1
SPECIFICATION Spec
INVARIANT TypeOK
INVARIANT NoSlotLeak
INVARIANT NoStrandedQueue
INVARIANT JobKept
PROPERTY CancelFinal
