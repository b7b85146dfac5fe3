CONSTANTS
    a = a b = b w = w ra = ra rb = rb rw = rw ax = ax
    NoTask = NoTask
    Requests = {a, b}
    Reworks = {}
    Reviews = {ra, rb}
    ReviewOf <- TwoReviews
    AgainOf <- NoneAgain
    ReworkOf <- NoneAgain
    External = {}
    ZergFlow = {a}
    MaxRetry = 1
    MaxHistory = 2
    WaitScans = 1
    InitMax = 1
    Sizes = {1, 2}
    Writes = {TRUE}
    Events = {"suspend"}
    MaxOps = 0
    MaxCrashes = 1
SPECIFICATION Spec
INVARIANT WaitingKept
