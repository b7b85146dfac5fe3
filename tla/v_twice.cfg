CONSTANTS
    a = a b = b w = w ra = ra rb = rb rw = rw ax = ax
    NoTask = NoTask
    Requests = {a, b}
    Reworks = {}
    Reviews = {ra, rb}
    ReviewOf <- TwoReviews
    AgainOf <- NoneAgain
    ReworkOf <- NoneAgain
    External = {a}
    ZergFlow = {}
    MaxRetry = 1
    MaxHistory = 2
    WaitScans = 1
    InitMax = 1
    Sizes = {}
    Writes = {TRUE}
    Events = {}
    MaxOps = 0
    MaxCrashes = 0
SPECIFICATION Spec
INVARIANT FileOnce
