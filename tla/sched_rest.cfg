CONSTANTS
    a = a b = b w = w ra = ra rb = rb rw = rw ax = ax
    NoTask = NoTask
    Requests = {a}
    Reworks = {w}
    Reviews = {ra, rw, ax}
    ReviewOf <- ThreeReviews
    AgainOf <- AgainA
    ReworkOf <- ReworkA
    External = {}
    ZergFlow = {a}
    MaxRetry = 1
    MaxHistory = 4
    WaitScans = 1
    InitMax = 1
    Sizes = {}
    Writes = {TRUE}
    Events = {"suspend", "cancel", "retry", "knobs"}
    MaxOps = 2
    MaxCrashes = 1
SPECIFICATION FairSpec
INVARIANT OnePlace
PROPERTY CancelFinal
PROPERTY DoneFinal
PROPERTY PauseHolds
PROPERTY ComesToRest
