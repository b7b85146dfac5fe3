CONSTANTS
    a = a  b = b  c = c  a1 = a1  a2 = a2  b1 = b1  b2 = b2  l1 = l1  l2 = l2
    NoEgg = NoEgg  NoThread = NoThread  NoModel = NoModel
    Models = {a}
    Registered = {a}
    KindOf <- TwoKinds
    Eggs = {a1, a2}
    ModelOf <- MCModelOf
    Loaders = {l1}
    Worker = Worker
    HatchMode = TRUE
    MaxResident = 1
    DefaultModel = a
    FailLimit = 2
    MaxStaleKills = 2
    Events = {"infer","die","stall","fail","pin","stop"}
SPECIFICATION FairSpec
INVARIANT AbandonedStaysDown
 
 
