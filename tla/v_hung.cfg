CONSTANTS
    a = a  b = b  c = c  a1 = a1  a2 = a2  b1 = b1  b2 = b2  l1 = l1  l2 = l2
    NoEgg = NoEgg  NoThread = NoThread  NoModel = NoModel
    Models = {a}
    Registered = {a}
    KindOf <- OneKind
    Eggs = {a1, a2}
    ModelOf <- MCModelOf
    Loaders = {l1}
    Worker = Worker
    HatchMode = FALSE
    MaxResident = 1
    DefaultModel = a
    FailLimit = 1
    MaxStaleKills = 1
    Events = {"infer","stall"}
SPECIFICATION FairSpec
PROPERTY StuckRequestEnds
