CONSTANTS
    a = a  b = b  c = c  a1 = a1  a2 = a2  b1 = b1  b2 = b2  l1 = l1  l2 = l2
    NoEgg = NoEgg  NoThread = NoThread  NoModel = NoModel
    Models = {a, b}
    Registered = {a, b}
    KindOf <- OneKind
    Eggs = {a1, a2, b1, b2}
    ModelOf <- MCModelOf
    Loaders = {l1}
    Worker = Worker
    HatchMode = FALSE
    MaxResident = 1
    DefaultModel = NoModel
    FailLimit = 1
    MaxStaleKills = 1
    Events = {"infer","unload"}
SPECIFICATION Spec
SYMMETRY EggSymmetry
PROPERTY UnloadSparesInflight
