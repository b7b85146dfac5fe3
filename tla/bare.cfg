CONSTANTS
    a = a  b = b  c = c  a1 = a1  a2 = a2  b1 = b1  b2 = b2  l1 = l1  l2 = l2
    NoEgg = NoEgg  NoThread = NoThread  NoModel = NoModel
    Models = {a, b, c}
    Registered = {a, b}
    KindOf <- TwoKinds
    Eggs = {a1, a2, b1, b2}
    ModelOf <- MCModelOf
    Loaders = {l1}
    Worker = Worker
    HatchMode = FALSE
    MaxResident = 1
    DefaultModel = NoModel
    FailLimit = 1
    MaxStaleKills = 1
    Events = {"infer", "reap", "unload", "pin", "die"}
SPECIFICATION Spec
SYMMETRY EggSymmetry
INVARIANT TypeOK
INVARIANT NoOrphan
INVARIANT OneServiceKind
INVARIANT InflightTruthful
INVARIANT DyingNotServed
PROPERTY PinRespected
