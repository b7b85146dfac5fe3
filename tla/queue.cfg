CONSTANTS
    a = a   r1 = r1  r2 = r2  r3 = r3
    NoModel = NoModel  NoRequest = NoRequest
    Models = {a}
    Requests = {r1, r2, r3}
    Cap = 2
SPECIFICATION FairSpec
INVARIANT NoLostWakeup
INVARIANT SendsNeverBlock
INVARIANT NoBlankAnswer
PROPERTY KeepsPromise
PROPERTY EveryCallAnswered
