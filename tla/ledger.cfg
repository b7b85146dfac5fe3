CONSTANTS
    a = a  b = b  p1 = p1  p2 = p2
    NoPid = NoPid  NoModel = NoModel
    Models = {a, b}
    Pids = {p1, p2}
    MaxCrashes = 1
SPECIFICATION Spec
SYMMETRY PidSymmetry
INVARIANT VerdictLogged
INVARIANT VanishedIsDead
INVARIANT UnloadNotVanished
PROPERTY RecordKept
