SPECIFICATION Spec
CONSTANTS
    Project = {p1}
    Supervisor = {s1, s2}
    Controller = {c1}
    Nobody = Nobody
    MaxRestarts = 1
    Window = 1
    StableAfter = 1
    InitialBackoff = 1
    MaxBackoff = 1
    MaxRunning = 1
INVARIANTS
    StopIsClean
PROPERTIES
    RestartBudget
SYMMETRY Symmetry
