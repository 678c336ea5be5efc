SPECIFICATION FairSpec
CONSTANTS
    Project = {p1}
    Supervisor = {s1}
    Controller = {c1, c2}
    Nobody = Nobody
    MaxRestarts = 1
    Window = 2
    StableAfter = 2
    InitialBackoff = 1
    MaxBackoff = 1
    MaxRunning = 1
PROPERTIES
    Supervised
