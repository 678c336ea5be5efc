CONSTANTS
    Issue = {1, 2, 3, 4}
    Blockers <- MCBlockers
    Shapes <- MCShapes
    MaxEdits = 3
SPECIFICATION FairSpec
INVARIANTS
    WorkIsClaimed
    DoneIsNeverRedone
    NoOrphanClaim
PROPERTIES
    ClaimsTheFrontier
    ClaimsResolve
    SlotIsFreed
CHECK_DEADLOCK FALSE
