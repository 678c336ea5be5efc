CONSTANTS
    MaxWork = 3
    MaxBase = 1
SPECIFICATION FairSpec
INVARIANTS
    OnlyReviewedWorkLands
    ReviewSawRecordedBase
    HeldCiCannotAutoMerge
    CiRecoveryStaysBound
PROPERTIES
    MergeIsNoticed
CHECK_DEADLOCK FALSE
