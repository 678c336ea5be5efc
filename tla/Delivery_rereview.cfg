CONSTANTS
    MaxWork = 2
    MaxBase = 1
SPECIFICATION Spec
INVARIANT
    NoAutoMergeUnderReview
CHECK_DEADLOCK FALSE
