CONSTANTS
    MaxHead = 2
    MaxReviewRounds = 2
    MaxDecisions = 1
SPECIFICATION Spec
INVARIANTS
    SingleLiveAgent
    PromptedAtMostOnce
    PublishedHeadWasReviewed
    UnattendedWorkIsBounded
    RecoveriesBind
    PolicyRetriesLoseNothing
CHECK_DEADLOCK FALSE
CONSTRAINT TwoChanges
