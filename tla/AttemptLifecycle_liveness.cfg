CONSTANTS
    MaxHead = 1
    MaxReviewRounds = 2
    MaxDecisions = 1
SPECIFICATION FairSpec
PROPERTIES
    AttemptsEnd
    ApprovedRecoveryEnds
    IncidentsAreAnalysed
    JobIsDelivered
CHECK_DEADLOCK FALSE
CONSTRAINT DisturbedInFirstRound
