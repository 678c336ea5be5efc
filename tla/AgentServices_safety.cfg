CONSTANTS
    Process = {q1, q2, q3}
    Nobody = Nobody
    MaxReviews = 2
    MaxContexts = 2
    MaxSpoils = 1
    MaxTurns = 3
    MaxCompactions = 1
SPECIFICATION AgentSpec
INVARIANTS
    VerdictIsHonest
    ReviewIsEarned
    CompactionIsRecorded
    HolderOwnsLease
CHECK_DEADLOCK FALSE
