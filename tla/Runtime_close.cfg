SPECIFICATION FairSpec
CONSTANTS
    Runner = {r1}
    Nobody = Nobody
    MaxResults = 0
CHECK_DEADLOCK FALSE
PROPERTIES
    BlockedIsClosed
