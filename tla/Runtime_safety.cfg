SPECIFICATION Spec
CONSTANTS
    Runner = {r1, r2}
    Nobody = Nobody
    MaxResults = 1
SYMMETRY Symmetry
CHECK_DEADLOCK FALSE
INVARIANTS
    PromptedOnce
    ResultIsFinal
    CleanFailureStaysClean
    ClosedNeverWorks
