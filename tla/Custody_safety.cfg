CONSTANTS
    c1 = c1  c2 = c2  c3 = c3  o1 = o1
    Controller = {c1, c2, c3}
    Operator = {o1}
    Writer = {c1, c2, c3, o1}
    MaxJobs = 1
    MaxRev = 1
SPECIFICATION CustodySpec
INVARIANTS
    ExclusiveUnlessSwapped
    OnlyOperatorsOvertake
PROPERTIES
    LedgerIsAtomic
    AuditTellsTheState
SYMMETRY Interchangeable
CHECK_DEADLOCK FALSE
