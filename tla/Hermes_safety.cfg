CONSTANTS
    MaxJobs = 2
    MaxIncidents = 1
    MaxLines = 1
    MaxFaults = 1
    MAX_OUTBOX = 2
    TerminalWindow = 1
    Press = {p1, p2}
    MaxChallenges = 2
    MaxRevision = 2
    MaxChanges = 2
SPECIFICATION HermesSpec
INVARIANTS
    NothingForgotten
    AlarmsAreTold
    AnswersAreExact
PROPERTIES
    NoReplay
CHECK_DEADLOCK FALSE
