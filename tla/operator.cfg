SPECIFICATION OperatorFairSpec
CONSTANTS
    MaxApprovals = 2
    MaxEntries = 4
    MaxFailures = 1
    MaxSequence = 2
INVARIANTS
    BroadcastIsRecorded
    RecordsAreTrue
PROPERTIES
    EvidenceIsFinal
    CompletionGetsConfirmed
CHECK_DEADLOCK FALSE
