SPECIFICATION OperatorSpec
CONSTANTS
    MaxApprovals = 1
    MaxEntries = 4
    MaxFailures = 2
    MaxSequence = 1
PROPERTIES
    NoResubmission
CHECK_DEADLOCK FALSE
