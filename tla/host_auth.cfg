SPECIFICATION Spec
CONSTANTS
    Keys <- MCKeys
    SignerWeight <- MCSignerWeight
    MediumThreshold <- MCMediumThreshold
    MinTempTtl = 1
    MaxTtl = 4
    Functions <- MCFunctions
    Objects <- MCObjects
    AddressOf <- MCAddressOf
    Source = "alice"
    Declared <- MCDeclared
    EntrySets <- MCEntrySets
    InvokerTrees <- MCInvokerTrees
    Recording = TRUE
    DisableNonRoot = FALSE
    DepthLimit = 5
    MaxSteps = 6
    MaxRecorded = 4
    MaxTxs = 2
    MaxSeq = 3
INVARIANTS
    GrantedInContext
    GrantsSurviveExactly
    NoReplay
    RecordedEntriesSuffice
CHECK_DEADLOCK FALSE
