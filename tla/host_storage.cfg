SPECIFICATION Spec
CONSTANTS
    Contracts = {"A", "B"}
    Deployed = {"A"}
    Hashes = {"h1", "h2"}
    Uploaded = {"h1"}
    DataKeys = {"k"}
    Values = {"x"}
    MinTempTtl = 1
    MinPersistentTtl = 2
    MaxTtl = 4
    ExtendTo <- MCExtendTo
    Footprints <- MCFootprints
    Modes = {"enforcing", "recording"}
    Durabilities = {"temporary", "persistent", "instance"}
    DepthLimit = 4
    MaxSteps = 4
    MaxTxs = 2
    MaxSeq = 3
INVARIANTS
    CommitIsSurvivingWrites
    RecordedFootprintSuffices
PROPERTIES
    LifeNeverReduced
CHECK_DEADLOCK FALSE
