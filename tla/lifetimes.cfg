SPECIFICATION FairSpec
CONSTANTS
    CampaignIds = {1}
    Pools = {"nft"}
    ManifestIds = {1}
    Allocations = {0, 1}
    TTL = 3
    BALANCE_EXTEND_AMOUNT = 2
    BALANCE_TTL_THRESHOLD = 0
    MinPersistentTtl = 1
    EXPIRY = 2
    MAX_CLAIM_WINDOW = 2
    Cadence = {1}
    MaxSeq = 6
    MaxTouches = 1
INVARIANTS
    LiveToTheEnd
PROPERTIES
    EndsDespiteArchival
CHECK_DEADLOCK FALSE
