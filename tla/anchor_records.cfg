SPECIFICATION AnchorSpec
CONSTANTS
    None = None
    Admin = Admin
    Setup = Setup
    Other = Other
    Accounts <- MCAccounts
    SignerSets <- MCSomeSign
    MaxTimestamp = 1
    AnchorDeployer = Setup
    Admins = {Admin, Other, Setup}
    Profiles = {1, 2}
    Subjects = {creator}
    Scores = {0, 1000, 1001}
    Tiers = {"gold"}
    References = {"", "0xab"}
    Requests <- MCRequests
    MaxEvents = 3
INVARIANTS
    RecordsAgree
CHECK_DEADLOCK FALSE
