SPECIFICATION SystemSpec
CONSTANTS
    None = None
    Gov = Gov
    Elig = Elig
    Alice = Alice
    Creator = Creator
    Friend = Friend
    Escrow1 = Escrow1
    PoolX = PoolX
    PoolY = PoolY
    Accounts <- MCAccounts
    Contracts <- MCContracts
    Capacity <- MCCapacity
    MaxTimestamp = 1
    PaymentAmounts = {1}
    SignerSets <- MCAllSign
    InitialBalances <- MCInitialBalances
    Payers = {Elig}
    Payees = {PoolX, PoolY}
    Freezable = {}
    Clawable = {}
    MaxClawed = 1
    Escrow = Escrow1
    Pools = {PoolX, PoolY}
    PoolA = PoolX
    PoolB = PoolY
    Deployer = Gov
    CampaignIds = {1, 2}
    Sponsors = {Alice}
    Amounts = {100}
    Creators = {PoolX}
    Referrers = {Friend}
    Terms = {hash}
    Treasuries = {Gov}
    Authorities = {Gov}
    Nominees = {}
    EXPIRY = 1
    I128Max <- MCI128Max
    PoolEscrows = {Escrow1, Elig}
    PoolAuthorities = {Gov, Elig}
    PoolNominees = {}
    CreditAmounts = {1}
    ManifestIds = {1}
    Lists <- MCLists
    MAX_ALLOCATIONS = 2
    MAX_CLAIM_WINDOW = 1
INVARIANTS
    SystemBooks
PROPERTIES
    EscrowInContext
    PoolsInContext
CHECK_DEADLOCK FALSE
