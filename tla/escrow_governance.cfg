SPECIFICATION FairSpec
CONSTANTS
    None = None
    Gov = Gov
    Backup = Backup
    Alice = Alice
    Bob = Bob
    Creator = Creator
    Friend = Friend
    Escrow1 = Escrow1
    PoolA = PoolA
    PoolB = PoolB
    Accounts <- MCAccounts
    Contracts <- MCContracts
    Capacity <- MCCapacity
    MaxTimestamp = 2
    PaymentAmounts = {1}
    SignerSets <- MCGovernanceSigns
    InitialBalances <- MCInitialBalances
    Payers = {}
    Payees = {Escrow1}
    Freezable = {}
    Clawable = {}
    MaxClawed = 1
    Escrow = Escrow1
    Pools = {PoolA, PoolB}
    Deployer = Gov
    CampaignIds = {1}
    Sponsors = {Alice, Bob}
    Amounts = {100}
    Creators = {Creator}
    Referrers = {Friend}
    Terms = {hash}
    Treasuries = {Gov}
    Authorities = {Gov, Backup}
    Nominees = {Gov, Backup}
    EXPIRY = 1
    I128Max <- MCI128Max
PROPERTIES
    GovernanceAloneCannotSettle
CHECK_DEADLOCK FALSE
