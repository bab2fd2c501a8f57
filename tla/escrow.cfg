SPECIFICATION FairSpec
CONSTANTS
    None = None
    Gov = Gov
    Backup = Backup
    Alice = Alice
    Bob = Bob
    Creator = Creator
    Friend = Friend
    Escrow1 = Escrow1
    PoolA = PoolA
    PoolB = PoolB
    Accounts <- MCAccounts
    Contracts <- MCContracts
    Capacity <- MCCapacity
    MaxTimestamp = 2
    PaymentAmounts = {1}
    SignerSets <- MCTwoSets
    InitialBalances <- MCInitialBalances
    Payers = {}
    Payees = {Escrow1}
    Freezable = {Alice}
    Clawable = {Escrow1}
    MaxClawed = 1
    Escrow = Escrow1
    Pools = {PoolA, PoolB}
    Deployer = Gov
    CampaignIds = {1, 2}
    Sponsors = {Alice, Bob}
    Amounts = {99, 101, 102}
    Creators = {Creator}
    Referrers = {Friend}
    Terms = {hash, other}
    Treasuries = {Gov}
    Authorities = {Gov}
    Nominees = {Backup}
    EXPIRY = 1
    I128Max <- MCI128Max
INVARIANTS
    LiabilityIsOpenCampaigns
    Solvency
    SplitIsExact
    ConsumedIffCompleted
    RefundAlwaysPossible
    GovernanceCanSign
PROPERTIES
    OutflowIsOneSettlement
    CommitmentsAreFinal
    OnlySignersSpend
    FundsAreReleased
CHECK_DEADLOCK FALSE
