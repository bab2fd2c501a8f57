SPECIFICATION PoolFairSpec
CONSTANTS
    None = None
    Gov = Gov
    Elig = Elig
    Ann = Ann
    Ben = Ben
    Escrow1 = Escrow1
    Pool1 = Pool1
    Accounts <- MCAccounts
    Contracts <- MCContracts
    Capacity <- MCCapacity
    MaxTimestamp = 2
    PaymentAmounts = {1}
    SignerSets <- MCTwoSets
    InitialBalances <- MCInitialBalances
    Payers = {Gov}
    Payees = {Pool1}
    Freezable = {}
    Clawable = {Pool1}
    MaxClawed = 1
    Self = Pool1
    PoolDeployer = Gov
    PoolEscrows = {Escrow1, Elig}
    PoolAuthorities = {Gov, Elig}
    PoolNominees = {Ben}
    CreditIds = {1, 2}
    CreditAmounts = {0, 2}
    ManifestIds = {1, 2}
    Lists <- MCLists
    MAX_ALLOCATIONS = 2
    MAX_CLAIM_WINDOW = 1
    PoolMax = 6
INVARIANTS
    PoolBooks
    PoolSolvency
    NoSingleAuthority
PROPERTIES
    PoolOutflowIsOneClaim
    OnlyCreditsAreAllocatable
    ReservationsEnd
CHECK_DEADLOCK FALSE
