SPECIFICATION Spec
CONSTANTS
    Accounts = {"issuer", "user"}
    Contracts = {"escrow"}
    Issuer = "issuer"
    Assets = {"native", "alphanum4"}
    I64Max = 4
    I128Max = 5
    BaseReserve = 1
    AccountEntries <- MCAccountEntries
    TrustLines <- MCTrustLines
    LineLimit <- MCLineLimit
    IssuerFlags <- MCIssuerFlags
    Amounts <- MCAmounts
    Untils = {0, 1, 3}
    Delegations <- MCDelegations
    MinTempTtl = 1
    MaxTtl = 4
    Signers = {"issuer", "user", "escrow"}
    MaxSeq = 3
    MaxOps = 4
INVARIANTS
    SupplyIsIssued
    AllowanceIsAsApproved
    LedgerAgrees
CHECK_DEADLOCK FALSE
