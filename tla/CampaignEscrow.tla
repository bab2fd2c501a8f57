--------------------------- MODULE CampaignEscrow ---------------------------
(***************************************************************************)
(* The campaign escrow contract (contracts/campaign_escrow/src/lib.rs): a   *)
(* sponsor funds a campaign, commits creator, referrer and terms, and the  *)
(* settlement authority releases it once, split 82/10/5/2/1, before it      *)
(* expires; afterwards anyone returns it to its sponsor.                    *)
(*                                                                         *)
(* The contributor pools are environment here: a pool that refuses         *)
(* record_credit makes complete fail as a whole, which is a stuttering     *)
(* step.  Module TogetherFi composes this module with the two pools.       *)
(***************************************************************************)
EXTENDS StellarLedger

CONSTANTS
    None,          \* an Option or a storage key without a value
    Escrow,        \* env.current_contract_address()
    Pools,         \* contracts with the contributor pool's interface
    Deployer,      \* the address in the authenticated contract-ID preimage
    CampaignIds,
    Sponsors,      \* accounts that fund campaigns
    Amounts,       \* amounts passed to fund
    Creators,      \* addresses a sponsor names as creator
    Referrers,     \* addresses a sponsor names as referrer
    Terms,         \* non-empty term hashes
    Treasuries,    \* addresses passed as service treasury
    Authorities,   \* addresses passed to initialize as governance and settlement
    Nominees,      \* addresses proposed for a role later
    EXPIRY,        \* seconds from funding to expiry
    I128Max        \* i128::MAX

VARIABLES
    governance,         \* None until initialized
    pendingGovernance,
    settlement,
    pendingSettlement,
    destinations,       \* service treasury and the two pools, fixed at initialization
    paused,
    liability,          \* TotalLiability
    campaigns,          \* Campaign(id)
    consumed            \* ConsumedOperation(id, version)

roleVars == <<governance, pendingGovernance, settlement, pendingSettlement>>

bookVars == <<liability, campaigns, consumed>>

escrowVars == <<roleVars, destinations, paused, bookVars>>

vars == <<ledgerVars, escrowVars>>

Destinations == [service: Holders, nft: Pools, revenue: Pools]

ASSUME EscrowAssumption ==
    /\ Escrow \in Contracts \ Pools
    /\ Pools \subseteq Contracts
    /\ Deployer \in Accounts
    /\ Sponsors \subseteq Accounts
    /\ Creators \cup Referrers \cup Treasuries \cup Authorities \cup Nominees \subseteq Holders
    /\ None \notin Holders \cup Terms
    /\ None \notin Destinations
    /\ IsFiniteSet(CampaignIds)

ASSUME AmountAssumption ==
    /\ Amounts \subseteq Int
    /\ EXPIRY \in Nat
    /\ I128Max \in Nat
    /\ \A h \in Contracts : Capacity[h] <= I128Max

DENOM == 10000
SERVICE == 1000
NFT_POOL == 500
REVENUE == 200
REFERRER == 100

\* Mutant: one base unit too few for a positive referrer leg.
Minimum_too_small == 99

MINIMUM_CAMPAIGN_AMOUNT == 100
MaxAmount == I128Max \div DENOM

Statuses == {"Absent", "Funded", "Active", "Completed", "Refunded"}

\* operation_version is 0 when funded and 1 when activated.
Versions == {0, 1}

Campaigns ==
    [sponsor: Holders \cup {None}, amount: Nat, creator: Holders \cup {None},
     referrer: Holders \cup {None}, terms: Terms \cup {None}, expires_at: Nat,
     version: Versions, status: Statuses]

\* No storage entry under Campaign(id).
NoCampaign ==
    [sponsor |-> None, amount |-> 0, creator |-> None, referrer |-> None,
     terms |-> None, expires_at |-> 0, version |-> 0, status |-> "Absent"]

TypeOK ==
    /\ LedgerTypeOK
    /\ governance \in Accounts \cup {None}
    /\ settlement \in Holders \cup {None}
    /\ pendingGovernance \in Holders \cup {None}
    /\ pendingSettlement \in Holders \cup {None}
    /\ destinations \in Destinations \cup {None}
    /\ destinations = None <=> governance = None
    /\ paused \in BOOLEAN
    /\ liability \in Nat
    /\ campaigns \in [CampaignIds -> Campaigns]
    /\ consumed \subseteq CampaignIds \X Versions

----------------------------------------------------------------------------
initialized == governance # None

Open(c) == campaigns[c].status \in {"Funded", "Active"}

Settled(c) == campaigns[c].status \in {"Completed", "Refunded"}

(* The split of a campaign's amount: the creator takes the remainder.       *)

Share(total, bps) == (total * bps) \div DENOM

ServiceLeg(c) == Share(campaigns[c].amount, SERVICE)
NftLeg(c) == Share(campaigns[c].amount, NFT_POOL)
RevenueLeg(c) == Share(campaigns[c].amount, REVENUE)
ReferrerLeg(c) == Share(campaigns[c].amount, REFERRER)
CreatorLeg(c) ==
    campaigns[c].amount - ServiceLeg(c) - NftLeg(c) - RevenueLeg(c) - ReferrerLeg(c)

(* The ledger of a completing invocation after each of its transfers.       *)

\* Mutant: the creator is paid the gross amount.
AfterCreator_gross(c) == Transfer(balance, Escrow, campaigns[c].creator, campaigns[c].amount)

AfterCreator(c) == Transfer(balance, Escrow, campaigns[c].creator, CreatorLeg(c))
AfterService(c) == Transfer(AfterCreator(c), Escrow, destinations.service, ServiceLeg(c))
AfterNft(c) == Transfer(AfterService(c), Escrow, destinations.nft, NftLeg(c))
AfterRevenue(c) == Transfer(AfterNft(c), Escrow, destinations.revenue, RevenueLeg(c))
AfterReferrer(c) == Transfer(AfterRevenue(c), Escrow, campaigns[c].referrer, ReferrerLeg(c))

CanPayAllLegs(c) ==
    /\ CanTransfer(balance, Escrow, campaigns[c].creator, CreatorLeg(c))
    /\ CanTransfer(AfterCreator(c), Escrow, destinations.service, ServiceLeg(c))
    /\ CanTransfer(AfterService(c), Escrow, destinations.nft, NftLeg(c))
    /\ CanTransfer(AfterNft(c), Escrow, destinations.revenue, RevenueLeg(c))
    /\ CanTransfer(AfterRevenue(c), Escrow, campaigns[c].referrer, ReferrerLeg(c))

\* Mutant: an exactly backed escrow counts as a deficit.
NoDeficit_strict(c) == campaigns[c].amount <= liability /\ liability < balance[Escrow]

\* Neither Deficit return is taken for campaign c.
NoDeficit(c) == campaigns[c].amount <= liability /\ liability <= balance[Escrow]

\* Mutant: expiry starts one second late.
Expired_late(c) == now > campaigns[c].expires_at

\* now has reached the campaign's expiry: completion stops and refunds start.
Expired(c) == now >= campaigns[c].expires_at

\* Mutant: a sponsor may activate again and replace the payees.
Activatable_again(c) == Open(c)

Activatable(c) == campaigns[c].status = "Funded"

\* Mutant: a late settlement still goes through.
Releasable_ignores_expiry(c, version) ==
    /\ campaigns[c].status = "Active"
    /\ version = campaigns[c].version
    /\ <<c, version>> \notin consumed

\* Mutant: the caller's version is not compared with the stored one.
Releasable_any_version(c, version) ==
    campaigns[c].status = "Active" /\ ~Expired(c) /\ <<c, version>> \notin consumed

Releasable(c, version) ==
    /\ campaigns[c].status = "Active"                \* CampaignNotFound, InvalidState
    /\ version = campaigns[c].version                \* WrongVersion
    /\ ~Expired(c)                                   \* Expired
    /\ <<c, version>> \notin consumed                \* WrongVersion

\* Mutant: anyone may fund out of anyone's balance.
Deposit_unsigned(sponsor, amount) ==
    /\ CanTransfer(balance, sponsor, Escrow, amount)
    /\ balance' = Transfer(balance, sponsor, Escrow, amount)

Deposit(sponsor, amount) ==
    /\ require_auth(sponsor)
    /\ CanTransfer(balance, sponsor, Escrow, amount)
    /\ balance' = Transfer(balance, sponsor, Escrow, amount)

\* Mutant: settling forgets to lower the total liability.
SettleBooks_keeps_liability(c, outcome) ==
    /\ campaigns' = [campaigns EXCEPT ![c].status = outcome]
    /\ liability' = liability

\* The books of a campaign that leaves the escrow.
SettleBooks(c, outcome) ==
    /\ campaigns' = [campaigns EXCEPT ![c].status = outcome]
    /\ liability' = liability - campaigns[c].amount

----------------------------------------------------------------------------
EscrowInit ==
    /\ governance = None /\ pendingGovernance = None
    /\ settlement = None /\ pendingSettlement = None
    /\ destinations = None
    /\ paused = FALSE
    /\ liability = 0
    /\ campaigns = [c \in CampaignIds |-> NoCampaign]
    /\ consumed = {}

\* bound: the pools that name this escrow and this token as theirs.
initialize(gov, set, service, nft, revenue, deployer, bound) ==
    /\ ~initialized                                  \* AlreadyInitialized
    /\ deployer = Deployer                           \* InvalidDeployment
    /\ require_auth(deployer)
    /\ nft # revenue                                 \* InvalidContributorPool
    /\ {nft, revenue} \subseteq bound                \* InvalidContributorPool
    /\ require_auth(gov)
    /\ governance' = gov
    /\ settlement' = set
    /\ destinations' = [service |-> service, nft |-> nft, revenue |-> revenue]
    /\ paused' = FALSE
    /\ liability' = 0
    /\ UNCHANGED <<ledgerVars, pendingGovernance, pendingSettlement, campaigns, consumed>>

fund(c, sponsor, amount) ==
    /\ initialized                                   \* NotInitialized
    /\ amount >= MINIMUM_CAMPAIGN_AMOUNT             \* InvalidAmount
    /\ amount <= MaxAmount                           \* InvalidAmount
    /\ ~paused                                       \* Paused
    /\ campaigns[c].status = "Absent"                \* CampaignAlreadyExists
    /\ Deposit(sponsor, amount)
    /\ liability + amount <= I128Max                 \* overflow traps
    /\ now + EXPIRY <= MaxTimestamp                  \* overflow traps
    /\ liability' = liability + amount
    /\ campaigns' = [campaigns EXCEPT ![c] =
           [sponsor |-> sponsor, amount |-> amount, creator |-> Escrow,
            referrer |-> None, terms |-> None, expires_at |-> now + EXPIRY,
            version |-> 0, status |-> "Funded"]]
    /\ UNCHANGED <<now, signing, authorized, clawed, roleVars, destinations, paused, consumed>>

\* No expiry is checked here: an expired campaign can still be activated.
activate(c, creator, referrer, terms) ==
    /\ initialized
    /\ ~paused                                       \* Paused
    /\ terms # None                                  \* EmptyTerms
    /\ referrer # None                               \* ReferrerRequired
    /\ Activatable(c)                                \* CampaignNotFound, InvalidState
    /\ require_auth(campaigns[c].sponsor)
    /\ campaigns' = [campaigns EXCEPT ![c] =
           [@ EXCEPT !.creator = creator, !.referrer = referrer, !.terms = terms,
                     !.status = "Active", !.version = 1]]
    /\ UNCHANGED <<ledgerVars, roleVars, destinations, paused, liability, consumed>>

complete(c, version) ==
    /\ initialized
    /\ ~paused                                       \* Paused
    /\ require_auth(settlement)
    /\ Releasable(c, version)                        \* InvalidState, WrongVersion, Expired
    /\ NoDeficit(c)                                  \* Deficit
    /\ campaigns[c].amount * SERVICE <= I128Max      \* InvalidAmount
    /\ campaigns[c].referrer # None                  \* ReferrerRequired
    /\ CanPayAllLegs(c)
    /\ SettleBooks(c, "Completed")
    /\ consumed' = consumed \cup {<<c, version>>}
    /\ balance' = AfterReferrer(c)
    /\ UNCHANGED <<now, signing, authorized, clawed, roleVars, destinations, paused>>

refund_expired(c) ==
    /\ initialized
    /\ Open(c)                                       \* CampaignNotFound, InvalidState
    /\ Expired(c)                                    \* NotExpired
    /\ NoDeficit(c)                                  \* Deficit
    /\ CanTransfer(balance, Escrow, campaigns[c].sponsor, campaigns[c].amount)
    /\ SettleBooks(c, "Refunded")
    /\ balance' = Transfer(balance, Escrow, campaigns[c].sponsor, campaigns[c].amount)
    /\ UNCHANGED <<now, signing, authorized, clawed, roleVars, destinations, paused, consumed>>

pause ==
    /\ initialized /\ require_auth(governance)
    /\ paused' = TRUE
    /\ UNCHANGED <<ledgerVars, roleVars, destinations, bookVars>>

unpause ==
    /\ initialized /\ require_auth(governance)
    /\ paused' = FALSE
    /\ UNCHANGED <<ledgerVars, roleVars, destinations, bookVars>>

propose_governance(account) ==
    /\ initialized /\ require_auth(governance)
    /\ pendingGovernance' = account
    /\ UNCHANGED <<ledgerVars, governance, settlement, pendingSettlement,
                   destinations, paused, bookVars>>

propose_settlement(account) ==
    /\ initialized /\ require_auth(governance)
    /\ pendingSettlement' = account
    /\ UNCHANGED <<ledgerVars, governance, settlement, pendingGovernance,
                   destinations, paused, bookVars>>

\* Mutant: the proposal alone moves the role.
accept_governance_unsigned ==
    /\ initialized
    /\ pendingGovernance \in Accounts
    /\ governance' = pendingGovernance
    /\ pendingGovernance' = None
    /\ UNCHANGED <<ledgerVars, settlement, pendingSettlement, destinations, paused, bookVars>>

\* A pending settlement proposal of the previous governance stays in storage.
accept_governance ==
    /\ initialized
    /\ pendingGovernance # None                      \* NoPendingRole
    /\ require_auth(pendingGovernance)
    /\ governance' = pendingGovernance
    /\ pendingGovernance' = None
    /\ UNCHANGED <<ledgerVars, settlement, pendingSettlement, destinations, paused, bookVars>>

accept_settlement ==
    /\ initialized
    /\ pendingSettlement # None                      \* NoPendingRole
    /\ require_auth(pendingSettlement)
    /\ settlement' = pendingSettlement
    /\ pendingSettlement' = None
    /\ UNCHANGED <<ledgerVars, governance, pendingGovernance, destinations, paused, bookVars>>

----------------------------------------------------------------------------
Init == LedgerInit /\ EscrowInit

\* The operations that call nothing but the token.
EscrowOnlyNext ==
    \/ \E c \in CampaignIds :
          \/ \E sponsor \in Sponsors, amount \in Amounts : fund(c, sponsor, amount)
          \/ \E creator \in Creators, referrer \in Referrers \cup {None},
                terms \in Terms \cup {None} : activate(c, creator, referrer, terms)
          \/ refund_expired(c)
    \/ pause \/ unpause
    \/ \E account \in Nominees : propose_governance(account) \/ propose_settlement(account)
    \/ accept_governance \/ accept_settlement

EscrowNext ==
    \/ \E gov, set \in Authorities, service \in Treasuries, nft, revenue \in Pools,
          deployer \in Accounts, bound \in SUBSET Pools :
          initialize(gov, set, service, nft, revenue, deployer, bound)
    \/ \E c \in CampaignIds, version \in Versions : complete(c, version)
    \/ EscrowOnlyNext

Next == EscrowNext \/ (LedgerNext /\ UNCHANGED escrowVars)

Spec == Init /\ [][Next]_vars

(* The escrow in any context: the rest of the system moves the clock and the *)
(* token as it likes, but only the issuer takes tokens out of the escrow.   *)

Environment ==
    /\ UNCHANGED <<escrowVars, signing>>
    /\ LedgerTypeOK'
    /\ now <= now'
    /\ \A h \in Holders : clawed[h] <= clawed'[h]
    /\ balance[Escrow] + clawed[Escrow] <= balance'[Escrow] + clawed'[Escrow]

OpenNext == EscrowNext \/ Environment

OpenSpec == Init /\ [][OpenNext]_vars

\* Ledgers keep closing, and refund_expired needs nobody's authorization, so a
\* call that stays possible is made by someone who wants the money back.
Fairness == WF_vars(Tick /\ UNCHANGED escrowVars) /\ \A c \in CampaignIds : WF_vars(refund_expired(c))

FairSpec == Spec /\ Fairness

----------------------------------------------------------------------------
(* Properties.                                                             *)

\* One element per base unit that the escrow owes to an open campaign.
OwedUnits ==
    {u \in CampaignIds \X (1..MaxAmount) : Open(u[1]) /\ u[2] <= campaigns[u[1]].amount}

\* The running total that fund, complete and refund_expired maintain is exactly
\* the sum of the amounts of the campaigns that are funded or active.
LiabilityIsOpenCampaigns == liability = Cardinality(OwedUnits)

\* The escrow holds what it owes, whatever mix of funding, settlement, refunds
\* and role changes has happened, except for what the issuer clawed back.
Solvency == balance[Escrow] + clawed[Escrow] >= liability

\* The split of every campaign that fund let in: five positive legs that add
\* up to the amount, no checked_mul overflow, and at least 82% for the creator.
SplitIsExact ==
    \A c \in CampaignIds : campaigns[c].status # "Absent" =>
        /\ \A leg \in {CreatorLeg(c), ServiceLeg(c), NftLeg(c), RevenueLeg(c), ReferrerLeg(c)} :
              leg > 0
        /\ CreatorLeg(c) + ServiceLeg(c) + NftLeg(c) + RevenueLeg(c) + ReferrerLeg(c)
              = campaigns[c].amount
        /\ campaigns[c].amount * SERVICE <= I128Max
        /\ DENOM * CreatorLeg(c) >= 8200 * campaigns[c].amount

\* A completion leaves its replay marker, and nothing else does: an operation is
\* consumed exactly when its campaign was completed under that version.
ConsumedIffCompleted ==
    consumed = {<<c, 1>> : c \in {d \in CampaignIds : campaigns[d].status = "Completed"}}

\* Roles are handed over only to those who accept: from initialization on, the
\* governance is an address that signs, and so is the deployer.
GovernanceCanSign == initialized => {governance, Deployer} \subseteq signing

\* An open campaign past its expiry can be refunded by anyone, paused or not and
\* whoever holds the roles, unless the issuer clawed back from the escrow or the
\* sponsor or the escrow cannot transfer the token.
RefundAlwaysPossible ==
    \A c \in CampaignIds :
        /\ Open(c) /\ now >= campaigns[c].expires_at
        /\ clawed[Escrow] = 0
        /\ {Escrow, campaigns[c].sponsor} \subseteq authorized
        /\ balance[campaigns[c].sponsor] + campaigns[c].amount <= Capacity[campaigns[c].sponsor]
        => ENABLED refund_expired(c)

OutflowStep ==
    balance'[Escrow] < balance[Escrow] =>
      \/ clawed'[Escrow] > clawed[Escrow]
      \/ \E c \in CampaignIds :
           /\ Open(c)
           /\ \A d \in CampaignIds \ {c} : campaigns'[d] = campaigns[d]
           /\ \/ /\ campaigns'[c].status = "Refunded"
                 /\ now >= campaigns[c].expires_at
                 /\ balance[Escrow] - balance'[Escrow] = campaigns[c].amount
                 /\ balance'[campaigns[c].sponsor] =
                       balance[campaigns[c].sponsor] + campaigns[c].amount
              \/ /\ campaigns'[c].status = "Completed"
                 /\ now < campaigns[c].expires_at
                 /\ ~paused
                 /\ {settlement, campaigns[c].sponsor} \subseteq signing
                 /\ balance[Escrow] - balance'[Escrow] <= campaigns[c].amount

\* The token leaves the escrow only by settling one open campaign for its amount:
\* back to the sponsor from its expiry on, or released before it with the
\* settlement authority's signature while not paused.  There is no rescue path.
OutflowIsOneSettlement == [][OutflowStep]_vars

CommitmentStep ==
    \A c \in CampaignIds :
      LET old == campaigns[c]  new == campaigns'[c] IN
      /\ old.status # "Absent" =>
            /\ new.status # "Absent"
            /\ <<new.sponsor, new.amount, new.expires_at>> =
               <<old.sponsor, old.amount, old.expires_at>>
      /\ old.status \notin {"Absent", "Funded"} =>
            /\ new.status # "Funded"
            /\ <<new.creator, new.referrer, new.terms, new.version>> =
               <<old.creator, old.referrer, old.terms, old.version>>
      /\ Settled(c) => new = old

\* What a sponsor committed stays committed: the sponsor, amount and expiry from
\* funding on, the payees and terms from activation on, and a settled campaign
\* for good.
CommitmentsAreFinal == [][CommitmentStep]_vars

SpendStep ==
    \A a \in Accounts \ signing :
      balance'[a] < balance[a] => clawed'[a] > clawed[a]

\* An account that signs nothing loses nothing: no operation of the escrow spends
\* the balance of an account that did not authorize it (issuer clawback aside).
OnlySignersSpend == [][SpendStep]_vars

\* "Governance cannot authorize settlement by itself" (README.md 104): once the
\* settlement authority is somebody who signs nothing, and only governance and the
\* sponsors sign, no campaign gets completed any more.
GovernanceAloneCannotSettle ==
    \A c \in CampaignIds :
        [](initialized /\ settlement \notin signing /\ campaigns[c].status # "Completed"
               /\ signing \subseteq Sponsors \cup {governance}
             => [](campaigns[c].status # "Completed"))

\* Every funded campaign is eventually settled, whoever pauses the escrow and whoever
\* holds or loses the roles, unless the issuer clawed back from the escrow or froze
\* the sponsor's balance.
FundsAreReleased ==
    \A c \in CampaignIds :
        Open(c) ~> \/ Settled(c)
                   \/ clawed[Escrow] > 0
                   \/ campaigns[c].sponsor \notin authorized
=============================================================================
