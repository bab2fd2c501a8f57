-------------------------- MODULE ContributorPool --------------------------
(***************************************************************************)
(* One contributor reward pool (contracts/contributor_pool/src/lib.rs).     *)
(* The campaign escrow credits it once per completed campaign; governance  *)
(* and a separate eligibility authority together publish manifests of exact *)
(* allocations; recipients claim them until the manifest expires, and what *)
(* is left returns to the allocatable balance.                             *)
(*                                                                         *)
(* The whole instance storage is one record, so that TogetherFi can        *)
(* instantiate the module once per pool.  Self is the pool's address.      *)
(***************************************************************************)
EXTENDS StellarLedger, Totals, Sequences

CONSTANTS
    None,              \* a storage key without a value
    Self,              \* env.current_contract_address()
    PoolDeployer,      \* the address in the authenticated contract-ID preimage
    PoolEscrows,       \* addresses passed to initialize as escrow
    PoolAuthorities,   \* addresses passed to initialize as governance and eligibility
    PoolNominees,      \* addresses proposed for a role later
    CreditIds,         \* campaign ids of credits
    CreditAmounts,     \* amounts of credits
    ManifestIds,       \* positive manifest ids
    Lists,             \* pairs <<recipients, amounts>> passed to publish_manifest
    MAX_ALLOCATIONS,
    MAX_CLAIM_WINDOW,
    PoolMax            \* i128::MAX

VARIABLE pool

poolVars == <<ledgerVars, pool>>

ASSUME PoolAssumption ==
    /\ Self \in Contracts
    /\ PoolDeployer \in Accounts
    /\ PoolEscrows \subseteq Holders \ {Self}
    /\ PoolAuthorities \cup PoolNominees \subseteq Holders
    /\ None \notin Holders
    /\ ManifestIds \subseteq Nat \ {0} /\ IsFiniteSet(ManifestIds)
    /\ MAX_ALLOCATIONS \in Nat /\ MAX_CLAIM_WINDOW \in Nat /\ PoolMax \in Nat
    /\ CreditAmounts \subseteq Int
    /\ \A l \in Lists : l[1] \in Seq(Holders) /\ l[2] \in Seq(Int)

Allocations == [recipient: Holders, amount: Nat, claimed: BOOLEAN]

Manifests ==
    [total: Nat, remaining: Nat, expires_at: Nat, allocations: Seq(Allocations),
     status: {"Absent", "Active", "Completed", "Expired"}]

\* No storage entry under Manifest(id).
NoManifest ==
    [total |-> 0, remaining |-> 0, expires_at |-> 0, allocations |-> <<>>, status |-> "Absent"]

PoolTypeOK ==
    /\ LedgerTypeOK
    /\ pool \in [governance: Accounts \cup {None}, pendingGovernance: Holders \cup {None},
                 eligibility: Accounts \cup {None}, pendingEligibility: Holders \cup {None},
                 escrow: PoolEscrows \cup {None}, paused: BOOLEAN,
                 liability: Nat, credited: Nat, paid: Nat, latest: Nat,
                 campaigns: SUBSET CreditIds, manifests: [ManifestIds -> Manifests]]

----------------------------------------------------------------------------
poolInitialized == pool.governance # None

\* The allocations of a list that was just published.
Unclaimed(recipients, amounts) ==
    [i \in DOMAIN recipients |->
        [recipient |-> recipients[i], amount |-> amounts[i], claimed |-> FALSE]]

Outstanding == pool.credited - pool.paid

\* Mutant: a direct transfer counts as allocatable funding.
Available_by_balance == balance[Self] - pool.liability

\* available_balance where it does not return Deficit.
Available == Outstanding - pool.liability

AvailableDefined == pool.liability <= Outstanding /\ Outstanding <= balance[Self]

WellFormedList(recipients, amounts) ==
    /\ Len(recipients) \in 1..MAX_ALLOCATIONS             \* InvalidManifest
    /\ Len(recipients) = Len(amounts)                     \* InvalidManifest
    /\ \A i \in DOMAIN amounts : amounts[i] > 0           \* InvalidAllocation
    /\ \A i, j \in DOMAIN recipients :                    \* InvalidAllocation
          i # j => recipients[i] # recipients[j]
    /\ Total(amounts) <= PoolMax                          \* InvalidAllocation

FreshId(m) == pool.manifests[m].status = "Absent" /\ m > pool.latest

BothAuthorities == require_auth(pool.governance) /\ require_auth(pool.eligibility)

\* Mutant: a claim is still possible in the second the manifest expires.
ManifestExpired_late(m) == now > pool.manifests[m].expires_at

ManifestExpired(m) == now >= pool.manifests[m].expires_at

Claimable(m, i) ==
    /\ pool.manifests[m].status = "Active"                \* ManifestNotFound, InvalidState
    /\ ~ManifestExpired(m)                                \* ManifestExpired
    /\ i \in DOMAIN pool.manifests[m].allocations         \* InvalidAllocation
    /\ ~pool.manifests[m].allocations[i].claimed          \* AlreadyClaimed

\* The manifest after its allocation i is claimed.
AfterClaim(manifest, i) ==
    LET left == manifest.remaining - manifest.allocations[i].amount IN
    [manifest EXCEPT !.allocations[i].claimed = TRUE,
                     !.remaining = left,
                     !.status = IF left = 0 THEN "Completed" ELSE @]

----------------------------------------------------------------------------
PoolInit ==
    pool = [governance |-> None, pendingGovernance |-> None,
            eligibility |-> None, pendingEligibility |-> None,
            escrow |-> None, paused |-> FALSE,
            liability |-> 0, credited |-> 0, paid |-> 0, latest |-> 0,
            campaigns |-> {}, manifests |-> [m \in ManifestIds |-> NoManifest]]

pool_initialize(gov, elig, escrow, deployer) ==
    /\ ~poolInitialized                                   \* AlreadyInitialized
    /\ deployer = PoolDeployer                            \* InvalidDeployment
    /\ require_auth(deployer)
    /\ gov # elig                                         \* RolesMustDiffer
    /\ require_auth(gov)
    /\ require_auth(elig)
    /\ pool' = [pool EXCEPT !.governance = gov, !.eligibility = elig, !.escrow = escrow,
                            !.paused = FALSE, !.liability = 0, !.credited = 0,
                            !.paid = 0, !.latest = 0]
    /\ UNCHANGED ledgerVars

\* Mutant: a campaign may be credited again.
NotCredited_unchecked(c) == TRUE

NotCredited(c) == c \notin pool.campaigns

\* The pool holds this credit on top of the ones that are not paid out yet.
Covered(amount, held) == Outstanding + amount <= held

\* invoker is the contract whose frame makes the call, None for a direct call;
\* held is the pool's balance at that point of the invocation.
record_credit(c, amount, invoker, held) ==
    /\ poolInitialized                                    \* NotInitialized
    /\ amount > 0                                         \* InvalidAllocation
    /\ invoker = pool.escrow \/ require_auth(pool.escrow)
    /\ NotCredited(c)                                     \* CampaignAlreadyCredited
    /\ pool.credited + amount <= PoolMax                  \* InvalidAllocation
    /\ Covered(amount, held)                              \* Deficit
    /\ pool' = [pool EXCEPT !.campaigns = @ \cup {c}, !.credited = @ + amount]

publish_manifest(m, expires_at, recipients, amounts) ==
    /\ poolInitialized
    /\ ~pool.paused                                       \* Paused
    /\ BothAuthorities
    /\ WellFormedList(recipients, amounts)
    /\ expires_at > now                                   \* ManifestExpired
    /\ expires_at - now <= MAX_CLAIM_WINDOW               \* InvalidManifest
    /\ FreshId(m)                                         \* ManifestAlreadyExists
    /\ AvailableDefined                                   \* Deficit
    /\ Total(amounts) <= Available                        \* InsufficientAvailableBalance
    /\ pool' = [pool EXCEPT
           !.manifests[m] = [total |-> Total(amounts), remaining |-> Total(amounts),
                             expires_at |-> expires_at,
                             allocations |-> Unclaimed(recipients, amounts),
                             status |-> "Active"],
           !.liability = @ + Total(amounts),
           !.latest = m]
    /\ UNCHANGED ledgerVars

claim(m, i) ==
    LET manifest == pool.manifests[m]
        allocation == manifest.allocations[i]
    IN  /\ poolInitialized
        /\ ~pool.paused                                   \* Paused
        /\ Claimable(m, i)
        /\ require_auth(allocation.recipient)
        /\ allocation.amount <= pool.liability            \* Deficit
        /\ pool.liability <= balance[Self]                \* Deficit
        /\ pool.paid + allocation.amount <= PoolMax       \* Deficit
        /\ CanTransfer(balance, Self, allocation.recipient, allocation.amount)
        /\ pool' = [pool EXCEPT !.manifests[m] = AfterClaim(manifest, i),
                                !.liability = @ - allocation.amount,
                                !.paid = @ + allocation.amount]
        /\ balance' = Transfer(balance, Self, allocation.recipient, allocation.amount)
        /\ UNCHANGED <<now, signing, authorized, clawed>>

\* Mutant: the reservation of an expired manifest is not released.
expire_manifest_keeps_liability(m) ==
    /\ poolInitialized
    /\ pool.manifests[m].status = "Active" /\ ManifestExpired(m)
    /\ pool' = [pool EXCEPT !.manifests[m] = [@ EXCEPT !.remaining = 0, !.status = "Expired"]]
    /\ UNCHANGED ledgerVars

\* Mutant: expiry waits for governance to unpause.
expire_manifest_unless_paused(m) ==
    /\ poolInitialized /\ ~pool.paused
    /\ pool.manifests[m].status = "Active" /\ ManifestExpired(m)
    /\ pool' = [pool EXCEPT
           !.manifests[m] = [@ EXCEPT !.remaining = 0, !.status = "Expired"],
           !.liability = @ - pool.manifests[m].remaining]
    /\ UNCHANGED ledgerVars

expire_manifest(m) ==
    /\ poolInitialized
    /\ pool.manifests[m].status = "Active"                \* ManifestNotFound, InvalidState
    /\ ManifestExpired(m)                                 \* NotExpired
    /\ pool.manifests[m].remaining <= pool.liability      \* Deficit
    /\ pool' = [pool EXCEPT
           !.manifests[m] = [@ EXCEPT !.remaining = 0, !.status = "Expired"],
           !.liability = @ - pool.manifests[m].remaining]
    /\ UNCHANGED ledgerVars

pool_pause ==
    /\ poolInitialized /\ require_auth(pool.governance)
    /\ pool' = [pool EXCEPT !.paused = TRUE]
    /\ UNCHANGED ledgerVars

pool_unpause ==
    /\ poolInitialized /\ require_auth(pool.governance)
    /\ pool' = [pool EXCEPT !.paused = FALSE]
    /\ UNCHANGED ledgerVars

pool_propose_governance(account) ==
    /\ poolInitialized /\ require_auth(pool.governance)
    /\ pool' = [pool EXCEPT !.pendingGovernance = account]
    /\ UNCHANGED ledgerVars

propose_eligibility_authority(account) ==
    /\ poolInitialized /\ require_auth(pool.governance)
    /\ pool' = [pool EXCEPT !.pendingEligibility = account]
    /\ UNCHANGED ledgerVars

\* Mutant: the new governance may hold the eligibility role already.
pool_accept_governance_any ==
    /\ poolInitialized /\ pool.pendingGovernance # None
    /\ require_auth(pool.pendingGovernance)
    /\ pool' = [pool EXCEPT !.governance = pool.pendingGovernance, !.pendingGovernance = None]
    /\ UNCHANGED ledgerVars

pool_accept_governance ==
    /\ poolInitialized
    /\ pool.pendingGovernance # None                      \* NoPendingRole
    /\ require_auth(pool.pendingGovernance)
    /\ pool.pendingGovernance # pool.eligibility          \* RolesMustDiffer
    /\ pool' = [pool EXCEPT !.governance = pool.pendingGovernance, !.pendingGovernance = None]
    /\ UNCHANGED ledgerVars

accept_eligibility_authority ==
    /\ poolInitialized
    /\ pool.pendingEligibility # None                     \* NoPendingRole
    /\ require_auth(pool.pendingEligibility)
    /\ pool.pendingEligibility # pool.governance          \* RolesMustDiffer
    /\ pool' = [pool EXCEPT !.eligibility = pool.pendingEligibility, !.pendingEligibility = None]
    /\ UNCHANGED ledgerVars

\* Everything but crediting, which only the escrow's own code does.
PoolNext ==
    \/ \E gov, elig \in PoolAuthorities, escrow \in PoolEscrows, deployer \in Accounts :
          pool_initialize(gov, elig, escrow, deployer)
    \/ \E m \in ManifestIds :
          \/ \E expires_at \in 0..MaxTimestamp, list \in Lists :
                publish_manifest(m, expires_at, list[1], list[2])
          \/ \E i \in 1..MAX_ALLOCATIONS : claim(m, i)
          \/ expire_manifest(m)
    \/ pool_pause \/ pool_unpause
    \/ \E account \in PoolNominees :
          pool_propose_governance(account) \/ propose_eligibility_authority(account)
    \/ pool_accept_governance \/ accept_eligibility_authority

----------------------------------------------------------------------------
(* The pool with a minimal escrow: one invocation of the configured escrow  *)
(* contract transfers a leg and records it, and anyone may call             *)
(* record_credit directly.                                                 *)

EscrowCredits(c, amount) ==
    /\ pool.escrow \in Contracts
    /\ CanTransfer(balance, pool.escrow, Self, amount)
    /\ balance' = Transfer(balance, pool.escrow, Self, amount)
    /\ record_credit(c, amount, pool.escrow, balance'[Self])
    /\ UNCHANGED <<now, signing, authorized, clawed>>

DirectCredit(c, amount) ==
    record_credit(c, amount, None, balance[Self]) /\ UNCHANGED ledgerVars

PoolSpecInit == LedgerInit /\ PoolInit

PoolSpecNext ==
    \/ PoolNext
    \/ \E c \in CreditIds, amount \in CreditAmounts :
          EscrowCredits(c, amount) \/ DirectCredit(c, amount)
    \/ LedgerNext /\ UNCHANGED pool

PoolSpec == PoolSpecInit /\ [][PoolSpecNext]_poolVars

\* Ledgers keep closing, and expire_manifest needs nobody's authorization.
PoolFairness ==
    /\ WF_poolVars(Tick /\ UNCHANGED pool)
    /\ \A m \in ManifestIds : WF_poolVars(expire_manifest(m))

PoolFairSpec == PoolSpec /\ PoolFairness

(* The pool in any context: others move the clock and the token as they     *)
(* like, but only the issuer takes tokens out of the pool, and the pool is *)
(* credited in the middle of some invocation that pays it at least that    *)
(* much.                                                                   *)

PoolEnvironment ==
    /\ UNCHANGED signing
    /\ LedgerTypeOK'
    /\ now <= now'
    /\ \A h \in Holders : clawed[h] <= clawed'[h]
    /\ balance[Self] + clawed[Self] <= balance'[Self] + clawed'[Self]

CreditedBetween(low, high) ==
    /\ pool'.credited \in Nat
    /\ \E c \in CreditIds, held \in low..high :
          record_credit(c, pool'.credited - pool.credited, pool.escrow, held)

PoolOpenNext ==
    \/ PoolNext
    \/ PoolEnvironment /\ UNCHANGED pool
    \/ PoolEnvironment /\ clawed' = clawed /\ CreditedBetween(balance[Self], balance'[Self])

PoolOpenSpec == PoolSpecInit /\ [][PoolOpenNext]_poolVars

----------------------------------------------------------------------------
(* Properties.                                                             *)

\* The published allocations, as pairs of manifest and index.
Listed ==
    {k \in ManifestIds \X (1..MAX_ALLOCATIONS) : k[2] \in DOMAIN pool.manifests[k[1]].allocations}

AmountsOf(K) == [k \in K |-> pool.manifests[k[1]].allocations[k[2]].amount]

IsClaimed(m, i) == pool.manifests[m].allocations[i].claimed

IsReserved(m, i) == pool.manifests[m].status = "Active" /\ ~IsClaimed(m, i)

Claimed == {k \in Listed : IsClaimed(k[1], k[2])}

Reserved == {k \in Listed : IsReserved(k[1], k[2])}

\* The running total of publish_manifest, claim and expire_manifest is exactly
\* what the active manifests still owe, allocation by allocation.
LiabilityIsReserved == pool.liability = Total(AmountsOf(Reserved))

\* The pool has paid exactly the allocations that are marked claimed: none of
\* them twice, whatever is claimed, expired or paused in between.
PaidIsClaimed == pool.paid = Total(AmountsOf(Claimed))

\* Reservations never exceed the authenticated credits that are not paid out, and
\* the pool holds those, up to what the issuer clawed back from it.
PoolSolvency ==
    /\ pool.liability <= Outstanding
    /\ Outstanding <= balance[Self] + clawed[Self]

\* remaining is what is unclaimed while the manifest is active.
RemainingIsReserved(m) ==
    pool.manifests[m].remaining = Total(AmountsOf({k \in Reserved : k[1] = m}))

\* A published manifest is completed exactly when everything in it was claimed, and
\* every recipient is listed once with a positive amount.
WellPublished(m) ==
    LET manifest == pool.manifests[m] IN
    manifest.status # "Absent" =>
        /\ manifest.status = "Completed" <=> (\A i \in DOMAIN manifest.allocations : IsClaimed(m, i))
        /\ \A i, j \in DOMAIN manifest.allocations :
             /\ manifest.allocations[i].amount > 0
             /\ i # j => manifest.allocations[i].recipient # manifest.allocations[j].recipient

\* The books of each manifest.
ManifestBooks == \A m \in ManifestIds : RemainingIsReserved(m) /\ WellPublished(m)

\* The three running totals and the books of every manifest agree with the
\* allocations that are published, reserved and claimed.
PoolBooks == LiabilityIsReserved /\ PaidIsClaimed /\ ManifestBooks

\* The two authorities are different addresses that sign, so no single signer
\* ever gets a manifest published, by whatever sequence of role changes.
NoSingleAuthority ==
    /\ poolInitialized =>
         /\ pool.governance # pool.eligibility
         /\ {pool.governance, pool.eligibility} \subseteq signing
    /\ (\E m \in ManifestIds : pool.manifests[m].status # "Absent") => Cardinality(signing) >= 2

PoolOutflowStep ==
    balance'[Self] < balance[Self] =>
      \/ clawed'[Self] > clawed[Self]
      \/ \E m \in ManifestIds : \E i \in DOMAIN pool.manifests[m].allocations :
           LET allocation == pool.manifests[m].allocations[i] IN
           /\ IsReserved(m, i) /\ now < pool.manifests[m].expires_at /\ ~pool.paused
           /\ pool'.manifests[m].allocations[i].claimed
           /\ allocation.recipient \in signing
           /\ balance[Self] - balance'[Self] = allocation.amount
           /\ balance'[allocation.recipient] = balance[allocation.recipient] + allocation.amount

ManifestStep ==
    \A m \in ManifestIds :
      LET old == pool.manifests[m]  new == pool'.manifests[m] IN
      /\ old.status = "Absent" /\ new.status # "Absent" =>
           /\ \A n \in ManifestIds : n >= m => pool.manifests[n].status = "Absent"
           /\ \A i \in DOMAIN new.allocations : ~new.allocations[i].claimed
      /\ old.status # "Absent" =>
           /\ <<new.total, new.expires_at>> = <<old.total, old.expires_at>>
           /\ DOMAIN new.allocations = DOMAIN old.allocations
           /\ \A i \in DOMAIN old.allocations :
                \/ new.allocations[i] = old.allocations[i]
                \/ new.allocations[i] = [old.allocations[i] EXCEPT !.claimed = TRUE]
      /\ old.status \in {"Completed", "Expired"} => new = old

\* Tokens leave the pool only as one allocation, claimed for the first time and in
\* time by the recipient that was published for it.  A published manifest never
\* changes except by claims, a finished one never again, and manifests appear in
\* the order of their ids.
PoolOutflowIsOneClaim == [][PoolOutflowStep /\ ManifestStep]_poolVars

AllocatableStep ==
    Available' > Available =>
      \/ \E c \in CreditIds \ pool.campaigns : pool'.campaigns = pool.campaigns \cup {c}
      \/ \E m \in ManifestIds :
           pool.manifests[m].status = "Active" /\ pool'.manifests[m].status = "Expired"

\* What can be allocated grows only by the first credit of a campaign or by the
\* expiry of a manifest: never by a direct transfer, and never by a claim.
OnlyCreditsAreAllocatable == [][AllocatableStep]_poolVars

\* Every published manifest is eventually used up or released for a later cycle,
\* even if governance pauses the pool for ever.
ReservationsEnd ==
    \A m \in ManifestIds :
        pool.manifests[m].status = "Active" ~> pool.manifests[m].status \in {"Completed", "Expired"}
=============================================================================
