----------------------------- MODULE TogetherFi -----------------------------
(***************************************************************************)
(* The deployed system: the campaign escrow and two contributor pools on    *)
(* one ledger.  Completing a campaign is one invocation that changes all of *)
(* them: it pays five parties and records a credit in each pool, and fails *)
(* as a whole if a pool refuses.                                            *)
(***************************************************************************)
EXTENDS CampaignEscrow, Sequences

CONSTANTS
    PoolA, PoolB,      \* the addresses of the two pools
    PoolEscrows, PoolAuthorities, PoolNominees, CreditAmounts, ManifestIds, Lists,
    MAX_ALLOCATIONS, MAX_CLAIM_WINDOW

VARIABLES poolA, poolB

\* The pools, with the results of ContributorPool_proofs: A!record_credit is the
\* operation of the first pool and A!PoolInvStep a lemma about it.
A == INSTANCE ContributorPool_proofs
       WITH pool <- poolA, Self <- PoolA, PoolDeployer <- Deployer,
            CreditIds <- CampaignIds, PoolMax <- I128Max

B == INSTANCE ContributorPool_proofs
       WITH pool <- poolB, Self <- PoolB, PoolDeployer <- Deployer,
            CreditIds <- CampaignIds, PoolMax <- I128Max

pools == <<poolA, poolB>>

allVars == <<vars, pools>>

\* What ContributorPool assumes of its parameters, for both pools.
ASSUME DeploymentAssumption ==
    /\ PoolA # PoolB /\ Pools = {PoolA, PoolB}
    /\ PoolEscrows \subseteq Holders \ Pools
    /\ PoolAuthorities \cup PoolNominees \subseteq Holders
    /\ ManifestIds \subseteq Nat \ {0} /\ IsFiniteSet(ManifestIds)
    /\ MAX_ALLOCATIONS \in Nat /\ MAX_CLAIM_WINDOW \in Nat
    /\ CreditAmounts \subseteq Int
    /\ \A l \in Lists : l[1] \in Seq(Holders) /\ l[2] \in Seq(Int)

\* The pools whose escrow_contract() answers with this escrow (token_contract()
\* answers with the one token of StellarLedger).  An uninitialized pool answers
\* with an error, which fails the escrow's initialization.
BoundPools ==
    {p \in Pools : (IF p = PoolA THEN poolA ELSE poolB).escrow = Escrow}

SystemInit == Init /\ A!PoolInit /\ B!PoolInit

\* Mutant: the second pool's credit is forgotten.
CreditPools_nft_only(c) ==
    \/ /\ destinations.nft = PoolA
       /\ A!record_credit(c, NftLeg(c), Escrow, AfterNft(c)[PoolA])
       /\ UNCHANGED poolB
    \/ /\ destinations.nft = PoolB
       /\ B!record_credit(c, NftLeg(c), Escrow, AfterNft(c)[PoolB])
       /\ UNCHANGED poolA

\* Mutant: the totals are credited without the replay marker of the campaign.
CreditPools_unmarked(c) ==
    \/ /\ destinations.nft = PoolA
       /\ poolA' = [poolA EXCEPT !.credited = @ + NftLeg(c)]
       /\ poolB' = [poolB EXCEPT !.credited = @ + RevenueLeg(c)]
    \/ /\ destinations.nft = PoolB
       /\ poolB' = [poolB EXCEPT !.credited = @ + NftLeg(c)]
       /\ poolA' = [poolA EXCEPT !.credited = @ + RevenueLeg(c)]

\* The two nested record_credit calls, each right after its transfer.
CreditPools(c) ==
    \/ /\ destinations.nft = PoolA
       /\ A!record_credit(c, NftLeg(c), Escrow, AfterNft(c)[PoolA])
       /\ B!record_credit(c, RevenueLeg(c), Escrow, AfterRevenue(c)[PoolB])
    \/ /\ destinations.nft = PoolB
       /\ B!record_credit(c, NftLeg(c), Escrow, AfterNft(c)[PoolB])
       /\ A!record_credit(c, RevenueLeg(c), Escrow, AfterRevenue(c)[PoolA])

\* Mutant: the escrow can be initialized a second time.
InitializeEscrow_again ==
    /\ \E gov, set \in Authorities, service \in Treasuries, nft, revenue \in Pools :
          /\ require_auth(Deployer) /\ require_auth(gov)
          /\ nft # revenue /\ {nft, revenue} \subseteq BoundPools
          /\ governance' = gov /\ settlement' = set
          /\ destinations' = [service |-> service, nft |-> nft, revenue |-> revenue]
    /\ paused' = FALSE /\ liability' = 0
    /\ UNCHANGED <<ledgerVars, pendingGovernance, pendingSettlement, campaigns, consumed, pools>>

InitializeEscrow ==
    /\ \E gov, set \in Authorities, service \in Treasuries, nft, revenue \in Pools,
          deployer \in Accounts :
          initialize(gov, set, service, nft, revenue, deployer, BoundPools)
    /\ UNCHANGED pools

Complete(c, version) == complete(c, version) /\ CreditPools(c)

SystemNext ==
    \/ InitializeEscrow
    \/ \E c \in CampaignIds, version \in Versions : Complete(c, version)
    \/ EscrowOnlyNext /\ UNCHANGED pools
    \/ A!PoolNext /\ UNCHANGED <<escrowVars, poolB>>
    \/ B!PoolNext /\ UNCHANGED <<escrowVars, poolA>>
    \/ \E c \in CampaignIds, amount \in CreditAmounts :
          \/ A!DirectCredit(c, amount) /\ UNCHANGED <<escrowVars, poolB>>
          \/ B!DirectCredit(c, amount) /\ UNCHANGED <<escrowVars, poolA>>
    \/ LedgerNext /\ UNCHANGED <<escrowVars, pools>>

SystemSpec == SystemInit /\ [][SystemNext]_allVars

----------------------------------------------------------------------------
(* Properties.                                                             *)

Completed == {c \in CampaignIds : campaigns[c].status = "Completed"}

NftState == IF destinations.nft = PoolA THEN poolA ELSE poolB

RevenueState == IF destinations.nft = PoolA THEN poolB ELSE poolA

\* The two pools know exactly the campaigns the escrow completed, and have been
\* credited exactly the 5% and 2% legs of those: a completion never reaches one
\* contract and not the others.
CreditsMatchCompletions ==
    initialized =>
        /\ NftState.campaigns = Completed
        /\ RevenueState.campaigns = Completed
        /\ NftState.credited = A!Total([c \in Completed |-> NftLeg(c)])
        /\ RevenueState.credited = A!Total([c \in Completed |-> RevenueLeg(c)])

\* The escrow of the composed system is a CampaignEscrow in a context that
\* respects its balance: what is proved of OpenSpec holds here.
EscrowInContext == OpenSpec

\* Each pool of the composed system is a ContributorPool in a context that
\* respects its balance and credits it with covered amounts.
PoolsInContext == A!PoolOpenSpec /\ B!PoolOpenSpec

\* No pool's books lose their backing through anything the escrow, the other pool
\* or the roles do.
PoolsSolvent == A!PoolSolvency /\ B!PoolSolvency

\* The books of the three contracts agree and are backed, after any mix of
\* completions, refunds, claims, expiries and direct calls.
SystemBooks == CreditsMatchCompletions /\ PoolsSolvent
=============================================================================
