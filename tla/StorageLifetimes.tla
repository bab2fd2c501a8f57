-------------------------- MODULE StorageLifetimes --------------------------
(***************************************************************************)
(* The lives of the ledger entries behind the escrow and its pools          *)
(* (contracts/campaign_escrow/src/lib.rs, contracts/contributor_pool/src/    *)
(* lib.rs).  A life is a number of ledgers, an expiry a number of seconds.   *)
(* Every entry is persistent: past its life it is archived, a transaction    *)
(* that names it is refused, and anyone may restore it.                     *)
(*                                                                         *)
(* Amounts, signatures and the pause switch are those of CampaignEscrow and  *)
(* ContributorPool; here an operation is what it needs alive, what it        *)
(* extends, and the status that it changes.                                 *)
(***************************************************************************)
EXTENDS Integers

CONSTANTS
    CampaignIds, Pools, ManifestIds, Allocations,   \* allocations: indices in a manifest
    TTL,                     \* ledgers that both contracts extend their entries by
    BALANCE_EXTEND_AMOUNT, BALANCE_TTL_THRESHOLD,   \* of a contract's token balance
    MinPersistentTtl,        \* ledgers that a restored entry lives
    EXPIRY,                  \* seconds from funding to expiry
    MAX_CLAIM_WINDOW,        \* seconds from publication to expiry, at most
    Cadence,                 \* seconds that a ledger may take
    MaxSeq, MaxTouches       \* bounds: ledgers, reads and restorations

VARIABLES
    seq, now,     \* ledger sequence number and timestamp
    live,         \* [Keys -> last ledger of the entry's life, 0 without an entry]
    campaigns,    \* [CampaignIds -> [status, expires_at]]
    manifests,    \* [Pools \X ManifestIds -> [status, expires_at, claimed]]
    touches

vars == <<seq, now, live, campaigns, manifests, touches>>

escrow == <<"escrow">>
pool(p) == <<"pool", p>>
Campaign(c) == <<"campaign", c>>
ConsumedOperation(c) == <<"consumed", c>>
CreditedCampaign(p, c) == <<"credited", p, c>>
Manifest(p, m) == <<"manifest", p, m>>
Allocation(p, m, i) == <<"allocation", p, m, i>>
Balance(owner) == <<"balance", owner>>

\* Instances stand for the contract's code too, which is extended with them.
Keys ==
    {escrow} \cup {pool(p) : p \in Pools}
    \cup {Campaign(c) : c \in CampaignIds} \cup {ConsumedOperation(c) : c \in CampaignIds}
    \cup {CreditedCampaign(p, c) : p \in Pools, c \in CampaignIds}
    \cup {Manifest(p, m) : p \in Pools, m \in ManifestIds}
    \cup {Allocation(p, m, i) : p \in Pools, m \in ManifestIds, i \in Allocations}
    \cup {Balance(owner) : owner \in {escrow} \cup {pool(p) : p \in Pools}}

ASSUME LifetimeAssumption ==
    /\ TTL \in Nat /\ MinPersistentTtl \in Nat \ {0} /\ EXPIRY \in Nat /\ MAX_CLAIM_WINDOW \in Nat
    /\ BALANCE_TTL_THRESHOLD \in Nat /\ BALANCE_EXTEND_AMOUNT \in Nat
    /\ BALANCE_TTL_THRESHOLD < BALANCE_EXTEND_AMOUNT
    /\ Cadence \subseteq Nat \ {0} /\ Cadence # {}
    \* "At the conservative five second ledger cadence this is about 40 days"
    /\ \A s \in Cadence : EXPIRY <= s * TTL /\ MAX_CLAIM_WINDOW <= s * TTL

Exists(k) == live[k] # 0

Live(k) == live[k] >= seq

\* A transaction is refused when an entry that it names is archived.
Usable(keys) == \A k \in keys : Exists(k) => Live(k)

\* extend_ttl(&key, TTL, TTL), of entries that exist or are being written.
Extend(keys) == [k \in keys |-> IF live[k] > seq + TTL THEN live[k] ELSE seq + TTL]

\* A balance is extended when what is left of its life is below the threshold.
ExtendBalances(owners) ==
    [k \in {Balance(o) : o \in owners} |->
        IF live[k] - seq > BALANCE_TTL_THRESHOLD THEN live[k] ELSE seq + BALANCE_EXTEND_AMOUNT]

Extending(keys, owners) ==
    LET e == Extend(keys)
        b == ExtendBalances(owners)
    IN  live' = [k \in Keys |-> IF k \in DOMAIN e THEN e[k] ELSE IF k \in DOMAIN b THEN b[k] ELSE live[k]]

Balances(owners) == {Balance(o) : o \in owners}

\* An operation that uses and extends keys and the balances of owners.
Touching(keys, owners) == Usable(keys \cup Balances(owners)) /\ Extending(keys, owners)

Clock == UNCHANGED <<seq, now>>

----------------------------------------------------------------------------
Init ==
    /\ seq = 1 /\ now = 0 /\ touches = 0
    /\ live = [k \in Keys |-> 0]
    /\ campaigns = [c \in CampaignIds |-> [status |-> "None", expires_at |-> 0]]
    /\ manifests = [x \in Pools \X ManifestIds |-> [status |-> "None", expires_at |-> 0, claimed |-> {}]]

pool_initialize(p) ==
    /\ ~Exists(pool(p))                                   \* AlreadyInitialized
    /\ Extending({pool(p)}, {})
    /\ Clock /\ UNCHANGED <<campaigns, manifests, touches>>

\* It reads escrow_contract and token_contract of the pools, which extends nothing.
initialize ==
    /\ ~Exists(escrow)                                    \* AlreadyInitialized
    /\ \A p \in Pools : Exists(pool(p)) /\ Live(pool(p))
    /\ Extending({escrow}, {})
    /\ Clock /\ UNCHANGED <<campaigns, manifests, touches>>

fund(c) ==
    /\ Exists(escrow)                                     \* NotInitialized
    /\ ~Exists(Campaign(c))                               \* CampaignAlreadyExists
    /\ seq + EXPIRY <= MaxSeq
    /\ Touching({escrow, Campaign(c)}, {escrow})
    /\ campaigns' = [campaigns EXCEPT ![c] = [status |-> "Funded", expires_at |-> now + EXPIRY]]
    /\ Clock /\ UNCHANGED <<manifests, touches>>

activate(c) ==
    /\ Exists(Campaign(c))                                \* CampaignNotFound
    /\ campaigns[c].status = "Funded"                     \* InvalidState
    /\ Touching({escrow, Campaign(c)}, {})
    /\ campaigns' = [campaigns EXCEPT ![c].status = "Active"]
    /\ Clock /\ UNCHANGED <<manifests, touches>>

\* Both legs are paid and recorded: every pool is called.
complete(c) ==
    /\ Exists(Campaign(c))                                \* CampaignNotFound
    /\ campaigns[c].status = "Active"                     \* InvalidState
    /\ now < campaigns[c].expires_at                      \* Expired
    /\ ~Exists(ConsumedOperation(c))                      \* WrongVersion
    /\ \A p \in Pools : ~Exists(CreditedCampaign(p, c))   \* CampaignAlreadyCredited
    /\ Touching({escrow, Campaign(c), ConsumedOperation(c)}
                \cup {pool(p) : p \in Pools} \cup {CreditedCampaign(p, c) : p \in Pools},
                {escrow} \cup {pool(p) : p \in Pools})
    /\ campaigns' = [campaigns EXCEPT ![c].status = "Completed"]
    /\ Clock /\ UNCHANGED <<manifests, touches>>

refund_expired(c) ==
    /\ Exists(Campaign(c))                                \* CampaignNotFound
    /\ campaigns[c].status \in {"Funded", "Active"}       \* InvalidState
    /\ now >= campaigns[c].expires_at                     \* NotExpired
    /\ Touching({escrow, Campaign(c)}, {escrow})
    /\ campaigns' = [campaigns EXCEPT ![c].status = "Refunded"]
    /\ Clock /\ UNCHANGED <<manifests, touches>>

Credited(p) == \E c \in CampaignIds : Exists(CreditedCampaign(p, c))

\* Mutant: the life of the manifest is extended, that of its allocations is not.
publish_manifest_record_only(p, m, expires_at) ==
    LET x == <<p, m>> IN
    /\ Credited(p) /\ manifests[x].status = "None"
    /\ now < expires_at /\ expires_at <= now + MAX_CLAIM_WINDOW /\ seq + MAX_CLAIM_WINDOW <= MaxSeq
    /\ Usable({pool(p), Balance(pool(p))})
    /\ live' = [k \in Keys |-> IF k \in {pool(p), Manifest(p, m)} THEN Extend({k})[k]
                               ELSE IF k \in {Allocation(p, m, i) : i \in Allocations}
                               THEN seq + MinPersistentTtl - 1 ELSE live[k]]
    /\ manifests' = [manifests EXCEPT ![x] = [@ EXCEPT !.status = "Active", !.expires_at = expires_at]]
    /\ Clock /\ UNCHANGED <<campaigns, touches>>

\* What is allocated was credited before; available_balance reads the balance.
publish_manifest(p, m, expires_at) ==
    LET x == <<p, m>> IN
    /\ Credited(p)                                        \* InsufficientAvailableBalance
    /\ ~Exists(Manifest(p, m))                            \* ManifestAlreadyExists
    /\ now < expires_at                                   \* ManifestExpired
    /\ expires_at <= now + MAX_CLAIM_WINDOW               \* InvalidManifest
    /\ seq + MAX_CLAIM_WINDOW <= MaxSeq
    /\ Touching({pool(p), Manifest(p, m)} \cup {Allocation(p, m, i) : i \in Allocations}, {pool(p)})
    /\ manifests' = [manifests EXCEPT ![x] = [@ EXCEPT !.status = "Active", !.expires_at = expires_at]]
    /\ Clock /\ UNCHANGED <<campaigns, touches>>

claim(p, m, i) ==
    LET x == <<p, m>>
        claimed == manifests[x].claimed \cup {i}
    IN
    /\ manifests[x].status = "Active"                     \* InvalidState
    /\ now < manifests[x].expires_at                      \* ManifestExpired
    /\ i \notin manifests[x].claimed                      \* AlreadyClaimed
    /\ Touching({pool(p), Manifest(p, m), Allocation(p, m, i)}, {pool(p)})
    /\ manifests' = [manifests EXCEPT ![x] =
           [@ EXCEPT !.claimed = claimed,
                     !.status = IF claimed = Allocations THEN "Completed" ELSE "Active"]]
    /\ Clock /\ UNCHANGED <<campaigns, touches>>

expire_manifest(p, m) ==
    LET x == <<p, m>> IN
    /\ Exists(Manifest(p, m))                             \* ManifestNotFound
    /\ manifests[x].status = "Active"                     \* InvalidState
    /\ now >= manifests[x].expires_at                     \* NotExpired
    /\ Touching({pool(p), Manifest(p, m)}, {})
    /\ manifests' = [manifests EXCEPT ![x].status = "Expired"]
    /\ Clock /\ UNCHANGED <<campaigns, touches>>

----------------------------------------------------------------------------
(* Reads, and calls that only extend lives.                                *)

Touch == touches < MaxTouches /\ touches' = touches + 1 /\ Clock /\ UNCHANGED <<campaigns, manifests>>

\* Not through init: the contract's own life is not extended.
extend_campaign_ttl(c) ==
    /\ Touch /\ Exists(Campaign(c))
    /\ Usable({escrow}) /\ Touching({Campaign(c)}, {})

\* Everything else that begins with init: role changes, pause, the other reads.
extend_instance_ttl(instance) == Touch /\ Exists(instance) /\ Touching({instance}, {})

extend_manifest_ttl(p, m) ==
    /\ Touch /\ Exists(Manifest(p, m)) /\ Usable({pool(p)})
    /\ Touching({Manifest(p, m)} \cup {Allocation(p, m, i) : i \in Allocations}, {})

get_allocation(p, m, i) ==
    /\ Touch /\ Exists(Allocation(p, m, i)) /\ Usable({pool(p)})
    /\ Touching({Allocation(p, m, i)}, {})

available_balance(p) ==
    Touch /\ Exists(pool(p)) /\ Touching({pool(p)}, IF Exists(Balance(pool(p))) THEN {pool(p)} ELSE {})

\* Anyone pays a contract directly, in the token.
Pay(owner) == Touch /\ Exists(owner) /\ Touching({}, {owner})

----------------------------------------------------------------------------
\* Mutant: the contracts use temporary storage.
durability_temporary(k) == "temporary"

\* Instances are persistent, and the contracts use persistent storage only.
durability(k) == "persistent"

\* A temporary entry past its life is gone, a persistent one is archived.
CloseLedger(seconds) ==
    /\ seq < MaxSeq
    /\ seq' = seq + 1
    /\ now' = now + seconds
    /\ live' = [k \in Keys |-> IF durability(k) = "temporary" /\ live[k] < seq + 1 THEN 0 ELSE live[k]]
    /\ UNCHANGED <<campaigns, manifests, touches>>

Archived(k) == Exists(k) /\ ~Live(k)

\* RestoreFootprint of the network.
Restore(keys) ==
    /\ \E k \in keys : Archived(k)
    /\ live' = [k \in Keys |-> IF k \in keys /\ Archived(k) THEN seq + MinPersistentTtl - 1 ELSE live[k]]
    /\ Clock /\ UNCHANGED <<campaigns, manifests, touches>>

CampaignKeys(c) == {escrow, Balance(escrow), Campaign(c)}
CreditKeys == UNION {{pool(p), Balance(pool(p))} : p \in Pools}
ManifestKeys(p, m) ==
    {pool(p), Balance(pool(p)), Manifest(p, m)} \cup {Allocation(p, m, i) : i \in Allocations}

Next ==
    \/ initialize
    \/ \E p \in Pools : pool_initialize(p)
    \/ \E c \in CampaignIds :
          fund(c) \/ activate(c) \/ complete(c) \/ refund_expired(c) \/ extend_campaign_ttl(c)
    \/ \E p \in Pools, m \in ManifestIds :
          \/ \E expires_at \in now + 1..now + MAX_CLAIM_WINDOW : publish_manifest(p, m, expires_at)
          \/ \E i \in Allocations : claim(p, m, i) \/ get_allocation(p, m, i)
          \/ expire_manifest(p, m)
          \/ extend_manifest_ttl(p, m)
    \/ \E instance \in {escrow} \cup {pool(p) : p \in Pools} :
          extend_instance_ttl(instance) \/ Pay(instance)
    \/ \E p \in Pools : available_balance(p)
    \/ \E keys \in {CampaignKeys(c) : c \in CampaignIds} \cup {CreditKeys}
                   \cup {ManifestKeys(p, m) : p \in Pools, m \in ManifestIds} : Restore(keys)
    \/ \E seconds \in Cadence : CloseLedger(seconds)

Spec == Init /\ [][Next]_vars

\* Ledgers keep closing; anyone may restore entries, refund a campaign and expire
\* a manifest, and somebody who waits for the money does.
Fairness ==
    /\ WF_vars(\E seconds \in Cadence : CloseLedger(seconds))
    /\ \A c \in CampaignIds : SF_vars(refund_expired(c)) /\ WF_vars(Restore(CampaignKeys(c)))
    /\ \A p \in Pools, m \in ManifestIds :
          SF_vars(expire_manifest(p, m)) /\ WF_vars(Restore(ManifestKeys(p, m)))

FairSpec == Spec /\ Fairness

----------------------------------------------------------------------------
(* Properties.                                                             *)

OpenCampaign(c) == campaigns[c].status \in {"Funded", "Active"}

\* Without anyone's touch, a campaign's record and the escrow's instance live until
\* the campaign can be refunded, and so do the instance of a pool, a manifest and
\* its unclaimed allocations until the manifest can be expired, whatever was
\* published, claimed or read in between.  The token balance of the escrow is only
\* certain to live for the token's own threshold after a funding; that of a pool is
\* left out.  README.md 236-238 asks for a scheduled touch during a claim window:
\* at the cadence of LifetimeAssumption, from the comments at both constants TTL,
\* none is needed.
LiveToTheEnd ==
    /\ \A c \in CampaignIds : OpenCampaign(c) =>
          /\ now <= campaigns[c].expires_at => Live(escrow) /\ Live(Campaign(c))
          /\ now <= campaigns[c].expires_at - EXPIRY + BALANCE_TTL_THRESHOLD + 1 => Live(Balance(escrow))
    /\ \A p \in Pools, m \in ManifestIds : manifests[<<p, m>>].status = "Active" /\ now <= manifests[<<p, m>>].expires_at =>
          /\ Live(pool(p)) /\ Live(Manifest(p, m))
          /\ \A i \in Allocations \ manifests[<<p, m>>].claimed : Live(Allocation(p, m, i))

\* Every campaign that was funded is settled and every manifest that was published
\* is closed, although any of the entries they need may be archived at any time.
EndsDespiteArchival ==
    /\ \A c \in CampaignIds : OpenCampaign(c) ~> ~OpenCampaign(c)
    /\ \A p \in Pools, m \in ManifestIds :
          manifests[<<p, m>>].status = "Active" ~> manifests[<<p, m>>].status # "Active"
=============================================================================
