----------------------- MODULE StorageLifetimes_proofs -----------------------
(***************************************************************************)
(* Theorems about StorageLifetimes, for every number of campaigns, pools,   *)
(* manifests and ledgers, and for every cadence that TTL covers the expiry  *)
(* and the claim window at.                                                *)
(***************************************************************************)
EXTENDS StorageLifetimes, WellFoundedInduction, TLAPS

(***************************************************************************)
(* The cadence.                                                            *)
(***************************************************************************)

\* The fewest seconds that a ledger may take.
Fastest == CHOOSE s \in Cadence : \A t \in Cadence : s <= t

LEMMA FastestLemma ==
    /\ Fastest \in Nat \ {0}
    /\ \A t \in Cadence : Fastest <= t
    /\ EXPIRY <= Fastest * TTL /\ MAX_CLAIM_WINDOW <= Fastest * TTL
  <1>. DEFINE R == OpToRel(<, Nat)
  <1>1. \E s \in Cadence : \A t \in Cadence : ~(<<t, s>> \in R)
    BY LifetimeAssumption, NatLessThanWellFounded, WFMin
  <1>2. \A s, t \in Nat : t < s => <<t, s>> \in R
    BY DEF OpToRel
  <1>. HIDE DEF R
  <1>3. PICK s \in Cadence : \A t \in Cadence : ~(<<t, s>> \in R)
    BY <1>1
  <1>a. Cadence \subseteq Nat
    BY LifetimeAssumption
  <1>4. \A t \in Cadence : s \in Nat /\ t \in Nat /\ ~(t < s)
    BY <1>2, <1>3, <1>a, Zenon
  <1>5. \A t \in Cadence : s <= t
    BY <1>4
  <1>6. Fastest \in Cadence /\ \A t \in Cadence : Fastest <= t
    BY <1>5 DEF Fastest
  <1>. QED  BY <1>6, LifetimeAssumption

\* What is left of a life of l ledgers covers the time up to t.
Covers(l, t) == t - now <= Fastest * (l - seq)

\* Lives in ledgers and expiries in seconds: what covers a time covers it after
\* another ledger and when the life is longer, lasts up to it, and a life of TTL
\* covers the expiry.
LEMMA CoverLemma ==
    ASSUME NEW n \in Nat, NEW q \in Nat, NEW l \in Nat, NEW m \in Nat, NEW t \in Nat,
           t - n <= Fastest * (l - q)
    PROVE  /\ m >= l => t - n <= Fastest * (m - q)
           /\ \A s \in Cadence : t - (n + s) <= Fastest * (l - (q + 1))
           /\ n <= t => l >= q
  <1>0. Fastest \in Nat /\ Fastest > 0
    BY FastestLemma
  <1>1. ASSUME m >= l
        PROVE  t - n <= Fastest * (m - q)
    <2>1. PICK d \in Nat : m = l + d
      BY <1>1
    <2>2. Fastest * d \in Nat
      BY <1>0
    <2>3. Fastest * (m - q) = Fastest * (l - q) + Fastest * d
      BY <1>0, <2>1
    <2>. QED  BY <1>0, <2>2, <2>3
  <1>2. ASSUME NEW s \in Cadence
        PROVE  t - (n + s) <= Fastest * (l - (q + 1))
    <2>1. s \in Nat /\ Fastest <= s
      BY FastestLemma, LifetimeAssumption
    <2>2. Fastest * (l - (q + 1)) = Fastest * (l - q) - Fastest
      BY <1>0
    <2>3. Fastest * (l - q) \in Int
      BY <1>0
    <2>. QED  BY <1>0, <2>1, <2>2, <2>3
  <1>3. ASSUME n <= t
        PROVE  l >= q
    <2>. SUFFICES ASSUME l < q
                 PROVE  FALSE
      OBVIOUS
    <2>1. PICK d \in Nat : q = l + 1 + d
      OBVIOUS
    <2>2. Fastest * d \in Nat /\ Fastest * (l - q) = 0 - Fastest - Fastest * d
      BY <1>0, <2>1
    <2>. QED  BY <1>0, <1>3, <2>2
  <1>. QED  BY <1>1, <1>2, <1>3

(***************************************************************************)
(* The inductive invariant.                                                *)
(***************************************************************************)

Statuses == {"None", "Funded", "Active", "Completed", "Refunded", "Expired"}

LifeTypeOK ==
    /\ seq \in Nat /\ now \in Nat
    /\ live \in [Keys -> Nat]
    /\ campaigns \in [CampaignIds -> [status: Statuses, expires_at: Nat]]
    /\ manifests \in [Pools \X ManifestIds ->
                         [status: Statuses, expires_at: Nat, claimed: SUBSET Allocations]]

\* What an open campaign needs lives until it can be refunded, and the escrow's
\* balance for one ledger more than the token's threshold, at one second each.
CampaignCovered(c) ==
    OpenCampaign(c) =>
        /\ Covers(live[escrow], campaigns[c].expires_at)
        /\ Covers(live[Campaign(c)], campaigns[c].expires_at)
        /\ campaigns[c].expires_at - EXPIRY + BALANCE_TTL_THRESHOLD + 1 - now
              <= live[Balance(escrow)] - seq

ManifestCovered(p, m) ==
    manifests[<<p, m>>].status = "Active" =>
        /\ Covers(live[pool(p)], manifests[<<p, m>>].expires_at)
        /\ Covers(live[Manifest(p, m)], manifests[<<p, m>>].expires_at)
        /\ \A i \in Allocations : Covers(live[Allocation(p, m, i)], manifests[<<p, m>>].expires_at)

LifeInv ==
    /\ LifeTypeOK
    /\ \A c \in CampaignIds : CampaignCovered(c)
    /\ \A p \in Pools, m \in ManifestIds : ManifestCovered(p, m)

\* The keys of the entries.
LEMMA KeysLemma ==
    /\ escrow \in Keys /\ Balance(escrow) \in Keys
    /\ \A c \in CampaignIds : Campaign(c) \in Keys /\ ConsumedOperation(c) \in Keys
    /\ \A p \in Pools :
         /\ pool(p) \in Keys /\ Balance(pool(p)) \in Keys
         /\ \A c \in CampaignIds : CreditedCampaign(p, c) \in Keys
         /\ \A m \in ManifestIds :
              /\ Manifest(p, m) \in Keys
              /\ \A i \in Allocations : Allocation(p, m, i) \in Keys
  BY DEF Keys

\* Extending makes no life shorter: an entry has TTL ledgers left, or had more, and
\* a balance more than its threshold.
LEMMA ExtendLemma ==
    ASSUME LifeTypeOK, NEW keys \in SUBSET Keys, NEW owners, Extending(keys, owners)
    PROVE  /\ live' \in [Keys -> Nat]
           /\ \A k \in Keys : live'[k] >= live[k]
           /\ \A k \in keys : live'[k] >= seq + TTL
           /\ \A o \in owners : Balance(o) \in Keys \ keys =>
                 live'[Balance(o)] - seq >= BALANCE_TTL_THRESHOLD + 1
  <1>0. /\ TTL \in Nat /\ BALANCE_EXTEND_AMOUNT \in Nat /\ BALANCE_TTL_THRESHOLD \in Nat
        /\ BALANCE_TTL_THRESHOLD < BALANCE_EXTEND_AMOUNT
        /\ seq \in Nat /\ live \in [Keys -> Nat]
    BY LifetimeAssumption DEF LifeTypeOK
  <1>1. /\ \A k \in keys : live'[k] = IF live[k] > seq + TTL THEN live[k] ELSE seq + TTL
        /\ \A o \in owners : Balance(o) \in Keys \ keys =>
             live'[Balance(o)] = IF live[Balance(o)] - seq > BALANCE_TTL_THRESHOLD
                                 THEN live[Balance(o)] ELSE seq + BALANCE_EXTEND_AMOUNT
        /\ \A k \in Keys : k \notin keys /\ k \notin {Balance(o) : o \in owners} => live'[k] = live[k]
        /\ DOMAIN live' = Keys /\ live' = [k \in Keys |-> live'[k]]
    BY DEF Extending, Extend, ExtendBalances
  <1>2. \A k \in keys : live'[k] \in Nat /\ live'[k] >= live[k] /\ live'[k] >= seq + TTL
    BY <1>0, <1>1
  <1>3. ASSUME NEW o \in owners, Balance(o) \in Keys \ keys
        PROVE  /\ live'[Balance(o)] \in Nat /\ live'[Balance(o)] >= live[Balance(o)]
               /\ live'[Balance(o)] - seq >= BALANCE_TTL_THRESHOLD + 1
    <2>1. live[Balance(o)] \in Nat
      BY <1>0, <1>3
    <2>2. CASE live[Balance(o)] - seq > BALANCE_TTL_THRESHOLD
      BY <1>0, <1>1, <1>3, <2>1, <2>2
    <2>3. CASE ~(live[Balance(o)] - seq > BALANCE_TTL_THRESHOLD)
      BY <1>0, <1>1, <1>3, <2>1, <2>3
    <2>. QED  BY <2>2, <2>3
  <1>4. ASSUME NEW k \in Keys
        PROVE  live'[k] \in Nat /\ live'[k] >= live[k]
    <2>1. CASE k \in keys
      BY <1>2, <2>1
    <2>2. CASE k \notin keys /\ k \in {Balance(o) : o \in owners}
      BY <1>3, <2>2
    <2>3. CASE k \notin keys /\ k \notin {Balance(o) : o \in owners}
      BY <1>0, <1>1, <2>3
    <2>. QED  BY <2>1, <2>2, <2>3
  <1>5. live' \in [Keys -> Nat]
    BY <1>1, <1>4
  <1>. QED  BY <1>2, <1>3, <1>4, <1>5

\* While no ledger closes and no life gets shorter, what was covered stays covered.
LEMMA LongerLives ==
    ASSUME LifeInv, Clock, live' \in [Keys -> Nat], \A k \in Keys : live'[k] >= live[k]
    PROVE  /\ \A c \in CampaignIds :
                 /\ OpenCampaign(c)' => OpenCampaign(c)
                 /\ campaigns'[c].expires_at = campaigns[c].expires_at
                 => CampaignCovered(c)'
           /\ \A p \in Pools, m \in ManifestIds :
                 /\ manifests'[<<p, m>>].status = "Active" => manifests[<<p, m>>].status = "Active"
                 /\ manifests'[<<p, m>>].expires_at = manifests[<<p, m>>].expires_at
                 => ManifestCovered(p, m)'
  <1>0. /\ LifeTypeOK /\ seq \in Nat /\ now \in Nat /\ seq' = seq /\ now' = now
        /\ live \in [Keys -> Nat]
    BY DEF LifeInv, LifeTypeOK, Clock
  <1>1. ASSUME NEW k \in Keys, NEW t \in Nat, Covers(live[k], t)
        PROVE  Covers(live[k], t)'
    <2>1. live[k] \in Nat /\ live'[k] \in Nat /\ live'[k] >= live[k]
      BY <1>0
    <2>2. t - now <= Fastest * (live[k] - seq)
      BY <1>1 DEF Covers
    <2>3. t - now <= Fastest * (live'[k] - seq)
      BY <1>0, <2>1, <2>2, CoverLemma
    <2>. QED  BY <1>0, <2>3 DEF Covers
  <1>2. ASSUME NEW c \in CampaignIds, OpenCampaign(c)' => OpenCampaign(c),
               campaigns'[c].expires_at = campaigns[c].expires_at
        PROVE  CampaignCovered(c)'
    <2>. SUFFICES ASSUME OpenCampaign(c)'
                 PROVE  /\ Covers(live[escrow], campaigns[c].expires_at)'
                        /\ Covers(live[Campaign(c)], campaigns[c].expires_at)'
                        /\ campaigns'[c].expires_at - EXPIRY + BALANCE_TTL_THRESHOLD + 1 - now'
                              <= live'[Balance(escrow)] - seq'
      BY DEF CampaignCovered
    <2>1. CampaignCovered(c) /\ OpenCampaign(c)
      BY <1>2 DEF LifeInv
    <2>2. campaigns[c].expires_at \in Nat
      BY <1>0 DEF LifeTypeOK
    <2>3. Covers(live[escrow], campaigns[c].expires_at)'
      BY <1>1, <1>2, <2>1, <2>2, KeysLemma DEF CampaignCovered, Covers
    <2>4. Covers(live[Campaign(c)], campaigns[c].expires_at)'
      BY <1>1, <1>2, <2>1, <2>2, KeysLemma DEF CampaignCovered, Covers
    <2>5. /\ live[Balance(escrow)] \in Nat /\ live'[Balance(escrow)] \in Nat
          /\ live'[Balance(escrow)] >= live[Balance(escrow)]
      BY <1>0, KeysLemma
    <2>6. EXPIRY \in Nat /\ BALANCE_TTL_THRESHOLD \in Nat
      BY LifetimeAssumption
    <2>7. campaigns[c].expires_at - EXPIRY + BALANCE_TTL_THRESHOLD + 1 - now
            <= live[Balance(escrow)] - seq
      BY <2>1 DEF CampaignCovered
    <2>8. campaigns'[c].expires_at - EXPIRY + BALANCE_TTL_THRESHOLD + 1 - now'
            <= live'[Balance(escrow)] - seq'
      BY <1>0, <1>2, <2>2, <2>5, <2>6, <2>7
    <2>. QED  BY <2>3, <2>4, <2>8
  <1>3. ASSUME NEW p \in Pools, NEW m \in ManifestIds,
               manifests'[<<p, m>>].status = "Active" => manifests[<<p, m>>].status = "Active",
               manifests'[<<p, m>>].expires_at = manifests[<<p, m>>].expires_at
        PROVE  ManifestCovered(p, m)'
    <2>. DEFINE t == manifests[<<p, m>>].expires_at
    <2>. SUFFICES ASSUME manifests'[<<p, m>>].status = "Active"
                 PROVE  /\ Covers(live[pool(p)], t)' /\ Covers(live[Manifest(p, m)], t)'
                        /\ \A i \in Allocations : Covers(live[Allocation(p, m, i)], t)'
      BY DEF ManifestCovered
    <2>1. /\ Covers(live[pool(p)], t) /\ Covers(live[Manifest(p, m)], t)
          /\ \A i \in Allocations : Covers(live[Allocation(p, m, i)], t)
      BY <1>3 DEF LifeInv, ManifestCovered
    <2>2. t \in Nat /\ t' = t
      BY <1>0, <1>3 DEF LifeTypeOK
    <2>. HIDE DEF t
    <2>3. \A k \in Keys : Covers(live[k], t) => Covers(live[k], t)'
      BY <1>1, <2>2 DEF Covers
    <2>. QED  BY <2>1, <2>3, KeysLemma
  <1>. QED  BY <1>2, <1>3

CampaignRecords == [CampaignIds -> [status: Statuses, expires_at: Nat]]

ManifestRecords ==
    [Pools \X ManifestIds -> [status: Statuses, expires_at: Nat, claimed: SUBSET Allocations]]

\* Nothing opens, and the open ones keep their expiry.
CampaignsEnd ==
    /\ campaigns' \in CampaignRecords
    /\ \A c \in CampaignIds :
          (OpenCampaign(c)' => OpenCampaign(c)) /\ campaigns'[c].expires_at = campaigns[c].expires_at

ManifestsEnd ==
    /\ manifests' \in ManifestRecords
    /\ \A p \in Pools, m \in ManifestIds :
          /\ manifests'[<<p, m>>].status = "Active" => manifests[<<p, m>>].status = "Active"
          /\ manifests'[<<p, m>>].expires_at = manifests[<<p, m>>].expires_at

LEMMA RecordTypes ==
    ASSUME LifeInv
    PROVE  /\ campaigns \in CampaignRecords /\ manifests \in ManifestRecords
           /\ UNCHANGED campaigns => CampaignsEnd
           /\ UNCHANGED manifests => ManifestsEnd
  BY DEF LifeInv, LifeTypeOK, CampaignRecords, ManifestRecords, CampaignsEnd, ManifestsEnd, OpenCampaign

\* A step that opens nothing and makes no life shorter.
LEMMA QuietStep ==
    ASSUME LifeInv, Clock, live' \in [Keys -> Nat], \A k \in Keys : live'[k] >= live[k],
           CampaignsEnd, ManifestsEnd
    PROVE  LifeInv'
  <1>1. LifeTypeOK'
    BY DEF LifeInv, LifeTypeOK, Clock, CampaignsEnd, ManifestsEnd, CampaignRecords, ManifestRecords
  <1>2. \A c \in CampaignIds : CampaignCovered(c)'
    BY LongerLives DEF CampaignsEnd
  <1>3. \A p \in Pools, m \in ManifestIds : ManifestCovered(p, m)'
    BY LongerLives DEF ManifestsEnd
  <1>. QED  BY <1>1, <1>2, <1>3 DEF LifeInv

\* An operation that opens nothing.
LEMMA QuietTouch ==
    ASSUME LifeInv, Clock, NEW keys \in SUBSET Keys, NEW owners, Extending(keys, owners),
           CampaignsEnd, ManifestsEnd
    PROVE  LifeInv'
  <1>1. LifeTypeOK
    BY DEF LifeInv
  <1>2. live' \in [Keys -> Nat] /\ \A k \in Keys : live'[k] >= live[k]
    BY <1>1, ExtendLemma
  <1>. QED  BY <1>2, QuietStep

\* fund opens a campaign whose record, and whose escrow, live for TTL ledgers.
LEMMA FundLemma ==
    ASSUME LifeInv, NEW c \in CampaignIds, fund(c)
    PROVE  LifeInv'
  <1>. DEFINE keys == {escrow, Campaign(c)}
  <1>0. /\ LifeTypeOK /\ seq \in Nat /\ now \in Nat /\ seq' = seq /\ now' = now /\ Clock
        /\ EXPIRY \in Nat /\ TTL \in Nat /\ BALANCE_TTL_THRESHOLD \in Nat
    BY LifetimeAssumption DEF LifeInv, LifeTypeOK, fund, Clock
  <1>1. keys \in SUBSET Keys /\ Balance(escrow) \in Keys \ keys
    BY KeysLemma DEF Balance, escrow, Campaign
  <1>2. Extending(keys, {escrow}) /\ UNCHANGED manifests
    BY DEF fund, Touching
  <1>. HIDE DEF keys
  <1>3. /\ live' \in [Keys -> Nat] /\ \A k \in Keys : live'[k] >= live[k]
        /\ \A k \in keys : live'[k] >= seq + TTL
        /\ live'[Balance(escrow)] - seq >= BALANCE_TTL_THRESHOLD + 1
    BY <1>0, <1>1, <1>2, ExtendLemma
  <1>4. /\ campaigns'[c] = [status |-> "Funded", expires_at |-> now + EXPIRY]
        /\ \A d \in CampaignIds \ {c} : campaigns'[d] = campaigns[d]
        /\ campaigns' \in CampaignRecords
    BY <1>0, RecordTypes DEF fund, CampaignRecords, Statuses
  <1>5. ManifestsEnd
    BY <1>2, RecordTypes
  <1>6. LifeTypeOK'
    BY <1>0, <1>3, <1>4, <1>5 DEF LifeTypeOK, CampaignRecords, ManifestsEnd, ManifestRecords
  <1>7. \A k \in keys : Covers(live[k], campaigns[c].expires_at)'
    <2>. SUFFICES ASSUME NEW k \in keys
                 PROVE  Covers(live[k], campaigns[c].expires_at)'
      OBVIOUS
    <2>1. live'[k] \in Nat /\ live'[k] >= seq + TTL
      BY <1>1, <1>3
    <2>2. PICK t \in Nat : t = now + EXPIRY
      BY <1>0
    <2>3. (seq + TTL) \in Nat /\ t - now <= Fastest * ((seq + TTL) - seq)
      BY <1>0, <2>2, FastestLemma
    <2>4. t - now <= Fastest * (live'[k] - seq)
      BY <1>0, <2>1, <2>3, CoverLemma
    <2>. QED  BY <1>0, <1>4, <2>2, <2>4 DEF Covers
  <1>8. CampaignCovered(c)'
    <2>1. campaigns'[c].expires_at - EXPIRY + BALANCE_TTL_THRESHOLD + 1 - now'
            <= live'[Balance(escrow)] - seq'
      BY <1>0, <1>1, <1>3, <1>4
    <2>2. escrow \in keys /\ Campaign(c) \in keys
      BY DEF keys
    <2>. QED  BY <1>7, <2>1, <2>2 DEF CampaignCovered
  <1>9. \A d \in CampaignIds \ {c} : CampaignCovered(d)'
    BY <1>0, <1>3, <1>4, LongerLives DEF OpenCampaign
  <1>10. \A p \in Pools, m \in ManifestIds : ManifestCovered(p, m)'
    BY <1>0, <1>3, <1>5, LongerLives DEF ManifestsEnd
  <1>. QED  BY <1>6, <1>8, <1>9, <1>10 DEF LifeInv

\* publish_manifest opens a manifest whose entries all live for TTL ledgers.
LEMMA PublishLemma ==
    ASSUME LifeInv, NEW p \in Pools, NEW m \in ManifestIds,
           NEW expires_at \in Nat, publish_manifest(p, m, expires_at)
    PROVE  LifeInv'
  <1>. DEFINE keys == {pool(p), Manifest(p, m)} \cup {Allocation(p, m, i) : i \in Allocations}
  <1>0. /\ LifeTypeOK /\ seq \in Nat /\ now \in Nat /\ seq' = seq /\ now' = now /\ Clock
        /\ MAX_CLAIM_WINDOW \in Nat /\ TTL \in Nat /\ expires_at <= now + MAX_CLAIM_WINDOW
    BY LifetimeAssumption DEF LifeInv, LifeTypeOK, publish_manifest, Clock
  <1>1. /\ keys \in SUBSET Keys /\ pool(p) \in keys /\ Manifest(p, m) \in keys
        /\ \A i \in Allocations : Allocation(p, m, i) \in keys
    BY KeysLemma
  <1>2. Extending(keys, {pool(p)}) /\ UNCHANGED campaigns
    BY DEF publish_manifest, Touching
  <1>. HIDE DEF keys
  <1>3. /\ live' \in [Keys -> Nat] /\ \A k \in Keys : live'[k] >= live[k]
        /\ \A k \in keys : live'[k] >= seq + TTL
    BY <1>0, <1>1, <1>2, ExtendLemma
  <1>4. /\ manifests'[<<p, m>>].expires_at = expires_at
        /\ \A x \in (Pools \X ManifestIds) \ {<<p, m>>} : manifests'[x] = manifests[x]
        /\ manifests' \in ManifestRecords
    BY <1>0, RecordTypes, ZenonT(40) DEF publish_manifest, ManifestRecords, Statuses
  <1>5. CampaignsEnd
    BY <1>2, RecordTypes
  <1>6. LifeTypeOK'
    BY <1>0, <1>3, <1>4, <1>5 DEF LifeTypeOK, CampaignRecords, CampaignsEnd, ManifestRecords
  <1>7. \A k \in keys : Covers(live[k], manifests[<<p, m>>].expires_at)'
    <2>. SUFFICES ASSUME NEW k \in keys
                 PROVE  expires_at - now <= Fastest * (live'[k] - seq)
      BY <1>0, <1>4 DEF Covers
    <2>1. live'[k] \in Nat /\ live'[k] >= seq + TTL
      BY <1>1, <1>3
    <2>2. (seq + TTL) \in Nat
      BY <1>0
    <2>3. expires_at - now <= Fastest * ((seq + TTL) - seq)
      <3>1. MAX_CLAIM_WINDOW <= Fastest * TTL /\ Fastest * TTL \in Nat
        BY <1>0, FastestLemma
      <3>2. (seq + TTL) - seq = TTL
        BY <1>0
      <3>. QED  BY <1>0, <3>1, <3>2
    <2>. QED  BY <1>0, <2>1, <2>2, <2>3, CoverLemma
  <1>8. ManifestCovered(p, m)'
    BY <1>1, <1>7 DEF ManifestCovered
  <1>9. ASSUME NEW q \in Pools, NEW n \in ManifestIds, <<q, n>> # <<p, m>>
        PROVE  ManifestCovered(q, n)'
    <2>1. manifests'[<<q, n>>] = manifests[<<q, n>>]
      BY <1>4, <1>9
    <2>. QED  BY <1>0, <1>3, <2>1, LongerLives
  <1>10. \A c \in CampaignIds : CampaignCovered(c)'
    BY <1>0, <1>3, <1>5, LongerLives DEF CampaignsEnd
  <1>. QED  BY <1>6, <1>8, <1>9, <1>10 DEF LifeInv

\* A ledger takes at least the fewest seconds, and one off every life.
LEMMA CloseLemma ==
    ASSUME LifeInv, NEW seconds \in Cadence, CloseLedger(seconds)
    PROVE  LifeInv'
  <1>0. /\ LifeTypeOK /\ seq \in Nat /\ now \in Nat /\ live \in [Keys -> Nat]
        /\ seconds \in Nat /\ seconds >= 1
    BY LifetimeAssumption DEF LifeInv, LifeTypeOK
  <1>1. /\ seq' = seq + 1 /\ now' = now + seconds /\ UNCHANGED <<campaigns, manifests>>
        /\ live' = live
    BY <1>0 DEF CloseLedger, durability
  <1>2. LifeTypeOK'
    BY <1>0, <1>1 DEF LifeTypeOK
  <1>3. ASSUME NEW k \in Keys, NEW t \in Nat, Covers(live[k], t)
        PROVE  Covers(live[k], t)'
    <2>1. live[k] \in Nat /\ t - now <= Fastest * (live[k] - seq)
      BY <1>0, <1>3 DEF Covers
    <2>2. t - (now + seconds) <= Fastest * (live[k] - (seq + 1))
      BY <1>0, <2>1, CoverLemma
    <2>. QED  BY <1>1, <2>2 DEF Covers
  <1>4. ASSUME NEW c \in CampaignIds
        PROVE  CampaignCovered(c)'
    <2>. SUFFICES ASSUME OpenCampaign(c)
                 PROVE  CampaignCovered(c)'
      BY <1>1 DEF CampaignCovered, OpenCampaign
    <2>. DEFINE t == campaigns[c].expires_at
    <2>1. /\ Covers(live[escrow], t) /\ Covers(live[Campaign(c)], t)
          /\ t - EXPIRY + BALANCE_TTL_THRESHOLD + 1 - now <= live[Balance(escrow)] - seq
      BY DEF LifeInv, CampaignCovered
    <2>2. t \in Nat /\ t' = t
      BY <1>0, <1>1 DEF LifeTypeOK
    <2>3. EXPIRY \in Nat /\ BALANCE_TTL_THRESHOLD \in Nat /\ live[Balance(escrow)] \in Nat
      BY <1>0, LifetimeAssumption, KeysLemma
    <2>. HIDE DEF t
    <2>4. t - EXPIRY + BALANCE_TTL_THRESHOLD + 1 - now' <= live[Balance(escrow)] - seq'
      BY <1>0, <1>1, <2>1, <2>2, <2>3
    <2>5. Covers(live[escrow], t)' /\ Covers(live[Campaign(c)], t)'
      BY <1>3, <2>1, <2>2, KeysLemma DEF Covers
    <2>. QED  BY <1>1, <2>4, <2>5 DEF CampaignCovered, t
  <1>5. ASSUME NEW p \in Pools, NEW m \in ManifestIds
        PROVE  ManifestCovered(p, m)'
    <2>. SUFFICES ASSUME manifests[<<p, m>>].status = "Active"
                 PROVE  ManifestCovered(p, m)'
      BY <1>1 DEF ManifestCovered
    <2>. DEFINE t == manifests[<<p, m>>].expires_at
    <2>1. /\ Covers(live[pool(p)], t) /\ Covers(live[Manifest(p, m)], t)
          /\ \A i \in Allocations : Covers(live[Allocation(p, m, i)], t)
      BY DEF LifeInv, ManifestCovered
    <2>2. t \in Nat /\ t' = t
      BY <1>0, <1>1 DEF LifeTypeOK
    <2>. HIDE DEF t
    <2>3. \A k \in Keys : Covers(live[k], t) => Covers(live[k], t)'
      BY <1>3, <2>2 DEF Covers
    <2>4. /\ Covers(live[pool(p)], t)' /\ Covers(live[Manifest(p, m)], t)'
          /\ \A i \in Allocations : Covers(live[Allocation(p, m, i)], t)'
      BY <2>1, <2>3, KeysLemma
    <2>. QED  BY <2>4 DEF ManifestCovered, t
  <1>. QED  BY <1>2, <1>4, <1>5 DEF LifeInv

\* Restoring gives an archived entry a new life and leaves the others alone.
LEMMA RestoreLemma ==
    ASSUME LifeInv, NEW keys, Restore(keys)
    PROVE  LifeInv'
  <1>0. seq \in Nat /\ live \in [Keys -> Nat] /\ MinPersistentTtl \in Nat \ {0}
    BY LifetimeAssumption DEF LifeInv, LifeTypeOK
  <1>1. /\ live' = [k \in Keys |-> IF k \in keys /\ Archived(k) THEN seq + MinPersistentTtl - 1
                                   ELSE live[k]]
        /\ Clock /\ UNCHANGED <<campaigns, manifests>>
    BY DEF Restore
  <1>2. \A k \in Keys : Archived(k) => live[k] < seq
    BY <1>0 DEF Archived, Live
  <1>3. live' \in [Keys -> Nat] /\ \A k \in Keys : live'[k] >= live[k]
    BY <1>0, <1>1, <1>2
  <1>. QED  BY <1>1, <1>3, RecordTypes, QuietStep

LEMMA LifeInit == Init => LifeInv
  <1>. SUFFICES ASSUME Init
               PROVE  LifeInv
    OBVIOUS
  <1>1. LifeTypeOK
    BY DEF Init, LifeTypeOK, Statuses
  <1>2. /\ \A c \in CampaignIds : ~OpenCampaign(c)
        /\ \A p \in Pools, m \in ManifestIds : manifests[<<p, m>>].status # "Active"
    BY DEF Init, OpenCampaign
  <1>. QED  BY <1>1, <1>2 DEF LifeInv, CampaignCovered, ManifestCovered

LEMMA LifeStep == LifeInv /\ [Next]_vars => LifeInv'
  <1>. SUFFICES ASSUME LifeInv, [Next]_vars
               PROVE  LifeInv'
    OBVIOUS
  <1>0. LifeTypeOK /\ campaigns \in CampaignRecords /\ manifests \in ManifestRecords
    BY RecordTypes DEF LifeInv
  <1>a. ASSUME Clock, UNCHANGED <<campaigns, manifests>>, NEW keys \in SUBSET Keys, NEW owners,
               Extending(keys, owners)
        PROVE  LifeInv'
    BY <1>a, RecordTypes, QuietTouch
  <1>1. CASE initialize
    BY <1>1, <1>a, KeysLemma DEF initialize
  <1>2. ASSUME NEW p \in Pools, pool_initialize(p)
        PROVE  LifeInv'
    BY <1>2, <1>a, KeysLemma DEF pool_initialize
  <1>3. ASSUME NEW c \in CampaignIds, activate(c)
        PROVE  LifeInv'
    <2>1. CampaignsEnd
      BY <1>0, <1>3 DEF activate, CampaignsEnd, CampaignRecords, OpenCampaign, Statuses
    <2>. QED
      BY <1>3, <2>1, RecordTypes, QuietTouch, KeysLemma DEF activate, Touching
  <1>4. ASSUME NEW c \in CampaignIds, complete(c)
        PROVE  LifeInv'
    <2>. DEFINE keys == {escrow, Campaign(c), ConsumedOperation(c)}
                        \cup {pool(p) : p \in Pools} \cup {CreditedCampaign(p, c) : p \in Pools}
    <2>1. CampaignsEnd
      BY <1>0, <1>4 DEF complete, CampaignsEnd, CampaignRecords, OpenCampaign, Statuses
    <2>2. Extending(keys, {escrow} \cup {pool(p) : p \in Pools}) /\ Clock /\ UNCHANGED manifests
      BY <1>4 DEF complete, Touching
    <2>3. keys \in SUBSET Keys
      BY KeysLemma
    <2>. HIDE DEF keys
    <2>. QED  BY <2>1, <2>2, <2>3, RecordTypes, QuietTouch
  <1>5. ASSUME NEW c \in CampaignIds, refund_expired(c)
        PROVE  LifeInv'
    <2>1. CampaignsEnd
      BY <1>0, <1>5 DEF refund_expired, CampaignsEnd, CampaignRecords, OpenCampaign, Statuses
    <2>. QED
      BY <1>5, <2>1, RecordTypes, QuietTouch, KeysLemma DEF refund_expired, Touching
  <1>6. ASSUME NEW c \in CampaignIds, extend_campaign_ttl(c)
        PROVE  LifeInv'
    BY <1>6, <1>a, KeysLemma DEF extend_campaign_ttl, Touch, Touching
  <1>7. ASSUME NEW p \in Pools, NEW m \in ManifestIds, NEW i \in Allocations, claim(p, m, i)
        PROVE  LifeInv'
    <2>1. ManifestsEnd
      <3>. DEFINE x == <<p, m>>
                  r == [manifests[x] EXCEPT
                          !.claimed = manifests[x].claimed \cup {i},
                          !.status = IF manifests[x].claimed \cup {i} = Allocations
                                     THEN "Completed" ELSE "Active"]
      <3>1. x \in Pools \X ManifestIds /\ manifests[x].status = "Active"
        BY <1>7 DEF claim
      <3>2. /\ r \in [status: Statuses, expires_at: Nat, claimed: SUBSET Allocations]
            /\ r.expires_at = manifests[x].expires_at
        BY <1>0, <3>1 DEF ManifestRecords, Statuses
      <3>3. manifests' = [manifests EXCEPT ![x] = r]
        BY <1>7 DEF claim
      <3>. HIDE DEF r
      <3>. QED  BY <1>0, <3>1, <3>2, <3>3 DEF ManifestsEnd, ManifestRecords
    <2>. QED
      BY <1>7, <2>1, RecordTypes, QuietTouch, KeysLemma DEF claim, Touching
  <1>8. ASSUME NEW p \in Pools, NEW m \in ManifestIds, expire_manifest(p, m)
        PROVE  LifeInv'
    <2>1. ManifestsEnd
      BY <1>0, <1>8 DEF expire_manifest, ManifestsEnd, ManifestRecords, Statuses
    <2>. QED
      BY <1>8, <2>1, RecordTypes, QuietTouch, KeysLemma DEF expire_manifest, Touching
  <1>9. ASSUME NEW p \in Pools, NEW m \in ManifestIds,
               \/ extend_manifest_ttl(p, m)
               \/ \E i \in Allocations : get_allocation(p, m, i)
        PROVE  LifeInv'
    <2>. DEFINE keys == {Manifest(p, m)} \cup {Allocation(p, m, i) : i \in Allocations}
    <2>1. keys \in SUBSET Keys
      BY KeysLemma
    <2>2. CASE extend_manifest_ttl(p, m)
      <3>1. Extending(keys, {}) /\ Clock /\ UNCHANGED <<campaigns, manifests>>
        BY <2>2 DEF extend_manifest_ttl, Touch, Touching
      <3>. HIDE DEF keys
      <3>. QED  BY <1>a, <2>1, <3>1
    <2>3. ASSUME NEW i \in Allocations, get_allocation(p, m, i)
          PROVE  LifeInv'
      BY <1>a, <2>3, KeysLemma DEF get_allocation, Touch, Touching
    <2>. QED  BY <1>9, <2>2, <2>3
  <1>10. ASSUME NEW instance \in {escrow} \cup {pool(p) : p \in Pools},
                extend_instance_ttl(instance) \/ Pay(instance)
         PROVE  LifeInv'
    <2>1. instance \in Keys
      BY KeysLemma
    <2>. QED  BY <1>10, <1>a, <2>1 DEF extend_instance_ttl, Pay, Touch, Touching
  <1>11. ASSUME NEW p \in Pools, available_balance(p)
         PROVE  LifeInv'
    BY <1>11, <1>a, KeysLemma DEF available_balance, Touch, Touching
  <1>12. ASSUME NEW p \in Pools, NEW m \in ManifestIds,
                NEW expires_at \in now + 1..now + MAX_CLAIM_WINDOW, publish_manifest(p, m, expires_at)
         PROVE  LifeInv'
    <2>1. expires_at \in Nat
      BY <1>0, LifetimeAssumption DEF LifeTypeOK
    <2>. QED  BY <1>12, <2>1, PublishLemma
  <1>13. CASE UNCHANGED vars
    <2>1. Clock /\ UNCHANGED <<campaigns, manifests>> /\ live' = live
      BY <1>13 DEF vars, Clock
    <2>2. live' \in [Keys -> Nat] /\ \A k \in Keys : live'[k] >= live[k]
      BY <1>0, <2>1 DEF LifeTypeOK
    <2>. QED  BY <2>1, <2>2, RecordTypes, QuietStep
  <1>. QED
    BY <1>1, <1>2, <1>3, <1>4, <1>5, <1>6, <1>7, <1>8, <1>9, <1>10, <1>11, <1>12, <1>13,
       FundLemma, CloseLemma, RestoreLemma
    DEF Next

\* Without anyone's touch, what an open campaign or an active manifest needs lives
\* until it can be refunded or expired, whatever was funded, published, claimed,
\* read or restored in between: the extensions of both contracts suffice at every
\* cadence at which TTL covers the expiry.
THEOREM LivesCorrect == Spec => []LiveToTheEnd
  <1>1. LifeInv => LiveToTheEnd
    <2>. SUFFICES ASSUME LifeInv
                 PROVE  LiveToTheEnd
      OBVIOUS
    <2>0. seq \in Nat /\ now \in Nat /\ live \in [Keys -> Nat]
      BY DEF LifeInv, LifeTypeOK
    <2>1. ASSUME NEW k \in Keys, NEW t \in Nat, Covers(live[k], t), now <= t
          PROVE  Live(k)
      <3>1. live[k] \in Nat /\ t - now <= Fastest * (live[k] - seq)
        BY <2>0, <2>1 DEF Covers
      <3>. QED  BY <2>0, <2>1, <3>1, CoverLemma DEF Live
    <2>2. ASSUME NEW c \in CampaignIds, OpenCampaign(c)
          PROVE  /\ now <= campaigns[c].expires_at => Live(escrow) /\ Live(Campaign(c))
                 /\ now <= campaigns[c].expires_at - EXPIRY + BALANCE_TTL_THRESHOLD + 1
                      => Live(Balance(escrow))
      <3>1. campaigns[c].expires_at \in Nat
        BY DEF LifeInv, LifeTypeOK
      <3>2. now <= campaigns[c].expires_at => Live(escrow) /\ Live(Campaign(c))
        BY <2>1, <2>2, <3>1, KeysLemma DEF LifeInv, CampaignCovered
      <3>3. /\ live[Balance(escrow)] \in Nat /\ EXPIRY \in Nat /\ BALANCE_TTL_THRESHOLD \in Nat
            /\ campaigns[c].expires_at - EXPIRY + BALANCE_TTL_THRESHOLD + 1 - now
                  <= live[Balance(escrow)] - seq
        BY <2>0, <2>2, KeysLemma, LifetimeAssumption DEF LifeInv, CampaignCovered
      <3>. QED  BY <2>0, <3>1, <3>2, <3>3 DEF Live
    <2>3. ASSUME NEW p \in Pools, NEW m \in ManifestIds, manifests[<<p, m>>].status = "Active",
                 now <= manifests[<<p, m>>].expires_at
          PROVE  /\ Live(pool(p)) /\ Live(Manifest(p, m))
                 /\ \A i \in Allocations \ manifests[<<p, m>>].claimed : Live(Allocation(p, m, i))
      <3>1. manifests[<<p, m>>].expires_at \in Nat
        BY DEF LifeInv, LifeTypeOK
      <3>. QED  BY <2>1, <2>3, <3>1, KeysLemma DEF LifeInv, ManifestCovered
    <2>. QED  BY <2>2, <2>3 DEF LiveToTheEnd
  <1>. QED  BY <1>1, LifeInit, LifeStep, PTL DEF Spec
=============================================================================
