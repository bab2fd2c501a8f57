------------------------- MODULE TogetherFi_proofs -------------------------
(***************************************************************************)
(* Theorems about CampaignEscrow, for every set of addresses, campaigns and *)
(* amounts, every EXPIRY and every i128::MAX, and about TogetherFi: the     *)
(* escrow and the two pools in each other's company, for every set of       *)
(* credits and manifests.  The escrow's theorems, the first part, are the   *)
(* lemmas of the system's, and use nothing of the pools.                    *)
(***************************************************************************)
EXTENDS TogetherFi, FiniteSetTheorems, TLAPS

----------------------------------------------------------------------------
(* The escrow, with any environment that keeps to the token's rules.        *)

(***************************************************************************)
(* The token.                                                              *)
(***************************************************************************)

\* A transfer the token allows has its source and target among the addresses,
\* keeps every balance a natural number, and moves exactly the amount.
LEMMA TransferLemma ==
    ASSUME NEW b \in [Holders -> Nat], NEW from, NEW to, NEW a \in Int,
           authorized \subseteq Holders, CanTransfer(b, from, to, a)
    PROVE  /\ from \in Holders /\ to \in Holders /\ a \in Nat
           /\ Transfer(b, from, to, a) \in [Holders -> Nat]
           /\ from = to => Transfer(b, from, to, a) = b
           /\ from # to => /\ Transfer(b, from, to, a)[from] = b[from] - a
                           /\ Transfer(b, from, to, a)[to] = b[to] + a
           /\ \A h \in Holders \ {from, to} : Transfer(b, from, to, a)[h] = b[h]
  <1>1. from \in Holders /\ to \in Holders /\ a \in Nat /\ b[from] >= a
    BY DEF CanTransfer, CanSpend, CanReceive
  <1>2. SpendBalance(b, from, a) \in [Holders -> Nat]
    BY <1>1 DEF SpendBalance
  <1>3. Transfer(b, from, to, a) \in [Holders -> Nat]
    BY <1>1, <1>2 DEF Transfer, ReceiveBalance
  <1>4. CASE from = to
    <2>1. Transfer(b, from, to, a) = [b EXCEPT ![from] = (@ - a) + a]
      BY <1>1, <1>4 DEF Transfer, ReceiveBalance, SpendBalance
    <2>2. (b[from] - a) + a = b[from]
      BY <1>1
    <2>. QED  BY <1>1, <1>3, <1>4, <2>1, <2>2
  <1>5. CASE from # to
    BY <1>1, <1>3, <1>5 DEF Transfer, ReceiveBalance, SpendBalance
  <1>. QED  BY <1>1, <1>3, <1>4, <1>5

(***************************************************************************)
(* The split.                                                              *)
(***************************************************************************)

\* Integer division by 10000 of each share of an amount of at least 100 base
\* units: every leg is positive, the five add up to the amount, and the
\* creator's remainder is at least 82%.
LEMMA SplitLemma ==
    ASSUME NEW t \in Nat, t >= 100
    PROVE  LET service == (t * 1000) \div 10000
               nft == (t * 500) \div 10000
               revenue == (t * 200) \div 10000
               referrer == (t * 100) \div 10000
               creator == t - service - nft - revenue - referrer
           IN  /\ service \in Nat /\ nft \in Nat /\ revenue \in Nat
               /\ referrer \in Nat /\ creator \in Nat
               /\ service > 0 /\ nft > 0 /\ revenue > 0 /\ referrer > 0 /\ creator > 0
               /\ creator + service + nft + revenue + referrer = t
               /\ 10000 * creator >= 8200 * t
  OBVIOUS

\* The legs of a campaign are integers whatever its amount is, and add up to it.
LEMMA LegsLemma ==
    ASSUME NEW c \in CampaignIds, campaigns[c].amount \in Nat
    PROVE  /\ CreatorLeg(c) \in Int /\ ServiceLeg(c) \in Int /\ NftLeg(c) \in Int
           /\ RevenueLeg(c) \in Int /\ ReferrerLeg(c) \in Int
           /\ CreatorLeg(c) + ServiceLeg(c) + NftLeg(c) + RevenueLeg(c) + ReferrerLeg(c)
                 = campaigns[c].amount
  BY DEF CreatorLeg, ServiceLeg, NftLeg, RevenueLeg, ReferrerLeg, Share,
         DENOM, SERVICE, NFT_POOL, REVENUE, REFERRER

(***************************************************************************)
(* The payout of a completion.                                             *)
(***************************************************************************)

\* One transfer out of the escrow, to whatever payee (itself included): the
\* escrow loses at most the amount, and nobody else loses anything.
LEMMA PaymentLemma ==
    ASSUME NEW b \in [Holders -> Nat], NEW to, NEW a \in Int,
           authorized \subseteq Holders, CanTransfer(b, Escrow, to, a)
    PROVE  /\ Transfer(b, Escrow, to, a) \in [Holders -> Nat]
           /\ Transfer(b, Escrow, to, a)[Escrow] >= b[Escrow] - a
           /\ \A h \in Holders \ {Escrow} : Transfer(b, Escrow, to, a)[h] >= b[h]
  <1>1. /\ Escrow \in Holders /\ to \in Holders /\ a \in Nat
        /\ Transfer(b, Escrow, to, a) \in [Holders -> Nat]
        /\ Escrow = to => Transfer(b, Escrow, to, a) = b
        /\ Escrow # to => /\ Transfer(b, Escrow, to, a)[Escrow] = b[Escrow] - a
                          /\ Transfer(b, Escrow, to, a)[to] = b[to] + a
        /\ \A h \in Holders \ {Escrow, to} : Transfer(b, Escrow, to, a)[h] = b[h]
    BY TransferLemma
  <1>2. CASE Escrow = to
    BY <1>1, <1>2
  <1>3. CASE Escrow # to
    BY <1>1, <1>3
  <1>. QED  BY <1>2, <1>3

\* The five transfers of complete: the escrow loses at most the campaign's
\* amount, and nobody else loses anything, not in the middle of it either.
LEMMA PayoutLemma ==
    ASSUME TypeOK, NEW c \in CampaignIds, CanPayAllLegs(c)
    PROVE  /\ AfterReferrer(c) \in [Holders -> Nat]
           /\ AfterReferrer(c)[Escrow] >= balance[Escrow] - campaigns[c].amount
           /\ \A h \in Holders \ {Escrow} :
                 /\ AfterReferrer(c)[h] >= balance[h]
                 /\ AfterNft(c)[h] \in balance[h]..AfterReferrer(c)[h]
                 /\ AfterRevenue(c)[h] \in balance[h]..AfterReferrer(c)[h]
  <1>. Escrow \in Holders
    BY EscrowAssumption DEF Holders
  <1>1. campaigns[c].amount \in Nat
    BY DEF TypeOK, Campaigns
  <1>2. authorized \subseteq Holders /\ balance \in [Holders -> Nat]
    BY DEF TypeOK, LedgerTypeOK
  <1>3. /\ CreatorLeg(c) \in Int /\ ServiceLeg(c) \in Int /\ NftLeg(c) \in Int
        /\ RevenueLeg(c) \in Int /\ ReferrerLeg(c) \in Int
        /\ CreatorLeg(c) + ServiceLeg(c) + NftLeg(c) + RevenueLeg(c) + ReferrerLeg(c)
              = campaigns[c].amount
    BY <1>1, LegsLemma
  <1>4. /\ AfterCreator(c) \in [Holders -> Nat]
        /\ AfterCreator(c)[Escrow] >= balance[Escrow] - CreatorLeg(c)
        /\ \A h \in Holders \ {Escrow} : AfterCreator(c)[h] >= balance[h]
    BY <1>2, <1>3, PaymentLemma DEF AfterCreator, CanPayAllLegs
  <1>5. /\ AfterService(c) \in [Holders -> Nat]
        /\ AfterService(c)[Escrow] >= AfterCreator(c)[Escrow] - ServiceLeg(c)
        /\ \A h \in Holders \ {Escrow} : AfterService(c)[h] >= AfterCreator(c)[h]
    BY <1>2, <1>3, <1>4, PaymentLemma DEF AfterService, CanPayAllLegs
  <1>6. /\ AfterNft(c) \in [Holders -> Nat]
        /\ AfterNft(c)[Escrow] >= AfterService(c)[Escrow] - NftLeg(c)
        /\ \A h \in Holders \ {Escrow} : AfterNft(c)[h] >= AfterService(c)[h]
    BY <1>2, <1>3, <1>5, PaymentLemma DEF AfterNft, CanPayAllLegs
  <1>7. /\ AfterRevenue(c) \in [Holders -> Nat]
        /\ AfterRevenue(c)[Escrow] >= AfterNft(c)[Escrow] - RevenueLeg(c)
        /\ \A h \in Holders \ {Escrow} : AfterRevenue(c)[h] >= AfterNft(c)[h]
    BY <1>2, <1>3, <1>6, PaymentLemma DEF AfterRevenue, CanPayAllLegs
  <1>8. /\ AfterReferrer(c) \in [Holders -> Nat]
        /\ AfterReferrer(c)[Escrow] >= AfterRevenue(c)[Escrow] - ReferrerLeg(c)
        /\ \A h \in Holders \ {Escrow} : AfterReferrer(c)[h] >= AfterRevenue(c)[h]
    BY <1>2, <1>3, <1>7, PaymentLemma DEF AfterReferrer, CanPayAllLegs
  <1>9. AfterReferrer(c)[Escrow] >= balance[Escrow] - campaigns[c].amount
    <2>. DEFINE b0 == balance[Escrow]           b1 == AfterCreator(c)[Escrow]
                b2 == AfterService(c)[Escrow]   b3 == AfterNft(c)[Escrow]
                b4 == AfterRevenue(c)[Escrow]   b5 == AfterReferrer(c)[Escrow]
    <2>1. b0 \in Nat /\ b1 \in Nat /\ b2 \in Nat /\ b3 \in Nat /\ b4 \in Nat /\ b5 \in Nat
      BY <1>2, <1>4, <1>5, <1>6, <1>7, <1>8
    <2>2. /\ b1 >= b0 - CreatorLeg(c) /\ b2 >= b1 - ServiceLeg(c) /\ b3 >= b2 - NftLeg(c)
          /\ b4 >= b3 - RevenueLeg(c) /\ b5 >= b4 - ReferrerLeg(c)
      BY <1>4, <1>5, <1>6, <1>7, <1>8
    <2>. HIDE DEF b0, b1, b2, b3, b4, b5
    <2>3. b5 >= b0 - campaigns[c].amount
      BY <1>1, <1>3, <2>1, <2>2
    <2>. QED  BY <2>3 DEF b0, b5
  <1>10. ASSUME NEW h \in Holders \ {Escrow}
         PROVE  /\ AfterReferrer(c)[h] >= balance[h]
                /\ AfterNft(c)[h] \in balance[h]..AfterReferrer(c)[h]
                /\ AfterRevenue(c)[h] \in balance[h]..AfterReferrer(c)[h]
    <2>1. /\ balance[h] \in Nat /\ AfterCreator(c)[h] \in Nat /\ AfterService(c)[h] \in Nat
          /\ AfterNft(c)[h] \in Nat /\ AfterRevenue(c)[h] \in Nat /\ AfterReferrer(c)[h] \in Nat
      BY <1>2, <1>4, <1>5, <1>6, <1>7, <1>8
    <2>2. /\ AfterCreator(c)[h] >= balance[h] /\ AfterService(c)[h] >= AfterCreator(c)[h]
          /\ AfterNft(c)[h] >= AfterService(c)[h] /\ AfterRevenue(c)[h] >= AfterNft(c)[h]
          /\ AfterReferrer(c)[h] >= AfterRevenue(c)[h]
      BY <1>4, <1>5, <1>6, <1>7, <1>8
    <2>. QED  BY <2>1, <2>2
  <1>. QED  BY <1>8, <1>9, <1>10

(***************************************************************************)
(* Type correctness.                                                       *)
(***************************************************************************)

LEMMA TypeInit == Init => TypeOK
  <1>. SUFFICES ASSUME Init
               PROVE  TypeOK
    OBVIOUS
  <1>1. LedgerTypeOK
    BY AddressAssumption, HostAssumption DEF Init, LedgerInit, HostInit, LedgerTypeOK
  <1>2. NoCampaign \in Campaigns
    BY DEF NoCampaign, Campaigns, Versions, Statuses
  <1>. QED  BY <1>1, <1>2 DEF Init, EscrowInit, TypeOK

LEMMA TypeStep == TypeOK /\ [OpenNext]_vars => TypeOK'
  <1>. SUFFICES ASSUME TypeOK, [OpenNext]_vars
               PROVE  TypeOK'
    OBVIOUS
  <1>. USE DEF ledgerVars, roleVars, bookVars, escrowVars
  <1>1. ASSUME NEW gov \in Authorities, NEW set \in Authorities, NEW service \in Treasuries,
               NEW nft \in Pools, NEW revenue \in Pools, NEW deployer \in Accounts,
               NEW bound \in SUBSET Pools,
               initialize(gov, set, service, nft, revenue, deployer, bound)
        PROVE  TypeOK'
    <2>1. gov \in Accounts /\ gov # None /\ set \in Holders /\ service \in Holders
      BY <1>1, EscrowAssumption DEF initialize, require_auth, TypeOK, LedgerTypeOK, Holders
    <2>2. destinations' \in Destinations /\ destinations' # None
      BY <1>1, <2>1, EscrowAssumption DEF initialize, Destinations
    <2>3. LedgerTypeOK'
      BY <1>1 DEF initialize, TypeOK, LedgerTypeOK
    <2>. QED  BY <1>1, <2>1, <2>2, <2>3 DEF initialize, TypeOK
  <1>2. ASSUME NEW c \in CampaignIds, NEW sponsor \in Sponsors, NEW amount \in Amounts,
               fund(c, sponsor, amount)
        PROVE  TypeOK'
    <2>1. amount \in Int /\ amount >= 100 /\ authorized \subseteq Holders
          /\ balance \in [Holders -> Nat] /\ sponsor \in Holders /\ Escrow \in Holders
      BY <1>2, AmountAssumption, EscrowAssumption
         DEF fund, MINIMUM_CAMPAIGN_AMOUNT, TypeOK, LedgerTypeOK, Holders
    <2>2. balance' \in [Holders -> Nat]
      BY <1>2, <2>1, TransferLemma DEF fund, Deposit
    <2>3. now + EXPIRY \in Nat
      BY AmountAssumption, HostAssumption DEF TypeOK, LedgerTypeOK
    <2>4. campaigns' \in [CampaignIds -> Campaigns]
      BY <1>2, <2>1, <2>3 DEF fund, TypeOK, Campaigns, Versions, Statuses
    <2>. QED  BY <1>2, <2>1, <2>2, <2>4 DEF fund, TypeOK, LedgerTypeOK
  <1>3. ASSUME NEW c \in CampaignIds, NEW creator \in Creators,
               NEW referrer \in Referrers \cup {None}, NEW terms \in Terms \cup {None},
               activate(c, creator, referrer, terms)
        PROVE  TypeOK'
    <2>1. creator \in Holders /\ referrer \in Holders \cup {None}
      BY EscrowAssumption
    <2>. DEFINE active == [campaigns[c] EXCEPT
                  !.creator = creator, !.referrer = referrer, !.terms = terms,
                  !.status = "Active", !.version = 1]
    <2>2. campaigns[c] \in Campaigns
      BY DEF TypeOK
    <2>3. active \in Campaigns
      BY <2>1, <2>2 DEF Campaigns, Versions, Statuses
    <2>4. campaigns' = [campaigns EXCEPT ![c] = active]
      BY <1>3 DEF activate
    <2>5. campaigns' \in [CampaignIds -> Campaigns]
      BY <2>3, <2>4 DEF TypeOK
    <2>. QED  BY <1>3, <2>5 DEF activate, TypeOK, LedgerTypeOK
  <1>4. ASSUME NEW c \in CampaignIds, NEW version \in Versions, complete(c, version)
        PROVE  TypeOK'
    <2>1. balance' \in [Holders -> Nat]
      BY <1>4, PayoutLemma DEF complete
    <2>2. liability' \in Nat
      BY <1>4 DEF complete, SettleBooks, NoDeficit, TypeOK, Campaigns
    <2>3. campaigns' \in [CampaignIds -> Campaigns]
      BY <1>4 DEF complete, SettleBooks, TypeOK, Campaigns, Statuses
    <2>. QED  BY <1>4, <2>1, <2>2, <2>3 DEF complete, TypeOK, LedgerTypeOK
  <1>5. ASSUME NEW c \in CampaignIds, refund_expired(c)
        PROVE  TypeOK'
    <2>1. campaigns[c].amount \in Int /\ authorized \subseteq Holders
          /\ balance \in [Holders -> Nat]
      BY DEF TypeOK, LedgerTypeOK, Campaigns
    <2>2. balance' \in [Holders -> Nat]
      BY <1>5, <2>1, TransferLemma DEF refund_expired
    <2>3. liability' \in Nat
      BY <1>5 DEF refund_expired, SettleBooks, NoDeficit, TypeOK, Campaigns
    <2>4. campaigns' \in [CampaignIds -> Campaigns]
      BY <1>5 DEF refund_expired, SettleBooks, TypeOK, Campaigns, Statuses
    <2>. QED  BY <1>5, <2>2, <2>3, <2>4 DEF refund_expired, TypeOK, LedgerTypeOK
  <1>6. CASE pause
    BY <1>6 DEF pause, TypeOK, LedgerTypeOK
  <1>7. CASE unpause
    BY <1>7 DEF unpause, TypeOK, LedgerTypeOK
  <1>8. ASSUME NEW account \in Nominees,
               propose_governance(account) \/ propose_settlement(account)
        PROVE  TypeOK'
    <2>1. account \in Holders
      BY EscrowAssumption
    <2>. QED  BY <1>8, <2>1 DEF propose_governance, propose_settlement, TypeOK, LedgerTypeOK
  <1>9. CASE accept_governance
    BY <1>9, EscrowAssumption DEF accept_governance, require_auth, initialized, TypeOK, LedgerTypeOK
  <1>10. CASE accept_settlement
    BY <1>10 DEF accept_settlement, TypeOK, LedgerTypeOK
  <1>11. CASE Environment
    BY <1>11 DEF Environment, TypeOK
  <1>12. CASE UNCHANGED vars
    BY <1>12 DEF vars, TypeOK, LedgerTypeOK
  <1>. QED
    BY <1>1, <1>2, <1>3, <1>4, <1>5, <1>6, <1>7, <1>8, <1>9, <1>10, <1>11, <1>12
       DEF OpenNext, EscrowNext, EscrowOnlyNext

\* Every reachable state of the escrow is well formed: in particular no balance
\* and no liability ever goes below zero.
THEOREM TypeCorrect == OpenSpec => []TypeOK
  BY TypeInit, TypeStep, PTL DEF OpenSpec

(***************************************************************************)
(* The books.  LiabilityIsOpenCampaigns counts base units, so a campaign   *)
(* that opens or settles adds or removes a block of amount many of them;    *)
(* for that its amount must lie below MaxAmount, which is what fund checks. *)
(***************************************************************************)

\* Every campaign in storage has an amount that fund accepts.
AmountsInRange ==
    \A c \in CampaignIds : campaigns[c].status # "Absent" =>
        campaigns[c].amount >= MINIMUM_CAMPAIGN_AMOUNT /\ campaigns[c].amount <= MaxAmount

\* Nothing is in storage before initialization, which resets the total to zero.
NothingBeforeInit ==
    ~initialized => liability = 0 /\ \A c \in CampaignIds : campaigns[c].status = "Absent"

BooksInv == TypeOK /\ AmountsInRange /\ NothingBeforeInit /\ LiabilityIsOpenCampaigns

LEMMA MaxAmountType == MaxAmount \in Nat /\ DENOM * MaxAmount <= I128Max
  BY AmountAssumption DEF MaxAmount, DENOM

LEMMA OwedFinite == IsFiniteSet(OwedUnits) /\ IsFiniteSet(OwedUnits')
  <1>1. IsFiniteSet(1..MaxAmount)
    BY MaxAmountType, FS_Interval
  <1>2. IsFiniteSet(CampaignIds \X (1..MaxAmount))
    BY <1>1, EscrowAssumption, FS_Product
  <1>3. OwedUnits \in SUBSET (CampaignIds \X (1..MaxAmount))
    BY DEF OwedUnits
  <1>4. OwedUnits' \in SUBSET (CampaignIds \X (1..MaxAmount))
    BY DEF OwedUnits
  <1>. QED  BY <1>2, <1>3, <1>4, FS_Subset

\* A block of n units that a finite set does not contain adds n to its size.
LEMMA BlockLemma ==
    ASSUME NEW S, IsFiniteSet(S), NEW c, NEW n \in Nat, S \cap ({c} \X (1..n)) = {}
    PROVE  Cardinality(S \cup ({c} \X (1..n))) = Cardinality(S) + n
  <1>1. IsFiniteSet({c}) /\ Cardinality({c}) = 1
    BY FS_Singleton
  <1>2. IsFiniteSet(1..n) /\ Cardinality(1..n) = n
    BY FS_Interval
  <1>. DEFINE block == {c} \X (1..n)
  <1>3. IsFiniteSet(block) /\ Cardinality(block) = Cardinality({c}) * Cardinality(1..n)
    BY <1>1, <1>2, FS_Product, Zenon
  <1>4. Cardinality(block) = n
    BY <1>1, <1>2, <1>3
  <1>5. Cardinality(S) \in Nat
    BY FS_CardinalityType
  <1>. HIDE DEF block
  <1>6. S \cap block = {}
    BY DEF block
  <1>7. Cardinality(S \cup block) = Cardinality(S) + Cardinality(block) - Cardinality(S \cap block)
    BY <1>3, FS_Union, Zenon
  <1>8. Cardinality(S \cap block) = 0
    BY <1>6, FS_EmptySet, Zenon
  <1>9. Cardinality(S \cup block) = Cardinality(S) + n
    BY <1>4, <1>5, <1>7, <1>8
  <1>. QED  BY <1>9 DEF block

\* A campaign that opens with amount n adds n to what is owed.
LEMMA OwedOnOpen ==
    ASSUME NEW c \in CampaignIds, NEW n \in Nat, n <= MaxAmount,
           ~Open(c), Open(c)', campaigns'[c].amount = n,
           \A d \in CampaignIds \ {c} : campaigns'[d] = campaigns[d]
    PROVE  Cardinality(OwedUnits') = Cardinality(OwedUnits) + n
  <1>1. OwedUnits' = OwedUnits \cup ({c} \X (1..n))
    BY MaxAmountType DEF OwedUnits, Open
  <1>2. OwedUnits \cap ({c} \X (1..n)) = {}
    BY DEF OwedUnits
  <1>. QED  BY <1>1, <1>2, OwedFinite, BlockLemma

\* A campaign that settles removes its amount from what is owed.
LEMMA OwedOnSettle ==
    ASSUME NEW c \in CampaignIds, campaigns[c].amount \in Nat, campaigns[c].amount <= MaxAmount,
           Open(c), ~Open(c)',
           \A d \in CampaignIds \ {c} : campaigns'[d] = campaigns[d]
    PROVE  Cardinality(OwedUnits) = Cardinality(OwedUnits') + campaigns[c].amount
  <1>. DEFINE n == campaigns[c].amount
  <1>1. OwedUnits = OwedUnits' \cup ({c} \X (1..n))
    BY MaxAmountType DEF OwedUnits, Open
  <1>2. OwedUnits' \cap ({c} \X (1..n)) = {}
    BY DEF OwedUnits
  <1>. QED  BY <1>1, <1>2, OwedFinite, BlockLemma

LEMMA BooksInit == Init => BooksInv
  <1>. SUFFICES ASSUME Init
               PROVE  BooksInv
    OBVIOUS
  <1>1. TypeOK
    BY TypeInit
  <1>2. \A c \in CampaignIds : campaigns[c].status = "Absent"
    BY DEF Init, EscrowInit, NoCampaign
  <1>3. OwedUnits = {}
    BY <1>2 DEF OwedUnits, Open
  <1>4. Cardinality(OwedUnits) = 0
    BY <1>3, FS_EmptySet
  <1>. QED
    BY <1>1, <1>2, <1>4 DEF BooksInv, AmountsInRange, NothingBeforeInit,
       LiabilityIsOpenCampaigns, Init, EscrowInit

\* Steps that leave campaigns and total alone keep the books.
LEMMA BooksFrame ==
    ASSUME BooksInv, TypeOK', campaigns' = campaigns, liability' = liability,
           initialized => initialized'
    PROVE  BooksInv'
  <1>1. OwedUnits' = OwedUnits
    BY DEF OwedUnits, Open
  <1>. QED
    BY <1>1 DEF BooksInv, AmountsInRange, NothingBeforeInit, LiabilityIsOpenCampaigns

\* Settling one open campaign keeps the books, with whatever outcome.
LEMMA BooksSettle ==
    ASSUME BooksInv, TypeOK', NEW c \in CampaignIds, Open(c),
           NEW outcome \in {"Completed", "Refunded"}, SettleBooks(c, outcome),
           initialized'
    PROVE  BooksInv'
  <1>1. /\ campaigns[c].amount \in Nat /\ campaigns[c].amount <= MaxAmount
        /\ campaigns[c].amount >= MINIMUM_CAMPAIGN_AMOUNT
        /\ liability \in Nat
    BY DEF BooksInv, TypeOK, Campaigns, AmountsInRange, Open
  <1>2. /\ campaigns'[c] = [campaigns[c] EXCEPT !.status = outcome]
        /\ \A d \in CampaignIds \ {c} : campaigns'[d] = campaigns[d]
        /\ liability' = liability - campaigns[c].amount
    BY DEF SettleBooks, BooksInv, TypeOK
  <1>3. campaigns'[c].status = outcome /\ campaigns'[c].amount = campaigns[c].amount
    BY <1>2 DEF BooksInv, TypeOK, Campaigns
  <1>4. Cardinality(OwedUnits) = Cardinality(OwedUnits') + campaigns[c].amount
    BY <1>1, <1>2, <1>3, OwedOnSettle DEF Open
  <1>5. Cardinality(OwedUnits') \in Nat
    BY OwedFinite, FS_CardinalityType
  <1>6. liability' = Cardinality(OwedUnits')
    BY <1>1, <1>2, <1>4, <1>5 DEF BooksInv, LiabilityIsOpenCampaigns
  <1>7. AmountsInRange'
    BY <1>1, <1>2, <1>3, MaxAmountType DEF BooksInv, AmountsInRange
  <1>. QED  BY <1>6, <1>7 DEF BooksInv, NothingBeforeInit, LiabilityIsOpenCampaigns

LEMMA BooksStep == BooksInv /\ [OpenNext]_vars => BooksInv'
  <1>. SUFFICES ASSUME BooksInv, [OpenNext]_vars
               PROVE  BooksInv'
    OBVIOUS
  <1>0. TypeOK /\ TypeOK'
    BY TypeStep DEF BooksInv
  <1>1. ASSUME NEW gov \in Authorities, NEW set \in Authorities, NEW service \in Treasuries,
               NEW nft \in Pools, NEW revenue \in Pools, NEW deployer \in Accounts,
               NEW bound \in SUBSET Pools,
               initialize(gov, set, service, nft, revenue, deployer, bound)
        PROVE  BooksInv'
    BY <1>0, <1>1, BooksFrame DEF initialize, BooksInv, NothingBeforeInit
  <1>2. ASSUME NEW c \in CampaignIds, NEW sponsor \in Sponsors, NEW amount \in Amounts,
               fund(c, sponsor, amount)
        PROVE  BooksInv'
    <2>1. /\ amount \in Nat /\ amount >= MINIMUM_CAMPAIGN_AMOUNT /\ amount <= MaxAmount
          /\ liability \in Nat
      BY <1>0, <1>2, AmountAssumption DEF fund, MINIMUM_CAMPAIGN_AMOUNT, TypeOK
    <2>2. /\ campaigns[c].status = "Absent"
          /\ campaigns'[c].amount = amount /\ campaigns'[c].status = "Funded"
          /\ \A d \in CampaignIds \ {c} : campaigns'[d] = campaigns[d]
          /\ liability' = liability + amount
          /\ initialized'
      BY <1>0, <1>2 DEF fund, TypeOK, initialized, roleVars
    <2>3. Cardinality(OwedUnits') = Cardinality(OwedUnits) + amount
      BY <2>1, <2>2, OwedOnOpen DEF Open
    <2>4. LiabilityIsOpenCampaigns'
      BY <2>2, <2>3 DEF BooksInv, LiabilityIsOpenCampaigns
    <2>5. AmountsInRange'
      BY <2>1, <2>2 DEF BooksInv, AmountsInRange
    <2>. QED  BY <1>0, <2>2, <2>4, <2>5 DEF BooksInv, NothingBeforeInit
  <1>3. ASSUME NEW c \in CampaignIds, NEW creator \in Creators,
               NEW referrer \in Referrers \cup {None}, NEW terms \in Terms \cup {None},
               activate(c, creator, referrer, terms)
        PROVE  BooksInv'
    <2>1. campaigns[c] \in Campaigns /\ campaigns[c].status = "Funded"
      BY <1>0, <1>3 DEF TypeOK, activate, Activatable
    <2>2. campaigns'[c] = [campaigns[c] EXCEPT
             !.creator = creator, !.referrer = referrer, !.terms = terms,
             !.status = "Active", !.version = 1]
      BY <1>0, <1>3 DEF activate, TypeOK
    <2>3. campaigns'[c].amount = campaigns[c].amount /\ campaigns'[c].status = "Active"
      BY <2>1, <2>2 DEF Campaigns
    <2>4. /\ \A d \in CampaignIds \ {c} : campaigns'[d] = campaigns[d]
          /\ liability' = liability /\ initialized'
      BY <1>0, <1>3 DEF activate, TypeOK, initialized, roleVars
    <2>5. OwedUnits' = OwedUnits
      BY <2>1, <2>3, <2>4 DEF OwedUnits, Open
    <2>6. AmountsInRange'
      BY <2>1, <2>3, <2>4 DEF BooksInv, AmountsInRange
    <2>. QED  BY <1>0, <2>4, <2>5, <2>6 DEF BooksInv, NothingBeforeInit, LiabilityIsOpenCampaigns
  <1>4. ASSUME NEW c \in CampaignIds, NEW version \in Versions, complete(c, version)
        PROVE  BooksInv'
    BY <1>0, <1>4, BooksSettle DEF complete, Releasable, Open, initialized, roleVars
  <1>5. ASSUME NEW c \in CampaignIds, refund_expired(c)
        PROVE  BooksInv'
    BY <1>0, <1>5, BooksSettle DEF refund_expired, initialized, roleVars
  <1>6. CASE pause \/ unpause
    BY <1>0, <1>6, BooksFrame DEF pause, unpause, initialized, roleVars, bookVars
  <1>7. ASSUME NEW account \in Nominees,
               propose_governance(account) \/ propose_settlement(account)
        PROVE  BooksInv'
    BY <1>0, <1>7, BooksFrame DEF propose_governance, propose_settlement, initialized, bookVars
  <1>8. CASE accept_governance \/ accept_settlement
    BY <1>0, <1>8, BooksFrame DEF accept_governance, accept_settlement, initialized, bookVars
  <1>9. CASE Environment \/ UNCHANGED vars
    BY <1>0, <1>9, BooksFrame DEF Environment, vars, escrowVars, roleVars, bookVars, initialized
  <1>. QED
    BY <1>1, <1>2, <1>3, <1>4, <1>5, <1>6, <1>7, <1>8, <1>9 DEF OpenNext, EscrowNext, EscrowOnlyNext

\* The running total of fund, complete and refund_expired always equals what the
\* open campaigns are owed, for any number of campaigns of any amounts.
THEOREM LiabilityCorrect == OpenSpec => []LiabilityIsOpenCampaigns
  <1>1. OpenSpec => []BooksInv
    BY BooksInit, BooksStep, PTL DEF OpenSpec
  <1>2. BooksInv => LiabilityIsOpenCampaigns
    BY DEF BooksInv
  <1>. QED  BY <1>1, <1>2, PTL

\* The split of every campaign in storage is exact, for every amount between the
\* minimum and i128::MAX / DENOM.
THEOREM SplitCorrect == OpenSpec => []SplitIsExact
  <1>1. OpenSpec => []BooksInv
    BY BooksInit, BooksStep, PTL DEF OpenSpec
  <1>2. BooksInv => SplitIsExact
    <2>. SUFFICES ASSUME BooksInv, NEW c \in CampaignIds, campaigns[c].status # "Absent"
                 PROVE  /\ \A leg \in {CreatorLeg(c), ServiceLeg(c), NftLeg(c),
                                        RevenueLeg(c), ReferrerLeg(c)} : leg > 0
                        /\ CreatorLeg(c) + ServiceLeg(c) + NftLeg(c) + RevenueLeg(c)
                              + ReferrerLeg(c) = campaigns[c].amount
                        /\ campaigns[c].amount * SERVICE <= I128Max
                        /\ DENOM * CreatorLeg(c) >= 8200 * campaigns[c].amount
      BY DEF SplitIsExact
    <2>1. campaigns[c].amount \in Nat /\ campaigns[c].amount >= 100 /\ campaigns[c].amount <= MaxAmount
      BY DEF BooksInv, TypeOK, Campaigns, AmountsInRange, MINIMUM_CAMPAIGN_AMOUNT
    <2>2. campaigns[c].amount * SERVICE <= I128Max
      BY <2>1, MaxAmountType, AmountAssumption DEF SERVICE, DENOM
    <2>. QED
      BY <2>1, <2>2, SplitLemma
         DEF CreatorLeg, ServiceLeg, NftLeg, RevenueLeg, ReferrerLeg, Share,
             DENOM, SERVICE, NFT_POOL, REVENUE, REFERRER
  <1>. QED  BY <1>1, <1>2, PTL

(***************************************************************************)
(* Solvency.                                                               *)
(***************************************************************************)

LEMMA SolvencyStep == BooksInv /\ Solvency /\ [OpenNext]_vars => Solvency'
  <1>. SUFFICES ASSUME BooksInv, Solvency, [OpenNext]_vars
               PROVE  Solvency'
    OBVIOUS
  <1>0. TypeOK /\ Solvency /\ NothingBeforeInit
    BY DEF BooksInv
  <1>a. /\ Escrow \in Holders /\ authorized \subseteq Holders /\ balance \in [Holders -> Nat]
        /\ clawed \in [Holders -> Nat] /\ liability \in Nat
        /\ \A c \in CampaignIds : campaigns[c].amount \in Nat
    BY <1>0, EscrowAssumption DEF Holders, TypeOK, LedgerTypeOK, Campaigns
  <1>1. ASSUME NEW gov \in Authorities, NEW set \in Authorities, NEW service \in Treasuries,
               NEW nft \in Pools, NEW revenue \in Pools, NEW deployer \in Accounts,
               NEW bound \in SUBSET Pools,
               initialize(gov, set, service, nft, revenue, deployer, bound)
        PROVE  Solvency'
    BY <1>0, <1>1 DEF initialize, ledgerVars, NothingBeforeInit, Solvency
  <1>2. ASSUME NEW c \in CampaignIds, NEW sponsor \in Sponsors, NEW amount \in Amounts,
               fund(c, sponsor, amount)
        PROVE  Solvency'
    <2>1. amount \in Int /\ sponsor # Escrow
      BY EscrowAssumption, AddressAssumption, AmountAssumption
    <2>2. balance'[Escrow] = balance[Escrow] + amount
      BY <1>2, <1>a, <2>1, TransferLemma DEF fund, Deposit
    <2>. QED  BY <1>0, <1>2, <1>a, <2>1, <2>2 DEF fund, Solvency
  <1>3. ASSUME NEW c \in CampaignIds, NEW creator \in Creators,
               NEW referrer \in Referrers \cup {None}, NEW terms \in Terms \cup {None},
               activate(c, creator, referrer, terms)
        PROVE  Solvency'
    BY <1>0, <1>3 DEF activate, ledgerVars, Solvency
  <1>4. ASSUME NEW c \in CampaignIds, NEW version \in Versions, complete(c, version)
        PROVE  Solvency'
    <2>1. /\ balance' \in [Holders -> Nat]
          /\ balance'[Escrow] >= balance[Escrow] - campaigns[c].amount
      BY <1>0, <1>4, PayoutLemma DEF complete
    <2>2. liability' = liability - campaigns[c].amount /\ clawed' = clawed
      BY <1>4 DEF complete, SettleBooks
    <2>. QED  BY <1>0, <1>a, <2>1, <2>2 DEF Solvency
  <1>5. ASSUME NEW c \in CampaignIds, refund_expired(c)
        PROVE  Solvency'
    <2>1. /\ balance' \in [Holders -> Nat]
          /\ balance'[Escrow] >= balance[Escrow] - campaigns[c].amount
      BY <1>5, <1>a, PaymentLemma DEF refund_expired
    <2>2. liability' = liability - campaigns[c].amount /\ clawed' = clawed
      BY <1>5 DEF refund_expired, SettleBooks
    <2>. QED  BY <1>0, <1>a, <2>1, <2>2 DEF Solvency
  <1>6. CASE UNCHANGED <<ledgerVars, liability>>
    BY <1>0, <1>6 DEF ledgerVars, Solvency
  <1>7. CASE pause \/ unpause \/ accept_governance \/ accept_settlement
    BY <1>6, <1>7 DEF pause, unpause, accept_governance, accept_settlement, bookVars
  <1>8. ASSUME NEW account \in Nominees,
               propose_governance(account) \/ propose_settlement(account)
        PROVE  Solvency'
    BY <1>6, <1>8 DEF propose_governance, propose_settlement, bookVars
  <1>9. CASE Environment
    <2>1. /\ balance' \in [Holders -> Nat] /\ clawed' \in [Holders -> Nat] /\ liability' = liability
          /\ balance[Escrow] + clawed[Escrow] <= balance'[Escrow] + clawed'[Escrow]
      BY <1>9 DEF Environment, LedgerTypeOK, escrowVars, bookVars
    <2>. QED  BY <1>0, <1>a, <2>1 DEF Solvency
  <1>10. CASE UNCHANGED vars
    BY <1>6, <1>10 DEF vars, escrowVars, bookVars
  <1>. QED
    BY <1>1, <1>2, <1>3, <1>4, <1>5, <1>7, <1>8, <1>9, <1>10 DEF OpenNext, EscrowNext, EscrowOnlyNext

\* Whatever happens, the escrow's balance covers what it owes, up to what the
\* issuer has clawed back from it.
THEOREM SolvencyCorrect == OpenSpec => []Solvency
  <1>1. Init => Solvency
    <2>. SUFFICES ASSUME Init
                 PROVE  Solvency
      OBVIOUS
    <2>1. balance \in [Holders -> Nat] /\ clawed = [h \in Holders |-> 0] /\ liability = 0
      BY AddressAssumption DEF Init, LedgerInit, EscrowInit
    <2>2. Escrow \in Holders
      BY EscrowAssumption DEF Holders
    <2>. QED  BY <2>1, <2>2 DEF Solvency
  <1>. QED  BY <1>1, SolvencyStep, BooksInit, BooksStep, PTL DEF OpenSpec

(***************************************************************************)
(* Roles, replays and commitments.                                         *)
(***************************************************************************)

\* By whatever order of proposals and acceptances, the governance is an address
\* that signs, and the deployer authorized the initialization.
THEOREM GovernanceCorrect == OpenSpec => []GovernanceCanSign
  <1>1. Init => GovernanceCanSign
    BY DEF Init, EscrowInit, GovernanceCanSign, initialized
  <1>2. GovernanceCanSign /\ [OpenNext]_vars => GovernanceCanSign'
    <2>. SUFFICES ASSUME GovernanceCanSign, [OpenNext]_vars
                 PROVE  GovernanceCanSign'
      OBVIOUS
    <2>. USE DEF GovernanceCanSign, initialized
    <2>1. ASSUME NEW gov, NEW set, NEW service, NEW nft, NEW revenue, NEW deployer, NEW bound,
                 initialize(gov, set, service, nft, revenue, deployer, bound)
          PROVE  GovernanceCanSign'
      BY <2>1 DEF initialize, require_auth, ledgerVars
    <2>2. ASSUME accept_governance
          PROVE  GovernanceCanSign'
      BY <2>2 DEF accept_governance, require_auth, ledgerVars
    <2>3. ASSUME UNCHANGED <<governance, signing>>
          PROVE  GovernanceCanSign'
      BY <2>3
    <2>4. ASSUME NEW c \in CampaignIds, NEW sponsor, NEW amount, fund(c, sponsor, amount)
          PROVE  UNCHANGED <<governance, signing>>
      BY <2>4 DEF fund, roleVars
    <2>5. ASSUME NEW c \in CampaignIds, NEW creator, NEW referrer, NEW terms,
                 activate(c, creator, referrer, terms)
          PROVE  UNCHANGED <<governance, signing>>
      BY <2>5 DEF activate, roleVars, ledgerVars
    <2>6. ASSUME NEW c \in CampaignIds, NEW version, complete(c, version)
          PROVE  UNCHANGED <<governance, signing>>
      BY <2>6 DEF complete, roleVars
    <2>7. ASSUME NEW c \in CampaignIds, refund_expired(c)
          PROVE  UNCHANGED <<governance, signing>>
      BY <2>7 DEF refund_expired, roleVars
    <2>8. ASSUME pause \/ unpause \/ accept_settlement
          PROVE  UNCHANGED <<governance, signing>>
      BY <2>8 DEF pause, unpause, accept_settlement, roleVars, ledgerVars
    <2>9. ASSUME NEW account, propose_governance(account) \/ propose_settlement(account)
          PROVE  UNCHANGED <<governance, signing>>
      BY <2>9 DEF propose_governance, propose_settlement, ledgerVars
    <2>10. ASSUME Environment \/ UNCHANGED vars
           PROVE  UNCHANGED <<governance, signing>>
      BY <2>10 DEF Environment, vars, escrowVars, roleVars, ledgerVars
    <2>. QED
      BY <2>1, <2>2, <2>3, <2>4, <2>5, <2>6, <2>7, <2>8, <2>9, <2>10
      DEF OpenNext, EscrowNext, EscrowOnlyNext
  <1>. QED  BY <1>1, <1>2, PTL DEF OpenSpec

\* An activated campaign carries version 1.
ActiveIsVersionOne ==
    \A c \in CampaignIds : campaigns[c].status = "Active" => campaigns[c].version = 1

ReplayInv == TypeOK /\ ActiveIsVersionOne /\ ConsumedIffCompleted

\* Operations that change neither the campaigns nor the markers.
LEMMA ReplayFrame ==
    ASSUME ReplayInv, TypeOK', UNCHANGED <<campaigns, consumed>>
    PROVE  ReplayInv'
  BY DEF ReplayInv, ActiveIsVersionOne, ConsumedIffCompleted

\* The markers of a step that changes campaign c, if c is completed neither
\* before nor after it.
LEMMA ReplayUntouched ==
    ASSUME ReplayInv, TypeOK', NEW c \in CampaignIds, UNCHANGED consumed,
           campaigns[c].status # "Completed", campaigns'[c].status # "Completed",
           campaigns'[c].status = "Active" => campaigns'[c].version = 1,
           \A d \in CampaignIds \ {c} : campaigns'[d] = campaigns[d]
    PROVE  ReplayInv'
  <1>1. ActiveIsVersionOne'
    BY DEF ReplayInv, ActiveIsVersionOne
  <1>2. {d \in CampaignIds : campaigns'[d].status = "Completed"}
          = {d \in CampaignIds : campaigns[d].status = "Completed"}
    OBVIOUS
  <1>3. ConsumedIffCompleted'
    BY <1>2 DEF ReplayInv, ConsumedIffCompleted
  <1>. QED  BY <1>1, <1>3 DEF ReplayInv

\* complete adds the one marker of the campaign it completes.
LEMMA ReplayComplete ==
    ASSUME ReplayInv, TypeOK', NEW c \in CampaignIds, NEW version, complete(c, version)
    PROVE  ReplayInv'
  <1>0. campaigns \in [CampaignIds -> Campaigns]
    BY DEF ReplayInv, TypeOK
  <1>1. /\ campaigns' = [campaigns EXCEPT ![c].status = "Completed"]
        /\ consumed' = consumed \cup {<<c, version>>}
        /\ campaigns[c].status = "Active" /\ version = campaigns[c].version
    BY DEF complete, SettleBooks, Releasable
  <1>2. version = 1
    BY <1>1 DEF ReplayInv, ActiveIsVersionOne
  <1>3. /\ campaigns'[c].status = "Completed"
        /\ \A d \in CampaignIds \ {c} : campaigns'[d] = campaigns[d]
    BY <1>0, <1>1 DEF Campaigns
  <1>4. ActiveIsVersionOne'
    BY <1>3 DEF ReplayInv, ActiveIsVersionOne
  <1>5. {d \in CampaignIds : campaigns'[d].status = "Completed"}
          = {d \in CampaignIds : campaigns[d].status = "Completed"} \cup {c}
    BY <1>3
  <1>6. consumed = {<<d, 1>> : d \in {e \in CampaignIds : campaigns[e].status = "Completed"}}
    BY DEF ReplayInv, ConsumedIffCompleted
  <1>7. consumed' = {<<d, 1>> : d \in {e \in CampaignIds : campaigns'[e].status = "Completed"}}
    BY <1>1, <1>2, <1>5, <1>6
  <1>8. ConsumedIffCompleted'
    BY <1>7 DEF ConsumedIffCompleted
  <1>. QED  BY <1>4, <1>8 DEF ReplayInv

LEMMA ReplayStep == ReplayInv /\ [OpenNext]_vars => ReplayInv'
  <1>. SUFFICES ASSUME ReplayInv, [OpenNext]_vars
               PROVE  ReplayInv'
    OBVIOUS
  <1>0. TypeOK'
    BY TypeStep DEF ReplayInv
  <1>a. campaigns \in [CampaignIds -> Campaigns]
    BY DEF ReplayInv, TypeOK
  <1>1. ASSUME UNCHANGED <<campaigns, consumed>>
        PROVE  ReplayInv'
    BY <1>0, <1>1, ReplayFrame
  <1>2. ASSUME NEW c \in CampaignIds, NEW sponsor, NEW amount, fund(c, sponsor, amount)
        PROVE  ReplayInv'
    <2>1. /\ consumed' = consumed
          /\ campaigns[c].status # "Completed"
          /\ campaigns'[c].status = "Funded"
          /\ \A d \in CampaignIds \ {c} : campaigns'[d] = campaigns[d]
      BY <1>2, <1>a DEF fund
    <2>. QED  BY <1>0, <2>1, ReplayUntouched
  <1>3. ASSUME NEW c \in CampaignIds, NEW creator, NEW referrer, NEW terms,
               activate(c, creator, referrer, terms)
        PROVE  ReplayInv'
    <2>1. /\ consumed' = consumed
          /\ campaigns[c].status = "Funded"
          /\ campaigns'[c].status = "Active" /\ campaigns'[c].version = 1
          /\ \A d \in CampaignIds \ {c} : campaigns'[d] = campaigns[d]
      BY <1>3, <1>a DEF activate, Activatable, Campaigns
    <2>. QED  BY <1>0, <2>1, ReplayUntouched
  <1>4. ASSUME NEW c \in CampaignIds, refund_expired(c)
        PROVE  ReplayInv'
    <2>1. /\ consumed' = consumed
          /\ campaigns[c].status # "Completed"
          /\ campaigns'[c].status = "Refunded"
          /\ \A d \in CampaignIds \ {c} : campaigns'[d] = campaigns[d]
      BY <1>4, <1>a DEF refund_expired, SettleBooks, Open, Campaigns
    <2>. QED  BY <1>0, <2>1, ReplayUntouched
  <1>5. ASSUME NEW c \in CampaignIds, NEW version, complete(c, version)
        PROVE  ReplayInv'
    BY <1>0, <1>5, ReplayComplete
  <1>6. ASSUME NEW gov, NEW set, NEW service, NEW nft, NEW revenue, NEW deployer, NEW bound,
               initialize(gov, set, service, nft, revenue, deployer, bound)
        PROVE  UNCHANGED <<campaigns, consumed>>
    BY <1>6 DEF initialize
  <1>7. ASSUME pause \/ unpause \/ accept_governance \/ accept_settlement
        PROVE  UNCHANGED <<campaigns, consumed>>
    BY <1>7 DEF pause, unpause, accept_governance, accept_settlement, bookVars
  <1>8. ASSUME NEW account, propose_governance(account) \/ propose_settlement(account)
        PROVE  UNCHANGED <<campaigns, consumed>>
    BY <1>8 DEF propose_governance, propose_settlement, bookVars
  <1>9. ASSUME Environment \/ UNCHANGED vars
        PROVE  UNCHANGED <<campaigns, consumed>>
    BY <1>9 DEF Environment, vars, escrowVars, bookVars
  <1>. QED
    BY <1>1, <1>2, <1>3, <1>4, <1>5, <1>6, <1>7, <1>8, <1>9
    DEF OpenNext, EscrowNext, EscrowOnlyNext

\* An operation is consumed exactly when its campaign was completed: no
\* sequence of calls completes a campaign twice or burns a marker for nothing.
THEOREM ReplayCorrect == OpenSpec => []ConsumedIffCompleted
  <1>1. Init => ReplayInv
    <2>. SUFFICES ASSUME Init
                 PROVE  ReplayInv
      OBVIOUS
    <2>1. \A c \in CampaignIds : campaigns[c].status = "Absent"
      BY DEF Init, EscrowInit, NoCampaign
    <2>2. consumed = {}
      BY DEF Init, EscrowInit
    <2>3. {c \in CampaignIds : campaigns[c].status = "Completed"} = {}
      BY <2>1
    <2>. QED  BY TypeInit, <2>1, <2>2, <2>3 DEF ReplayInv, ActiveIsVersionOne, ConsumedIffCompleted
  <1>2. ReplayInv => ConsumedIffCompleted
    BY DEF ReplayInv
  <1>. QED  BY <1>1, <1>2, ReplayStep, PTL DEF OpenSpec

\* A step of the escrow never takes back what a sponsor committed.
THEOREM CommitmentsCorrect == OpenSpec => CommitmentsAreFinal
  <1>1. TypeOK /\ [OpenNext]_vars => [CommitmentStep]_vars
    <2>. SUFFICES ASSUME TypeOK, OpenNext
                 PROVE  CommitmentStep \/ UNCHANGED vars
      OBVIOUS
    <2>a. campaigns \in [CampaignIds -> Campaigns]
      BY DEF TypeOK
    <2>1. ASSUME UNCHANGED campaigns
          PROVE  CommitmentStep
      BY <2>1 DEF CommitmentStep
    <2>2. ASSUME NEW c \in CampaignIds, NEW sponsor, NEW amount, fund(c, sponsor, amount)
          PROVE  CommitmentStep
      <3>1. /\ campaigns[c].status = "Absent"
            /\ \A d \in CampaignIds \ {c} : campaigns'[d] = campaigns[d]
        BY <2>2, <2>a DEF fund
      <3>. QED  BY <3>1 DEF CommitmentStep, Settled
    <2>3. ASSUME NEW c \in CampaignIds, NEW creator, NEW referrer, NEW terms,
                 activate(c, creator, referrer, terms)
          PROVE  CommitmentStep
      <3>1. /\ campaigns[c].status = "Funded" /\ campaigns'[c].status = "Active"
            /\ campaigns'[c].sponsor = campaigns[c].sponsor
            /\ campaigns'[c].amount = campaigns[c].amount
            /\ campaigns'[c].expires_at = campaigns[c].expires_at
            /\ \A d \in CampaignIds \ {c} : campaigns'[d] = campaigns[d]
        BY <2>3, <2>a DEF activate, Activatable, Campaigns
      <3>. QED  BY <3>1 DEF CommitmentStep, Settled
    <2>4. ASSUME NEW c \in CampaignIds, NEW outcome \in {"Completed", "Refunded"},
                 Open(c), campaigns' = [campaigns EXCEPT ![c].status = outcome]
          PROVE  CommitmentStep
      <3>1. /\ campaigns'[c].status = outcome
            /\ campaigns'[c].sponsor = campaigns[c].sponsor
            /\ campaigns'[c].amount = campaigns[c].amount
            /\ campaigns'[c].expires_at = campaigns[c].expires_at
            /\ campaigns'[c].creator = campaigns[c].creator
            /\ campaigns'[c].referrer = campaigns[c].referrer
            /\ campaigns'[c].terms = campaigns[c].terms
            /\ campaigns'[c].version = campaigns[c].version
            /\ \A d \in CampaignIds \ {c} : campaigns'[d] = campaigns[d]
        BY <2>4, <2>a DEF Campaigns
      <3>. QED  BY <3>1, <2>4 DEF CommitmentStep, Settled, Open
    <2>5. ASSUME NEW c \in CampaignIds, NEW version, complete(c, version)
          PROVE  CommitmentStep
      BY <2>4, <2>5 DEF complete, SettleBooks, Releasable, Open
    <2>6. ASSUME NEW c \in CampaignIds, refund_expired(c)
          PROVE  CommitmentStep
      BY <2>4, <2>6 DEF refund_expired, SettleBooks
    <2>7. ASSUME NEW gov, NEW set, NEW service, NEW nft, NEW revenue, NEW deployer, NEW bound,
                 initialize(gov, set, service, nft, revenue, deployer, bound)
          PROVE  UNCHANGED campaigns
      BY <2>7 DEF initialize
    <2>8. ASSUME pause \/ unpause \/ accept_governance \/ accept_settlement
          PROVE  UNCHANGED campaigns
      BY <2>8 DEF pause, unpause, accept_governance, accept_settlement, bookVars
    <2>9. ASSUME NEW account, propose_governance(account) \/ propose_settlement(account)
          PROVE  UNCHANGED campaigns
      BY <2>9 DEF propose_governance, propose_settlement, bookVars
    <2>10. ASSUME Environment
           PROVE  UNCHANGED campaigns
      BY <2>10 DEF Environment, escrowVars, bookVars
    <2>. QED
      BY <2>1, <2>2, <2>3, <2>5, <2>6, <2>7, <2>8, <2>9, <2>10
      DEF OpenNext, EscrowNext, EscrowOnlyNext
  <1>. QED  BY <1>1, TypeInit, TypeStep, PTL DEF OpenSpec, CommitmentsAreFinal

(***************************************************************************)
(* Outflow.                                                                *)
(***************************************************************************)

\* The sponsor of every open campaign is one of the accounts that sign.
SponsorsSign == \A c \in CampaignIds : Open(c) => campaigns[c].sponsor \in signing

LEMMA SponsorsStep == TypeOK /\ SponsorsSign /\ [OpenNext]_vars => SponsorsSign'
  <1>. SUFFICES ASSUME TypeOK, SponsorsSign, [OpenNext]_vars
               PROVE  SponsorsSign'
    OBVIOUS
  <1>a. campaigns \in [CampaignIds -> Campaigns]
    BY DEF TypeOK
  <1>1. ASSUME UNCHANGED <<campaigns, signing>>
        PROVE  SponsorsSign'
    BY <1>1 DEF SponsorsSign, Open
  <1>2. ASSUME NEW c \in CampaignIds, signing' = signing,
               \A d \in CampaignIds \ {c} : campaigns'[d] = campaigns[d],
               campaigns'[c].status \in {"Funded", "Active"} => campaigns'[c].sponsor \in signing
        PROVE  SponsorsSign'
    BY <1>2 DEF SponsorsSign, Open
  <1>3. ASSUME NEW c \in CampaignIds, NEW sponsor, NEW amount, fund(c, sponsor, amount)
        PROVE  SponsorsSign'
    <2>1. /\ signing' = signing /\ sponsor \in signing
          /\ campaigns'[c].sponsor = sponsor
          /\ \A d \in CampaignIds \ {c} : campaigns'[d] = campaigns[d]
      BY <1>3, <1>a DEF fund, Deposit, require_auth
    <2>. QED  BY <1>2, <2>1
  <1>4. ASSUME NEW c \in CampaignIds, NEW creator, NEW referrer, NEW terms,
               activate(c, creator, referrer, terms)
        PROVE  SponsorsSign'
    <2>1. /\ signing' = signing /\ campaigns[c].sponsor \in signing
          /\ campaigns'[c].sponsor = campaigns[c].sponsor
          /\ \A d \in CampaignIds \ {c} : campaigns'[d] = campaigns[d]
      BY <1>4, <1>a DEF activate, require_auth, ledgerVars, Campaigns
    <2>. QED  BY <1>2, <2>1
  <1>5. ASSUME NEW c \in CampaignIds, NEW outcome \in {"Completed", "Refunded"},
               signing' = signing, campaigns' = [campaigns EXCEPT ![c].status = outcome]
        PROVE  SponsorsSign'
    <2>1. /\ campaigns'[c].status = outcome
          /\ \A d \in CampaignIds \ {c} : campaigns'[d] = campaigns[d]
      BY <1>5, <1>a DEF Campaigns
    <2>. QED  BY <1>2, <1>5, <2>1
  <1>6. ASSUME NEW c \in CampaignIds, NEW version, complete(c, version)
        PROVE  SponsorsSign'
    BY <1>5, <1>6 DEF complete, SettleBooks
  <1>7. ASSUME NEW c \in CampaignIds, refund_expired(c)
        PROVE  SponsorsSign'
    BY <1>5, <1>7 DEF refund_expired, SettleBooks
  <1>8. ASSUME NEW gov, NEW set, NEW service, NEW nft, NEW revenue, NEW deployer, NEW bound,
               initialize(gov, set, service, nft, revenue, deployer, bound)
        PROVE  UNCHANGED <<campaigns, signing>>
    BY <1>8 DEF initialize, ledgerVars
  <1>9. ASSUME pause \/ unpause \/ accept_governance \/ accept_settlement
        PROVE  UNCHANGED <<campaigns, signing>>
    BY <1>9 DEF pause, unpause, accept_governance, accept_settlement, bookVars, ledgerVars
  <1>10. ASSUME NEW account, propose_governance(account) \/ propose_settlement(account)
         PROVE  UNCHANGED <<campaigns, signing>>
    BY <1>10 DEF propose_governance, propose_settlement, bookVars, ledgerVars
  <1>11. ASSUME Environment \/ UNCHANGED vars
         PROVE  UNCHANGED <<campaigns, signing>>
    BY <1>11 DEF Environment, vars, escrowVars, bookVars, ledgerVars
  <1>. QED
    BY <1>1, <1>3, <1>4, <1>6, <1>7, <1>8, <1>9, <1>10, <1>11
    DEF OpenNext, EscrowNext, EscrowOnlyNext

LEMMA OutflowOnce == TypeOK /\ SponsorsSign /\ [OpenNext]_vars => [OutflowStep]_vars
  <1>. SUFFICES ASSUME TypeOK, SponsorsSign, OpenNext
               PROVE  OutflowStep \/ UNCHANGED vars
    OBVIOUS
  <1>a. /\ Escrow \in Holders /\ Escrow \notin Accounts /\ authorized \subseteq Holders
        /\ balance \in [Holders -> Nat] /\ clawed \in [Holders -> Nat]
        /\ campaigns \in [CampaignIds -> Campaigns] /\ signing \subseteq Accounts
        /\ \A c \in CampaignIds : campaigns[c].amount \in Nat
    BY EscrowAssumption, AddressAssumption DEF Holders, TypeOK, LedgerTypeOK, Campaigns
  <1>1. ASSUME balance' = balance
        PROVE  OutflowStep
    BY <1>1, <1>a DEF OutflowStep
  <1>2. ASSUME NEW c \in CampaignIds, NEW sponsor \in Sponsors, NEW amount \in Amounts,
               fund(c, sponsor, amount)
        PROVE  OutflowStep
    <2>1. amount \in Int /\ sponsor # Escrow
      BY <1>a, EscrowAssumption, AmountAssumption
    <2>2. balance'[Escrow] = balance[Escrow] + amount /\ amount \in Nat
      BY <1>2, <1>a, <2>1, TransferLemma DEF fund, Deposit
    <2>3. ~(balance'[Escrow] < balance[Escrow])
      BY <1>a, <2>2
    <2>. QED  BY <2>3 DEF OutflowStep
  <1>3. ASSUME NEW c \in CampaignIds, NEW version \in Versions, complete(c, version)
        PROVE  OutflowStep
    <2>1. /\ balance' \in [Holders -> Nat]
          /\ balance'[Escrow] >= balance[Escrow] - campaigns[c].amount
      BY <1>3, PayoutLemma DEF complete
    <2>2. balance[Escrow] - balance'[Escrow] <= campaigns[c].amount
      BY <1>a, <2>1
    <2>3. /\ Open(c) /\ ~paused /\ settlement \in signing
          /\ campaigns' = [campaigns EXCEPT ![c].status = "Completed"]
          /\ ~(now >= campaigns[c].expires_at)
      BY <1>3 DEF complete, Releasable, SettleBooks, Open, Expired, require_auth
    <2>4. now < campaigns[c].expires_at
      BY <1>a, <2>3, HostAssumption DEF TypeOK, LedgerTypeOK, Campaigns
    <2>5. /\ campaigns'[c].status = "Completed"
          /\ \A d \in CampaignIds \ {c} : campaigns'[d] = campaigns[d]
      BY <1>a, <2>3 DEF Campaigns
    <2>6. {settlement, campaigns[c].sponsor} \subseteq signing
      BY <2>3 DEF SponsorsSign
    <2>. QED  BY <2>2, <2>3, <2>4, <2>5, <2>6 DEF OutflowStep
  <1>4. ASSUME NEW c \in CampaignIds, refund_expired(c)
        PROVE  OutflowStep
    <2>1. /\ Open(c) /\ now >= campaigns[c].expires_at
          /\ campaigns' = [campaigns EXCEPT ![c].status = "Refunded"]
          /\ CanTransfer(balance, Escrow, campaigns[c].sponsor, campaigns[c].amount)
          /\ balance' = Transfer(balance, Escrow, campaigns[c].sponsor, campaigns[c].amount)
      BY <1>4 DEF refund_expired, SettleBooks, Expired
    <2>2. campaigns[c].sponsor # Escrow
      BY <1>a, <2>1 DEF SponsorsSign
    <2>3. /\ balance'[Escrow] = balance[Escrow] - campaigns[c].amount
          /\ balance'[campaigns[c].sponsor] = balance[campaigns[c].sponsor] + campaigns[c].amount
      BY <1>a, <2>1, <2>2, TransferLemma
    <2>4. balance[Escrow] - balance'[Escrow] = campaigns[c].amount
      BY <1>a, <2>3
    <2>5. /\ campaigns'[c].status = "Refunded"
          /\ \A d \in CampaignIds \ {c} : campaigns'[d] = campaigns[d]
      BY <1>a, <2>1 DEF Campaigns
    <2>. QED  BY <2>1, <2>3, <2>4, <2>5 DEF OutflowStep
  <1>5. ASSUME Environment
        PROVE  OutflowStep
    <2>1. /\ balance' \in [Holders -> Nat] /\ clawed' \in [Holders -> Nat]
          /\ balance[Escrow] + clawed[Escrow] <= balance'[Escrow] + clawed'[Escrow]
      BY <1>5 DEF Environment, LedgerTypeOK
    <2>2. balance'[Escrow] < balance[Escrow] => clawed'[Escrow] > clawed[Escrow]
      BY <1>a, <2>1
    <2>. QED  BY <2>2 DEF OutflowStep
  <1>6. ASSUME NEW gov, NEW set, NEW service, NEW nft, NEW revenue, NEW deployer, NEW bound,
               initialize(gov, set, service, nft, revenue, deployer, bound)
        PROVE  balance' = balance
    BY <1>6 DEF initialize, ledgerVars
  <1>7. ASSUME NEW c \in CampaignIds, NEW creator, NEW referrer, NEW terms,
               activate(c, creator, referrer, terms)
        PROVE  balance' = balance
    BY <1>7 DEF activate, ledgerVars
  <1>8. ASSUME pause \/ unpause \/ accept_governance \/ accept_settlement
        PROVE  balance' = balance
    BY <1>8 DEF pause, unpause, accept_governance, accept_settlement, ledgerVars
  <1>9. ASSUME NEW account, propose_governance(account) \/ propose_settlement(account)
        PROVE  balance' = balance
    BY <1>9 DEF propose_governance, propose_settlement, ledgerVars
  <1>. QED
    BY <1>1, <1>2, <1>3, <1>4, <1>5, <1>6, <1>7, <1>8, <1>9
    DEF OpenNext, EscrowNext, EscrowOnlyNext

\* In any context, tokens leave the escrow only by a clawback or by settling one
\* open campaign for its amount, refunded from its expiry on or released before.
THEOREM OutflowCorrect == OpenSpec => OutflowIsOneSettlement
  <1>1. Init => SponsorsSign
    BY DEF Init, EscrowInit, SponsorsSign, Open, NoCampaign
  <1>. QED
    BY <1>1, TypeInit, TypeStep, SponsorsStep, OutflowOnce, PTL DEF OpenSpec, OutflowIsOneSettlement

(***************************************************************************)
(* The closed system of the model-checking runs, with its own ledger steps, *)
(* is one of the contexts of OpenSpec.                                     *)
(***************************************************************************)

\* The steps of the environment keep the ledger's types.
LEMMA LedgerTypeStep ==
    ASSUME LedgerTypeOK, LedgerNext
    PROVE  LedgerTypeOK'
  <1>1. CASE Tick
    BY <1>1, HostAssumption DEF Tick, CloseLedger, LedgerTypeOK
  <1>2. ASSUME NEW from \in Payers, NEW to \in Payees, NEW a \in PaymentAmounts,
               Pay(from, to, a)
        PROVE  LedgerTypeOK'
    <2>1. a \in Int /\ authorized \subseteq Holders /\ balance \in [Holders -> Nat]
      BY BoundAssumption DEF LedgerTypeOK
    <2>2. Transfer(balance, from, to, a) \in [Holders -> Nat]
      BY <1>2, <2>1, TransferLemma DEF Pay
    <2>. QED  BY <1>2, <2>2 DEF Pay, LedgerTypeOK
  <1>3. ASSUME NEW h \in Holders, NEW a \in PaymentAmounts, Clawback(h, a)
        PROVE  LedgerTypeOK'
    BY <1>3, BoundAssumption DEF Clawback, SpendBalance, LedgerTypeOK
  <1>4. ASSUME NEW h \in Holders, NEW authorize \in BOOLEAN, SetAuthorized(h, authorize)
        PROVE  LedgerTypeOK'
    BY <1>4 DEF SetAuthorized, LedgerTypeOK
  <1>. QED  BY <1>1, <1>2, <1>3, <1>4 DEF LedgerNext

\* No step of the ledger takes tokens out of the escrow but a clawback.
LEMMA LedgerIsEnvironment ==
    ASSUME LedgerTypeOK, LedgerNext, UNCHANGED escrowVars
    PROVE  Environment
  <1>0. LedgerTypeOK'
    BY LedgerTypeStep
  <1>a. /\ Escrow \in Holders /\ Escrow \notin Accounts /\ authorized \subseteq Holders
        /\ balance \in [Holders -> Nat] /\ clawed \in [Holders -> Nat] /\ now \in Nat
        /\ balance' \in [Holders -> Nat] /\ clawed' \in [Holders -> Nat]
    BY <1>0, EscrowAssumption, AddressAssumption, HostAssumption DEF Holders, LedgerTypeOK
  <1>. DEFINE harmless == /\ signing' = signing
                          /\ now <= now'
                          /\ \A h \in Holders : clawed[h] <= clawed'[h]
                          /\ balance[Escrow] + clawed[Escrow] <= balance'[Escrow] + clawed'[Escrow]
  <1>1. ASSUME Tick
        PROVE  harmless
    BY <1>1, <1>a DEF Tick, CloseLedger
  <1>2. ASSUME NEW from \in Payers, NEW to \in Payees, NEW a \in PaymentAmounts,
               Pay(from, to, a)
        PROVE  /\ signing' = signing /\ now' = now /\ clawed' = clawed
               /\ balance[Escrow] <= balance'[Escrow]
    <2>1. a \in Int /\ from # Escrow
      BY <1>a, BoundAssumption, AddressAssumption
    <2>. QED  BY <1>2, <1>a, <2>1, TransferLemma DEF Pay
  <1>3. ASSUME NEW h \in Holders, NEW a \in PaymentAmounts, Clawback(h, a)
        PROVE  /\ signing' = signing /\ now' = now
               /\ \A g \in Holders : clawed[g] <= clawed'[g]
               /\ balance[Escrow] + clawed[Escrow] <= balance'[Escrow] + clawed'[Escrow]
    <2>1. a \in Nat
      BY BoundAssumption
    <2>2. /\ balance' = [balance EXCEPT ![h] = balance[h] - a]
          /\ clawed' = [clawed EXCEPT ![h] = clawed[h] + a]
      BY <1>3 DEF Clawback, SpendBalance
    <2>3. \A g \in Holders : clawed[g] <= clawed'[g]
      BY <1>a, <2>1, <2>2
    <2>4. balance[Escrow] + clawed[Escrow] <= balance'[Escrow] + clawed'[Escrow]
      BY <1>a, <2>1, <2>2
    <2>. QED  BY <1>3, <2>3, <2>4 DEF Clawback
  <1>4. ASSUME NEW h \in Holders, NEW authorize \in BOOLEAN, SetAuthorized(h, authorize)
        PROVE  /\ signing' = signing /\ now' = now /\ clawed' = clawed /\ balance' = balance
    BY <1>4 DEF SetAuthorized
  <1>5. harmless
    BY <1>1, <1>2, <1>3, <1>4, <1>a DEF LedgerNext
  <1>6. UNCHANGED <<escrowVars, signing>>
    BY <1>5
  <1>. QED  BY <1>0, <1>5, <1>6 DEF Environment

\* Every behaviour of the closed specification is one of the open one.
THEOREM ClosedIsOpen == Spec => OpenSpec
  <1>1. TypeOK /\ [Next]_vars => [OpenNext]_vars
    BY LedgerIsEnvironment DEF Next, OpenNext, TypeOK
  <1>2. TypeOK /\ [Next]_vars => TypeOK'
    BY <1>1, TypeStep
  <1>. QED  BY <1>1, <1>2, TypeInit, PTL DEF Spec, OpenSpec

\* With the closed ledger, where every transfer of an account is one it signs:
\* no operation of the escrow, in whatever order, spends the balance of an account
\* that signs nothing.
THEOREM SpendCorrect == Spec => OnlySignersSpend
  <1>1. TypeOK /\ [Next]_vars => [SpendStep]_vars
    <2>. SUFFICES ASSUME TypeOK, Next, NEW a \in Accounts \ signing
                 PROVE  balance'[a] < balance[a] => clawed'[a] > clawed[a]
      BY DEF SpendStep
    <2>a. /\ a \in Holders /\ a # Escrow /\ authorized \subseteq Holders
          /\ balance \in [Holders -> Nat] /\ clawed \in [Holders -> Nat]
          /\ \A c \in CampaignIds : campaigns[c].amount \in Nat
      BY EscrowAssumption, AddressAssumption DEF Holders, TypeOK, LedgerTypeOK, Campaigns
    <2>1. ASSUME balance' = balance
          PROVE  ~(balance'[a] < balance[a])
      BY <2>1, <2>a
    <2>2. ASSUME NEW from \in signing, NEW to, NEW m \in Int, CanTransfer(balance, from, to, m),
                 balance' = Transfer(balance, from, to, m)
          PROVE  ~(balance'[a] < balance[a])
      <3>1. a # from
        BY <2>2
      <3>2. CASE a = to
        BY <2>2, <2>a, <3>1, <3>2, TransferLemma
      <3>3. CASE a # to
        BY <2>2, <2>a, <3>1, <3>3, TransferLemma
      <3>. QED  BY <3>2, <3>3
    <2>3. ASSUME NEW c \in CampaignIds, NEW sponsor, NEW amount \in Amounts, fund(c, sponsor, amount)
          PROVE  ~(balance'[a] < balance[a])
      BY <2>2, <2>3, AmountAssumption DEF fund, Deposit, require_auth
    <2>4. ASSUME NEW c \in CampaignIds, NEW version, complete(c, version)
          PROVE  ~(balance'[a] < balance[a])
      <3>1. balance' \in [Holders -> Nat] /\ balance'[a] >= balance[a]
        BY <2>4, <2>a, PayoutLemma DEF complete
      <3>. QED  BY <2>a, <3>1
    <2>5. ASSUME NEW c \in CampaignIds, refund_expired(c)
          PROVE  ~(balance'[a] < balance[a])
      <3>1. balance' \in [Holders -> Nat] /\ balance'[a] >= balance[a]
        BY <2>5, <2>a, PaymentLemma DEF refund_expired
      <3>. QED  BY <2>a, <3>1
    <2>6. ASSUME NEW gov, NEW set, NEW service, NEW nft, NEW revenue, NEW deployer, NEW bound,
                 initialize(gov, set, service, nft, revenue, deployer, bound)
          PROVE  balance' = balance
      BY <2>6 DEF initialize, ledgerVars
    <2>7. ASSUME NEW c \in CampaignIds, NEW creator, NEW referrer, NEW terms,
                 activate(c, creator, referrer, terms)
          PROVE  balance' = balance
      BY <2>7 DEF activate, ledgerVars
    <2>8. ASSUME pause \/ unpause \/ accept_governance \/ accept_settlement
          PROVE  balance' = balance
      BY <2>8 DEF pause, unpause, accept_governance, accept_settlement, ledgerVars
    <2>9. ASSUME NEW account, propose_governance(account) \/ propose_settlement(account)
          PROVE  balance' = balance
      BY <2>9 DEF propose_governance, propose_settlement, ledgerVars
    <2>10. ASSUME NEW from, NEW to, NEW m \in PaymentAmounts, Pay(from, to, m)
           PROVE  ~(balance'[a] < balance[a])
      BY <2>2, <2>10, BoundAssumption DEF Pay, require_auth
    <2>11. ASSUME NEW h \in Holders, NEW m \in PaymentAmounts, Clawback(h, m)
           PROVE  balance'[a] < balance[a] => clawed'[a] > clawed[a]
      <3>1. m \in Nat
        BY BoundAssumption
      <3>2. /\ balance' = [balance EXCEPT ![h] = balance[h] - m]
            /\ clawed' = [clawed EXCEPT ![h] = clawed[h] + m]
        BY <2>11 DEF Clawback, SpendBalance
      <3>. QED  BY <2>a, <3>1, <3>2
    <2>12. ASSUME NEW h, NEW authorize, SetAuthorized(h, authorize) \/ Tick
           PROVE  balance' = balance
      BY <2>12 DEF SetAuthorized, Tick
    <2>13. CASE EscrowNext
      BY <2>1, <2>3, <2>4, <2>5, <2>6, <2>7, <2>8, <2>9, <2>13 DEF EscrowNext, EscrowOnlyNext
    <2>14. CASE LedgerNext
      BY <2>1, <2>10, <2>11, <2>12, <2>14 DEF LedgerNext
    <2>. QED  BY <2>13, <2>14 DEF Next
  <1>2. TypeOK /\ [Next]_vars => TypeOK'
    BY TypeStep, LedgerIsEnvironment DEF Next, OpenNext, TypeOK
  <1>. QED  BY <1>1, <1>2, TypeInit, PTL DEF Spec, OnlySignersSpend

\* The escrow with the token ledger alone: all invariants of the open
\* specification at once, for the specification that the runs check.
COROLLARY ClosedCorrect ==
    Spec => /\ [](TypeOK /\ LiabilityIsOpenCampaigns /\ Solvency /\ SplitIsExact)
            /\ [](ConsumedIffCompleted /\ GovernanceCanSign)
            /\ OutflowIsOneSettlement /\ CommitmentsAreFinal
  BY ClosedIsOpen, TypeCorrect, LiabilityCorrect, SolvencyCorrect, SplitCorrect, ReplayCorrect,
     GovernanceCorrect, OutflowCorrect, CommitmentsCorrect, PTL

----------------------------------------------------------------------------
(* The system.                                                             *)

(***************************************************************************)
(* The parameters of the two pools are as ContributorPool assumes them, and *)
(* the definitions of the ledger that each instance brings along are the    *)
(* same ones.                                                              *)
(***************************************************************************)

LEMMA PlacesLemma ==
    /\ PoolA \in Contracts /\ PoolB \in Contracts /\ PoolA # PoolB
    /\ PoolA \in Holders /\ PoolB \in Holders /\ Pools = {PoolA, PoolB}
    /\ Escrow \in Contracts /\ Escrow \in Holders /\ Escrow # PoolA /\ Escrow # PoolB
    /\ Escrow \notin Accounts /\ None \notin Holders
  BY DeploymentAssumption, EscrowAssumption, AddressAssumption DEF Holders

LEMMA SameLedger ==
    /\ A!Holders = Holders /\ B!Holders = Holders
    /\ A!ledgerVars = ledgerVars /\ B!ledgerVars = ledgerVars
    /\ A!LedgerTypeOK <=> LedgerTypeOK
    /\ B!LedgerTypeOK <=> LedgerTypeOK
    /\ A!LedgerTypeOK' <=> LedgerTypeOK'
    /\ B!LedgerTypeOK' <=> LedgerTypeOK'
    /\ \A S : (A!IsFiniteSet(S) <=> IsFiniteSet(S)) /\ (B!IsFiniteSet(S) <=> IsFiniteSet(S))
  <1>1. A!Holders = Holders /\ B!Holders = Holders
    BY DEF A!Holders, B!Holders, Holders
  <1>2. \A S : (A!IsFiniteSet(S) <=> IsFiniteSet(S)) /\ (B!IsFiniteSet(S) <=> IsFiniteSet(S))
    BY DEF A!IsFiniteSet, B!IsFiniteSet, IsFiniteSet
  <1>3. A!ledgerVars = ledgerVars /\ B!ledgerVars = ledgerVars
    BY DEF A!ledgerVars, B!ledgerVars, ledgerVars
  <1>. QED  BY <1>1, <1>2, <1>3 DEF A!LedgerTypeOK, B!LedgerTypeOK, LedgerTypeOK

LEMMA PoolAssumptions ==
    /\ A!PoolAssumption /\ A!AddressAssumption
    /\ B!PoolAssumption /\ B!AddressAssumption
    /\ A!BoundAssumption /\ A!HostAssumption
  BY PlacesLemma, SameLedger, DeploymentAssumption, EscrowAssumption, AmountAssumption,
     AddressAssumption, BoundAssumption, HostAssumption

LEMMA SpecsInit == SystemInit => A!PoolSpecInit /\ B!PoolSpecInit
  <1>1. LedgerInit => A!LedgerInit /\ B!LedgerInit
    BY SameLedger DEF LedgerInit, A!LedgerInit, B!LedgerInit, HostInit, A!HostInit, B!HostInit
  <1>. QED  BY <1>1 DEF SystemInit, Init, A!PoolSpecInit, B!PoolSpecInit

LEMMA PoolsInit == SystemInit => A!PoolInv /\ B!PoolInv
  <1>. SUFFICES ASSUME SystemInit
               PROVE  A!PoolInv /\ B!PoolInv
    OBVIOUS
  <1>1. A!PoolInv
    BY SpecsInit, PoolAssumptions, A!PoolInvInit
  <1>2. B!PoolInv
    BY SpecsInit, PoolAssumptions, B!PoolInvInit
  <1>. QED  BY <1>1, <1>2

(***************************************************************************)
(* Every contract is an environment that respects the balance of the others. *)
(***************************************************************************)

\* A step of others, as seen from address h: only the issuer takes tokens away.
Context(h) ==
    /\ UNCHANGED signing
    /\ LedgerTypeOK'
    /\ now <= now'
    /\ \A g \in Holders : clawed[g] <= clawed'[g]
    /\ balance[h] + clawed[h] <= balance'[h] + clawed'[h]

LEMMA ContextLemma ==
    /\ Context(PoolA) <=> A!PoolEnvironment
    /\ Context(PoolB) <=> B!PoolEnvironment
    /\ Context(Escrow) /\ UNCHANGED escrowVars <=> Environment
  <1>1. Context(PoolA) <=> A!PoolEnvironment
    BY SameLedger DEF Context, A!PoolEnvironment
  <1>2. Context(PoolB) <=> B!PoolEnvironment
    BY SameLedger DEF Context, B!PoolEnvironment
  <1>3. Context(Escrow) /\ UNCHANGED escrowVars <=> Environment
    BY DEF Context, Environment
  <1>. QED  BY <1>1, <1>2, <1>3

\* A step that only moves tokens, and none away from h.
LEMMA MoveLemma ==
    ASSUME LedgerTypeOK, LedgerTypeOK', UNCHANGED <<now, signing, clawed>>,
           NEW h \in Holders, balance[h] <= balance'[h]
    PROVE  Context(h)
  <1>1. /\ now \in Nat /\ clawed \in [Holders -> Nat] /\ balance[h] \in Nat /\ balance'[h] \in Nat
    BY HostAssumption DEF LedgerTypeOK
  <1>2. /\ now <= now' /\ \A g \in Holders : clawed[g] <= clawed'[g]
        /\ balance[h] + clawed[h] <= balance'[h] + clawed'[h]
    BY <1>1
  <1>. QED  BY <1>2 DEF Context

\* No operation of the escrow takes tokens from a pool.
LEMMA EscrowKeepsPools ==
    ASSUME TypeOK, EscrowNext
    PROVE  /\ UNCHANGED <<now, signing, clawed>> /\ LedgerTypeOK'
           /\ \A p \in Pools : balance[p] <= balance'[p]
  <1>. DEFINE kept == /\ UNCHANGED <<now, signing, clawed>>
                      /\ \A p \in Pools : balance[p] <= balance'[p]
  <1>0. LedgerTypeOK /\ TypeOK' /\ LedgerTypeOK'
    BY TypeStep DEF OpenNext, TypeOK
  <1>a. /\ balance \in [Holders -> Nat] /\ balance' \in [Holders -> Nat]
        /\ authorized \subseteq Holders
    BY <1>0 DEF LedgerTypeOK
  <1>b. \A p \in Pools : p \in Holders /\ p # Escrow /\ p \notin Accounts
    BY PlacesLemma, AddressAssumption
  <1>1. ASSUME UNCHANGED ledgerVars
        PROVE  kept
    BY <1>1, <1>a, <1>b DEF ledgerVars
  <1>2. ASSUME NEW c \in CampaignIds, NEW sponsor \in Sponsors, NEW amount \in Amounts,
               fund(c, sponsor, amount)
        PROVE  kept
    <2>1. amount \in Int /\ sponsor \in Accounts
      BY AmountAssumption, EscrowAssumption
    <2>2. /\ CanTransfer(balance, sponsor, Escrow, amount)
          /\ balance' = Transfer(balance, sponsor, Escrow, amount)
          /\ UNCHANGED <<now, signing, clawed>>
      BY <1>2 DEF fund, Deposit
    <2>3. \A h \in Holders \ {sponsor, Escrow} : Transfer(balance, sponsor, Escrow, amount)[h] = balance[h]
      BY <1>a, <2>1, <2>2, TransferLemma
    <2>. QED  BY <1>a, <1>b, <2>1, <2>2, <2>3
  <1>3. ASSUME NEW c \in CampaignIds, refund_expired(c)
        PROVE  kept
    <2>1. campaigns[c].amount \in Int
      BY DEF TypeOK, Campaigns
    <2>2. /\ CanTransfer(balance, Escrow, campaigns[c].sponsor, campaigns[c].amount)
          /\ balance' = Transfer(balance, Escrow, campaigns[c].sponsor, campaigns[c].amount)
          /\ UNCHANGED <<now, signing, clawed>>
      BY <1>3 DEF refund_expired
    <2>3. \A h \in Holders \ {Escrow} :
             Transfer(balance, Escrow, campaigns[c].sponsor, campaigns[c].amount)[h] >= balance[h]
      BY <1>a, <2>1, <2>2, PaymentLemma
    <2>. QED  BY <1>a, <1>b, <2>2, <2>3
  <1>4. ASSUME NEW c \in CampaignIds, NEW version \in Versions, complete(c, version)
        PROVE  kept
    <2>1. CanPayAllLegs(c) /\ balance' = AfterReferrer(c) /\ UNCHANGED <<now, signing, clawed>>
      BY <1>4 DEF complete
    <2>2. \A h \in Holders \ {Escrow} : AfterReferrer(c)[h] >= balance[h]
      BY <2>1, PayoutLemma
    <2>. QED  BY <1>a, <1>b, <2>1, <2>2
  <1>5. ASSUME NEW c \in CampaignIds, NEW creator, NEW referrer, NEW terms,
               activate(c, creator, referrer, terms)
        PROVE  UNCHANGED ledgerVars
    BY <1>5 DEF activate
  <1>6. ASSUME NEW gov, NEW set, NEW service, NEW nft, NEW revenue, NEW deployer, NEW bound,
               initialize(gov, set, service, nft, revenue, deployer, bound)
        PROVE  UNCHANGED ledgerVars
    BY <1>6 DEF initialize
  <1>7. ASSUME \/ pause \/ unpause \/ accept_governance \/ accept_settlement
               \/ \E account \in Nominees :
                     propose_governance(account) \/ propose_settlement(account)
        PROVE  UNCHANGED ledgerVars
    BY <1>7 DEF pause, unpause, accept_governance, accept_settlement,
                propose_governance, propose_settlement
  <1>8. kept
    <2>. HIDE DEF kept
    <2>. QED  BY <1>1, <1>2, <1>3, <1>4, <1>5, <1>6, <1>7 DEF EscrowNext, EscrowOnlyNext
  <1>. QED  BY <1>0, <1>8

\* The three contracts' own invariants, which their contexts rely on.
Parts == BooksInv /\ A!PoolInv /\ B!PoolInv

LEMMA PartsTypes ==
    ASSUME Parts
    PROVE  TypeOK /\ LedgerTypeOK /\ A!PoolInv /\ B!PoolInv /\ A!PoolTypeOK /\ B!PoolTypeOK
  BY DEF Parts, BooksInv, TypeOK, A!PoolInv, B!PoolInv

\* What the first pool does on its own leaves the tokens of the others alone.
LEMMA OwnStepA ==
    ASSUME Parts, A!PoolNext
    PROVE  /\ \A h \in Holders \ {PoolA} : Context(h)
           /\ poolA'.campaigns = poolA.campaigns /\ poolA'.credited = poolA.credited
           /\ \/ poolA'.escrow = poolA.escrow
              \/ poolA.escrow = None /\ poolA.campaigns = {} /\ poolA.credited = 0
  <1>1. /\ UNCHANGED <<now, signing, authorized, clawed>> /\ A!LedgerTypeOK'
        /\ \A h \in A!Holders \ {PoolA} : balance[h] <= balance'[h]
        /\ poolA'.campaigns = poolA.campaigns /\ poolA'.credited = poolA.credited
        /\ \/ poolA'.escrow = poolA.escrow
           \/ poolA.escrow = None /\ poolA.campaigns = {} /\ poolA.credited = 0
    BY PartsTypes, PoolAssumptions, A!OwnStep
  <1>2. LedgerTypeOK /\ LedgerTypeOK'
    BY <1>1, PartsTypes, SameLedger
  <1>3. \A h \in Holders \ {PoolA} : Context(h)
    BY <1>1, <1>2, SameLedger, MoveLemma
  <1>. QED  BY <1>1, <1>3

\* The same of the second pool.
LEMMA OwnStepB ==
    ASSUME Parts, B!PoolNext
    PROVE  /\ \A h \in Holders \ {PoolB} : Context(h)
           /\ poolB'.campaigns = poolB.campaigns /\ poolB'.credited = poolB.credited
           /\ \/ poolB'.escrow = poolB.escrow
              \/ poolB.escrow = None /\ poolB.campaigns = {} /\ poolB.credited = 0
  <1>1. /\ UNCHANGED <<now, signing, authorized, clawed>> /\ B!LedgerTypeOK'
        /\ \A h \in B!Holders \ {PoolB} : balance[h] <= balance'[h]
        /\ poolB'.campaigns = poolB.campaigns /\ poolB'.credited = poolB.credited
        /\ \/ poolB'.escrow = poolB.escrow
           \/ poolB.escrow = None /\ poolB.campaigns = {} /\ poolB.credited = 0
    BY PartsTypes, PoolAssumptions, B!OwnStep
  <1>2. LedgerTypeOK /\ LedgerTypeOK'
    BY <1>1, PartsTypes, SameLedger
  <1>3. \A h \in Holders \ {PoolB} : Context(h)
    BY <1>1, <1>2, SameLedger, MoveLemma
  <1>. QED  BY <1>1, <1>3

\* A credit that complete records in the first pool, in the middle of its payout.
LEMMA CreditA ==
    ASSUME Parts, NEW c \in CampaignIds, NEW version \in Versions, complete(c, version),
           NEW amount \in Int, NEW held \in {AfterNft(c)[PoolA], AfterRevenue(c)[PoolA]},
           A!record_credit(c, amount, Escrow, held)
    PROVE  /\ A!CreditStep /\ poolA'.escrow = poolA.escrow
           /\ poolA'.campaigns = poolA.campaigns \cup {c}
           /\ poolA'.credited = poolA.credited + amount
  <1>1. CanPayAllLegs(c) /\ balance' = AfterReferrer(c) /\ EscrowNext
    BY DEF complete, EscrowNext
  <1>2. held \in balance[PoolA]..balance'[PoolA]
    BY <1>1, PartsTypes, PlacesLemma, PayoutLemma
  <1>3. /\ UNCHANGED <<now, signing, clawed>> /\ LedgerTypeOK' /\ balance[PoolA] <= balance'[PoolA]
    BY <1>1, PartsTypes, PlacesLemma, EscrowKeepsPools
  <1>4. Context(PoolA)
    BY <1>3, PartsTypes, PlacesLemma, MoveLemma
  <1>5. A!PoolEnvironment /\ clawed' = clawed
    BY <1>3, <1>4, ContextLemma
  <1>6. A!CreditStep
    BY <1>2, <1>5, PartsTypes, PoolAssumptions, A!CreditInContext
  <1>7. /\ poolA'.credited = poolA.credited + amount
        /\ poolA'.campaigns = poolA.campaigns \cup {c}
        /\ poolA'.escrow = poolA.escrow
    BY PartsTypes, PoolAssumptions, A!CreditEffect
  <1>. QED  BY <1>6, <1>7

\* The same in the second pool.
LEMMA CreditB ==
    ASSUME Parts, NEW c \in CampaignIds, NEW version \in Versions, complete(c, version),
           NEW amount \in Int, NEW held \in {AfterNft(c)[PoolB], AfterRevenue(c)[PoolB]},
           B!record_credit(c, amount, Escrow, held)
    PROVE  /\ B!CreditStep /\ poolB'.escrow = poolB.escrow
           /\ poolB'.campaigns = poolB.campaigns \cup {c}
           /\ poolB'.credited = poolB.credited + amount
  <1>1. CanPayAllLegs(c) /\ balance' = AfterReferrer(c) /\ EscrowNext
    BY DEF complete, EscrowNext
  <1>2. held \in balance[PoolB]..balance'[PoolB]
    BY <1>1, PartsTypes, PlacesLemma, PayoutLemma
  <1>3. /\ UNCHANGED <<now, signing, clawed>> /\ LedgerTypeOK' /\ balance[PoolB] <= balance'[PoolB]
    BY <1>1, PartsTypes, PlacesLemma, EscrowKeepsPools
  <1>4. Context(PoolB)
    BY <1>3, PartsTypes, PlacesLemma, MoveLemma
  <1>5. B!PoolEnvironment /\ clawed' = clawed
    BY <1>3, <1>4, ContextLemma
  <1>6. B!CreditStep
    BY <1>2, <1>5, PartsTypes, PoolAssumptions, B!CreditInContext
  <1>7. /\ poolB'.credited = poolB.credited + amount
        /\ poolB'.campaigns = poolB.campaigns \cup {c}
        /\ poolB'.escrow = poolB.escrow
    BY PartsTypes, PoolAssumptions, B!CreditEffect
  <1>. QED  BY <1>6, <1>7

\* Which pool gets which leg.
LEMMA CompleteLemma ==
    ASSUME Parts, NEW c \in CampaignIds, NEW version \in Versions, Complete(c, version)
    PROVE  /\ A!CreditStep /\ poolA'.escrow = poolA.escrow
           /\ B!CreditStep /\ poolB'.escrow = poolB.escrow
           /\ poolA'.campaigns = poolA.campaigns \cup {c}
           /\ poolB'.campaigns = poolB.campaigns \cup {c}
           /\ \/ /\ destinations.nft = PoolA
                 /\ poolA'.credited = poolA.credited + NftLeg(c)
                 /\ poolB'.credited = poolB.credited + RevenueLeg(c)
              \/ /\ destinations.nft = PoolB
                 /\ poolB'.credited = poolB.credited + NftLeg(c)
                 /\ poolA'.credited = poolA.credited + RevenueLeg(c)
  <1>1. complete(c, version) /\ CreditPools(c)
    BY DEF Complete
  <1>2. NftLeg(c) \in Int /\ RevenueLeg(c) \in Int
    <2>1. campaigns[c].amount \in Nat
      BY PartsTypes DEF TypeOK, Campaigns
    <2>. QED  BY <2>1, LegsLemma
  <1>3. CASE /\ destinations.nft = PoolA
             /\ A!record_credit(c, NftLeg(c), Escrow, AfterNft(c)[PoolA])
             /\ B!record_credit(c, RevenueLeg(c), Escrow, AfterRevenue(c)[PoolB])
    <2>1. /\ A!CreditStep /\ poolA'.escrow = poolA.escrow
          /\ poolA'.campaigns = poolA.campaigns \cup {c}
          /\ poolA'.credited = poolA.credited + NftLeg(c)
      BY <1>1, <1>2, <1>3, CreditA
    <2>2. /\ B!CreditStep /\ poolB'.escrow = poolB.escrow
          /\ poolB'.campaigns = poolB.campaigns \cup {c}
          /\ poolB'.credited = poolB.credited + RevenueLeg(c)
      BY <1>1, <1>2, <1>3, CreditB
    <2>. QED  BY <1>3, <2>1, <2>2
  <1>4. CASE /\ destinations.nft = PoolB
             /\ B!record_credit(c, NftLeg(c), Escrow, AfterNft(c)[PoolB])
             /\ A!record_credit(c, RevenueLeg(c), Escrow, AfterRevenue(c)[PoolA])
    <2>1. /\ A!CreditStep /\ poolA'.escrow = poolA.escrow
          /\ poolA'.campaigns = poolA.campaigns \cup {c}
          /\ poolA'.credited = poolA.credited + RevenueLeg(c)
      BY <1>1, <1>2, <1>4, CreditA
    <2>2. /\ B!CreditStep /\ poolB'.escrow = poolB.escrow
          /\ poolB'.campaigns = poolB.campaigns \cup {c}
          /\ poolB'.credited = poolB.credited + NftLeg(c)
      BY <1>1, <1>2, <1>4, CreditB
    <2>. QED  BY <1>4, <2>1, <2>2
  <1>. QED  BY <1>1, <1>3, <1>4 DEF CreditPools

\* A direct credit moves no tokens and is one that the pool's context may make.
LEMMA DirectA ==
    ASSUME Parts, NEW c \in CampaignIds, NEW amount \in CreditAmounts, A!DirectCredit(c, amount)
    PROVE  /\ A!CreditStep /\ UNCHANGED ledgerVars
           /\ poolA.escrow \in Accounts /\ poolA'.escrow = poolA.escrow
  BY PartsTypes, PoolAssumptions, SameLedger, A!DirectCreditLemma DEF ledgerVars, A!ledgerVars

LEMMA DirectB ==
    ASSUME Parts, NEW c \in CampaignIds, NEW amount \in CreditAmounts, B!DirectCredit(c, amount)
    PROVE  /\ B!CreditStep /\ UNCHANGED ledgerVars
           /\ poolB.escrow \in Accounts /\ poolB'.escrow = poolB.escrow
  BY PartsTypes, PoolAssumptions, SameLedger, B!DirectCreditLemma DEF ledgerVars, B!ledgerVars

\* The ledger's own steps are a context for everybody.
LEMMA LedgerLemma ==
    ASSUME Parts, LedgerNext, UNCHANGED escrowVars
    PROVE  Context(PoolA) /\ Context(PoolB) /\ Context(Escrow)
  <1>1. Environment
    BY PartsTypes, LedgerIsEnvironment
  <1>2. A!LedgerTypeOK /\ B!LedgerTypeOK
    BY PartsTypes, SameLedger
  <1>3. A!LedgerNext
    BY SameLedger
    DEF LedgerNext, A!LedgerNext, Tick, A!Tick, CloseLedger, A!CloseLedger, Pay, A!Pay,
        Clawback, A!Clawback, SetAuthorized, A!SetAuthorized, require_auth, A!require_auth,
        CanTransfer, A!CanTransfer, Transfer, A!Transfer, CanSpend, A!CanSpend, CanReceive,
        A!CanReceive, SpendBalance, A!SpendBalance, ReceiveBalance, A!ReceiveBalance
  <1>4. B!LedgerNext
    BY SameLedger
    DEF LedgerNext, B!LedgerNext, Tick, B!Tick, CloseLedger, B!CloseLedger, Pay, B!Pay,
        Clawback, B!Clawback, SetAuthorized, B!SetAuthorized, require_auth, B!require_auth,
        CanTransfer, B!CanTransfer, Transfer, B!Transfer, CanSpend, B!CanSpend, CanReceive,
        B!CanReceive, SpendBalance, B!SpendBalance, ReceiveBalance, B!ReceiveBalance
  <1>5. A!PoolEnvironment
    BY <1>2, <1>3, PoolAssumptions, A!PoolLedgerStep
  <1>6. B!PoolEnvironment
    BY <1>2, <1>4, PoolAssumptions, B!PoolLedgerStep
  <1>. QED  BY <1>1, <1>5, <1>6, ContextLemma

\* The steps of the system, sorted by who takes part in them.
LEMMA SystemCases ==
    ASSUME Parts, [SystemNext]_allVars
    PROVE  \/ InitializeEscrow /\ EscrowNext /\ UNCHANGED <<ledgerVars, pools>>
           \/ \E c \in CampaignIds, version \in Versions : Complete(c, version) /\ EscrowNext
           \/ EscrowOnlyNext /\ EscrowNext /\ UNCHANGED pools
           \/ A!PoolNext /\ UNCHANGED <<escrowVars, poolB>>
           \/ B!PoolNext /\ UNCHANGED <<escrowVars, poolA>>
           \/ \E c \in CampaignIds, amount \in CreditAmounts :
                 A!DirectCredit(c, amount) /\ UNCHANGED <<escrowVars, poolB>>
           \/ \E c \in CampaignIds, amount \in CreditAmounts :
                 B!DirectCredit(c, amount) /\ UNCHANGED <<escrowVars, poolA>>
           \/ LedgerNext /\ UNCHANGED <<escrowVars, pools>>
           \/ UNCHANGED allVars
  <1>1. ASSUME InitializeEscrow
        PROVE  EscrowNext /\ UNCHANGED <<ledgerVars, pools>>
    <2>1. BoundPools \in SUBSET Pools
      BY DEF BoundPools
    <2>. QED  BY <1>1, <2>1 DEF InitializeEscrow, EscrowNext, initialize
  <1>2. ASSUME NEW c \in CampaignIds, NEW version \in Versions, Complete(c, version)
        PROVE  EscrowNext
    BY <1>2 DEF Complete, EscrowNext
  <1>3. EscrowOnlyNext => EscrowNext
    BY DEF EscrowNext
  <1>. QED  BY <1>1, <1>2, <1>3 DEF SystemNext

\* The composed system, seen from the escrow.
LEMMA EscrowContextStep == Parts /\ [SystemNext]_allVars => [OpenNext]_vars
  <1>. SUFFICES ASSUME Parts, [SystemNext]_allVars
               PROVE  [OpenNext]_vars
    OBVIOUS
  <1>1. CASE EscrowNext
    BY <1>1 DEF OpenNext
  <1>2. CASE A!PoolNext /\ UNCHANGED <<escrowVars, poolB>>
    BY <1>2, OwnStepA, PlacesLemma, ContextLemma DEF OpenNext
  <1>3. CASE B!PoolNext /\ UNCHANGED <<escrowVars, poolA>>
    BY <1>3, OwnStepB, PlacesLemma, ContextLemma DEF OpenNext
  <1>4. ASSUME NEW c \in CampaignIds, NEW amount \in CreditAmounts,
               \/ A!DirectCredit(c, amount) /\ UNCHANGED <<escrowVars, poolB>>
               \/ B!DirectCredit(c, amount) /\ UNCHANGED <<escrowVars, poolA>>
        PROVE  UNCHANGED vars
    BY <1>4, DirectA, DirectB DEF vars
  <1>5. CASE LedgerNext /\ UNCHANGED <<escrowVars, pools>>
    BY <1>5, LedgerLemma, ContextLemma DEF OpenNext
  <1>6. CASE UNCHANGED allVars
    BY <1>6 DEF allVars
  <1>. QED  BY <1>1, <1>2, <1>3, <1>4, <1>5, <1>6, SystemCases

\* The composed system, seen from the first pool.
LEMMA PoolAStep == Parts /\ [SystemNext]_allVars => [A!PoolOpenNext]_(A!poolVars)
  <1>. SUFFICES ASSUME Parts, [SystemNext]_allVars
               PROVE  A!PoolOpenNext \/ UNCHANGED A!poolVars
    OBVIOUS
  <1>a. ASSUME UNCHANGED ledgerVars, UNCHANGED poolA
        PROVE  UNCHANGED A!poolVars
    BY <1>a, SameLedger DEF A!poolVars, ledgerVars, A!ledgerVars
  <1>b. ASSUME Context(PoolA), UNCHANGED poolA
        PROVE  A!PoolOpenNext
    BY <1>b, ContextLemma DEF A!PoolOpenNext
  <1>c. ASSUME A!CreditStep
        PROVE  A!PoolOpenNext
    BY <1>c DEF A!PoolOpenNext, A!CreditStep
  <1>1. CASE InitializeEscrow /\ EscrowNext /\ UNCHANGED <<ledgerVars, pools>>
    BY <1>1, <1>a DEF pools
  <1>2. ASSUME NEW c \in CampaignIds, NEW version \in Versions, Complete(c, version)
        PROVE  A!PoolOpenNext
    BY <1>2, <1>c, CompleteLemma
  <1>3. CASE EscrowOnlyNext /\ EscrowNext /\ UNCHANGED pools
    <2>1. /\ UNCHANGED <<now, signing, clawed>> /\ LedgerTypeOK /\ LedgerTypeOK'
          /\ balance[PoolA] <= balance'[PoolA]
      BY <1>3, PartsTypes, PlacesLemma, EscrowKeepsPools
    <2>2. Context(PoolA)
      BY <2>1, PlacesLemma, MoveLemma
    <2>. QED  BY <1>3, <1>b, <2>2 DEF pools
  <1>4. CASE A!PoolNext /\ UNCHANGED <<escrowVars, poolB>>
    BY <1>4 DEF A!PoolOpenNext
  <1>5. CASE B!PoolNext /\ UNCHANGED <<escrowVars, poolA>>
    BY <1>5, <1>b, OwnStepB, PlacesLemma
  <1>6. ASSUME NEW c \in CampaignIds, NEW amount \in CreditAmounts, A!DirectCredit(c, amount)
        PROVE  A!PoolOpenNext
    BY <1>6, <1>c, DirectA
  <1>7. ASSUME NEW c \in CampaignIds, NEW amount \in CreditAmounts, B!DirectCredit(c, amount),
               UNCHANGED poolA
        PROVE  UNCHANGED A!poolVars
    BY <1>7, <1>a, DirectB
  <1>8. CASE LedgerNext /\ UNCHANGED <<escrowVars, pools>>
    BY <1>8, <1>b, LedgerLemma DEF pools
  <1>9. CASE UNCHANGED allVars
    BY <1>9, <1>a DEF allVars, vars, pools
  <1>. QED  BY <1>1, <1>2, <1>3, <1>4, <1>5, <1>6, <1>7, <1>8, <1>9, SystemCases

\* The composed system, seen from the second pool.
LEMMA PoolBStep == Parts /\ [SystemNext]_allVars => [B!PoolOpenNext]_(B!poolVars)
  <1>. SUFFICES ASSUME Parts, [SystemNext]_allVars
               PROVE  B!PoolOpenNext \/ UNCHANGED B!poolVars
    OBVIOUS
  <1>a. ASSUME UNCHANGED ledgerVars, UNCHANGED poolB
        PROVE  UNCHANGED B!poolVars
    BY <1>a, SameLedger DEF B!poolVars, ledgerVars, B!ledgerVars
  <1>b. ASSUME Context(PoolB), UNCHANGED poolB
        PROVE  B!PoolOpenNext
    BY <1>b, ContextLemma DEF B!PoolOpenNext
  <1>c. ASSUME B!CreditStep
        PROVE  B!PoolOpenNext
    BY <1>c DEF B!PoolOpenNext, B!CreditStep
  <1>1. CASE InitializeEscrow /\ EscrowNext /\ UNCHANGED <<ledgerVars, pools>>
    BY <1>1, <1>a DEF pools
  <1>2. ASSUME NEW c \in CampaignIds, NEW version \in Versions, Complete(c, version)
        PROVE  B!PoolOpenNext
    BY <1>2, <1>c, CompleteLemma
  <1>3. CASE EscrowOnlyNext /\ EscrowNext /\ UNCHANGED pools
    <2>1. /\ UNCHANGED <<now, signing, clawed>> /\ LedgerTypeOK /\ LedgerTypeOK'
          /\ balance[PoolB] <= balance'[PoolB]
      BY <1>3, PartsTypes, PlacesLemma, EscrowKeepsPools
    <2>2. Context(PoolB)
      BY <2>1, PlacesLemma, MoveLemma
    <2>. QED  BY <1>3, <1>b, <2>2 DEF pools
  <1>4. CASE B!PoolNext /\ UNCHANGED <<escrowVars, poolA>>
    BY <1>4 DEF B!PoolOpenNext
  <1>5. CASE A!PoolNext /\ UNCHANGED <<escrowVars, poolB>>
    BY <1>5, <1>b, OwnStepA, PlacesLemma
  <1>6. ASSUME NEW c \in CampaignIds, NEW amount \in CreditAmounts, B!DirectCredit(c, amount)
        PROVE  B!PoolOpenNext
    BY <1>6, <1>c, DirectB
  <1>7. ASSUME NEW c \in CampaignIds, NEW amount \in CreditAmounts, A!DirectCredit(c, amount),
               UNCHANGED poolB
        PROVE  UNCHANGED B!poolVars
    BY <1>7, <1>a, DirectA
  <1>8. CASE LedgerNext /\ UNCHANGED <<escrowVars, pools>>
    BY <1>8, <1>b, LedgerLemma DEF pools
  <1>9. CASE UNCHANGED allVars
    BY <1>9, <1>a DEF allVars, vars, pools
  <1>. QED  BY <1>1, <1>2, <1>3, <1>4, <1>5, <1>6, <1>7, <1>8, <1>9, SystemCases

\* All three keep their invariants.
LEMMA PartsInit == SystemInit => Parts
  BY BooksInit, PoolsInit DEF SystemInit, Parts

LEMMA PartsStep == Parts /\ [SystemNext]_allVars => Parts'
  <1>. SUFFICES ASSUME Parts, [SystemNext]_allVars
               PROVE  Parts'
    OBVIOUS
  <1>1. BooksInv'
    BY EscrowContextStep, BooksStep DEF Parts
  <1>2. A!PoolInv'
    BY PoolAStep, PartsTypes, PoolAssumptions, A!PoolInvStep
  <1>3. B!PoolInv'
    BY PoolBStep, PartsTypes, PoolAssumptions, B!PoolInvStep
  <1>. QED  BY <1>1, <1>2, <1>3 DEF Parts

\* The composed system implements the escrow in an arbitrary context: initialize,
\* complete with its nested credits, claims and direct credits of either pool and
\* the ledger only do to the escrow what OpenSpec allows.
THEOREM EscrowRefined == SystemSpec => EscrowInContext
  BY PartsInit, PartsStep, EscrowContextStep, PTL
  DEF SystemSpec, SystemInit, EscrowInContext, OpenSpec

\* Each pool of the composed system implements ContributorPool in an arbitrary
\* context: complete credits it in the middle of its payout, between the pool's
\* balance before and after, and nothing else but the issuer touches its tokens.
THEOREM PoolsRefined == SystemSpec => PoolsInContext
  <1>1. SystemInit => A!PoolSpecInit /\ B!PoolSpecInit
    BY SpecsInit
  <1>2. SystemSpec => A!PoolOpenSpec
    BY <1>1, PartsInit, PartsStep, PoolAStep, PTL DEF SystemSpec, A!PoolOpenSpec
  <1>3. SystemSpec => B!PoolOpenSpec
    BY <1>1, PartsInit, PartsStep, PoolBStep, PTL DEF SystemSpec, B!PoolOpenSpec
  <1>. QED  BY <1>2, <1>3 DEF PoolsInContext

\* What is proved of the escrow in any context holds of the one in the system: its
\* total is what it owes, it holds that much, it never settles twice, and tokens
\* leave it only as one settlement.
COROLLARY SystemEscrowCorrect ==
    SystemSpec => /\ [](TypeOK /\ LiabilityIsOpenCampaigns /\ Solvency /\ SplitIsExact
                          /\ GovernanceCanSign /\ ConsumedIffCompleted)
                  /\ OutflowIsOneSettlement /\ CommitmentsAreFinal
  BY EscrowRefined, TypeCorrect, LiabilityCorrect, SolvencyCorrect, SplitCorrect,
     GovernanceCorrect, ReplayCorrect, OutflowCorrect, CommitmentsCorrect, PTL
  DEF EscrowInContext

\* What is proved of a pool in any context holds of both pools in the system: their
\* books are exact, they hold what they owe, no single signer publishes, tokens
\* leave only as one claim, and only credits and expiries can be allocated.
COROLLARY SystemPoolsCorrect ==
    SystemSpec => /\ [](A!PoolBooks /\ A!PoolSolvency /\ A!NoSingleAuthority)
                  /\ A!PoolOutflowIsOneClaim /\ A!OnlyCreditsAreAllocatable
                  /\ [](B!PoolBooks /\ B!PoolSolvency /\ B!NoSingleAuthority)
                  /\ B!PoolOutflowIsOneClaim /\ B!OnlyCreditsAreAllocatable
  <1>1. A!PoolOpenSpec => /\ [](A!PoolBooks /\ A!PoolSolvency /\ A!NoSingleAuthority)
                          /\ A!PoolOutflowIsOneClaim /\ A!OnlyCreditsAreAllocatable
    BY PoolAssumptions, A!PoolBooksCorrect, A!PoolSolvencyCorrect, A!AuthorityCorrect,
       A!ClaimsCorrect, A!AllocatableCorrect, PTL
  <1>2. B!PoolOpenSpec => /\ [](B!PoolBooks /\ B!PoolSolvency /\ B!NoSingleAuthority)
                          /\ B!PoolOutflowIsOneClaim /\ B!OnlyCreditsAreAllocatable
    BY PoolAssumptions, B!PoolBooksCorrect, B!PoolSolvencyCorrect, B!AuthorityCorrect,
       B!ClaimsCorrect, B!AllocatableCorrect, PTL
  <1>. QED  BY <1>1, <1>2, PoolsRefined, PTL DEF PoolsInContext

(***************************************************************************)
(* The books of the three contracts agree.  Inductive because a pool that   *)
(* names this escrow is credited by nobody else, so that it is empty when   *)
(* the escrow is initialized with it, and both pools name the escrow from  *)
(* then on.                                                                *)
(***************************************************************************)

Wired ==
    /\ initialized => poolA.escrow = Escrow /\ poolB.escrow = Escrow
    /\ ~initialized =>
         /\ poolA.escrow = Escrow => poolA.campaigns = {} /\ poolA.credited = 0
         /\ poolB.escrow = Escrow => poolB.campaigns = {} /\ poolB.credited = 0

\* The sum that a completion adds one leg to.
LEMMA LegsAdd ==
    ASSUME NEW K \in SUBSET CampaignIds, NEW c \in CampaignIds \ K,
           NEW f \in [K -> Nat], NEW g \in [K \cup {c} -> Nat], \A d \in K : g[d] = f[d]
    PROVE  A!Total(g) = A!Total(f) + g[c]
  <1>1. A!IsFiniteSet(K \cup {c})
    <2>1. IsFiniteSet(K \cup {c})
      BY EscrowAssumption, FS_Subset
    <2>. QED  BY <2>1, SameLedger
  <1>2. A!Total(g) = A!Total([d \in (K \cup {c}) \ {c} |-> g[d]]) + g[c]
    BY <1>1, PoolAssumptions, A!TotalAdd, ZenonT(40)
  <1>3. [d \in (K \cup {c}) \ {c} |-> g[d]] = f
    OBVIOUS
  <1>. QED  BY <1>2, <1>3

\* The legs of a completed campaign are natural numbers.
LEMMA LegsNat ==
    ASSUME BooksInv
    PROVE  \A c \in CampaignIds : campaigns[c].status # "Absent" => NftLeg(c) \in Nat /\ RevenueLeg(c) \in Nat
  <1>. SUFFICES ASSUME NEW c \in CampaignIds, campaigns[c].status # "Absent"
               PROVE  NftLeg(c) \in Nat /\ RevenueLeg(c) \in Nat
    OBVIOUS
  <1>1. campaigns[c].amount \in Nat /\ campaigns[c].amount >= 100
    BY DEF BooksInv, TypeOK, Campaigns, AmountsInRange, MINIMUM_CAMPAIGN_AMOUNT
  <1>. QED  BY <1>1, SplitLemma DEF NftLeg, RevenueLeg, Share, NFT_POOL, REVENUE, DENOM

\* The two sums as functions of the campaigns.
LEMMA CreditsFrame ==
    ASSUME Completed' = Completed, \A c \in Completed : campaigns'[c].amount = campaigns[c].amount
    PROVE  /\ [c \in Completed |-> NftLeg(c)]' = [c \in Completed |-> NftLeg(c)]
           /\ [c \in Completed |-> RevenueLeg(c)]' = [c \in Completed |-> RevenueLeg(c)]
  <1>1. \A c \in Completed : NftLeg(c)' = NftLeg(c) /\ RevenueLeg(c)' = RevenueLeg(c)
    BY DEF NftLeg, RevenueLeg
  <1>. QED  BY <1>1

LinkInv == Parts /\ Wired /\ CreditsMatchCompletions

\* Steps that credit nothing and complete nothing keep the agreement.
LEMMA LinkFrame ==
    ASSUME LinkInv, initialized' <=> initialized, destinations' = destinations,
           Completed' = Completed, \A c \in Completed : campaigns'[c].amount = campaigns[c].amount,
           poolA'.escrow = poolA.escrow, poolB'.escrow = poolB.escrow,
           poolA'.campaigns = poolA.campaigns, poolB'.campaigns = poolB.campaigns,
           poolA'.credited = poolA.credited, poolB'.credited = poolB.credited
    PROVE  Wired' /\ CreditsMatchCompletions'
  <1>1. Wired'
    BY DEF LinkInv, Wired
  <1>2. /\ [c \in Completed |-> NftLeg(c)]' = [c \in Completed |-> NftLeg(c)]
        /\ [c \in Completed |-> RevenueLeg(c)]' = [c \in Completed |-> RevenueLeg(c)]
    BY CreditsFrame
  <1>3. /\ NftState'.campaigns = NftState.campaigns /\ NftState'.credited = NftState.credited
        /\ RevenueState'.campaigns = RevenueState.campaigns
        /\ RevenueState'.credited = RevenueState.credited
    BY DEF NftState, RevenueState
  <1>4. CreditsMatchCompletions'
    BY <1>2, <1>3 DEF LinkInv, CreditsMatchCompletions
  <1>. QED  BY <1>1, <1>4

\* The escrow's own operations complete nothing.
LEMMA NoCompletion ==
    ASSUME TypeOK, EscrowOnlyNext
    PROVE  /\ initialized /\ initialized' /\ destinations' = destinations
           /\ Completed' = Completed
           /\ \A c \in Completed : campaigns'[c].amount = campaigns[c].amount
  <1>. DEFINE same(c) == /\ campaigns'[c].status = "Completed" <=> campaigns[c].status = "Completed"
                         /\ campaigns[c].status = "Completed" =>
                               campaigns'[c].amount = campaigns[c].amount
  <1>. DEFINE goal == /\ initialized /\ initialized' /\ destinations' = destinations
                      /\ \A c \in CampaignIds : same(c)
  <1>a. campaigns \in [CampaignIds -> Campaigns] /\ None \notin Accounts
    BY EscrowAssumption DEF TypeOK, Holders
  <1>1. ASSUME NEW c \in CampaignIds, NEW sponsor, NEW amount, fund(c, sponsor, amount)
        PROVE  goal
    <2>1. /\ campaigns[c].status = "Absent" /\ campaigns'[c].status = "Funded"
          /\ \A d \in CampaignIds \ {c} : campaigns'[d] = campaigns[d]
      BY <1>a, <1>1 DEF fund
    <2>2. \A d \in CampaignIds : same(d)
      BY <2>1
    <2>. QED  BY <1>1, <2>2 DEF fund, initialized, roleVars
  <1>2. ASSUME NEW c \in CampaignIds, NEW creator, NEW referrer, NEW terms,
               activate(c, creator, referrer, terms)
        PROVE  goal
    <2>1. /\ campaigns[c].status = "Funded" /\ campaigns'[c].status = "Active"
          /\ \A d \in CampaignIds \ {c} : campaigns'[d] = campaigns[d]
      BY <1>a, <1>2 DEF activate, Activatable, Campaigns
    <2>2. \A d \in CampaignIds : same(d)
      BY <2>1
    <2>. QED  BY <1>2, <2>2 DEF activate, initialized, roleVars
  <1>3. ASSUME NEW c \in CampaignIds, refund_expired(c)
        PROVE  goal
    <2>1. /\ campaigns[c].status # "Completed" /\ campaigns'[c].status = "Refunded"
          /\ \A d \in CampaignIds \ {c} : campaigns'[d] = campaigns[d]
      BY <1>a, <1>3 DEF refund_expired, SettleBooks, Open, Campaigns
    <2>2. \A d \in CampaignIds : same(d)
      BY <2>1
    <2>. QED  BY <1>3, <2>2 DEF refund_expired, initialized, roleVars
  <1>4. ASSUME \/ pause \/ unpause \/ accept_governance \/ accept_settlement
               \/ \E account \in Nominees :
                     propose_governance(account) \/ propose_settlement(account)
        PROVE  goal
    <2>1. campaigns' = campaigns /\ destinations' = destinations /\ initialized /\ initialized'
      BY <1>4 DEF pause, unpause, accept_governance, accept_settlement, propose_governance,
                  propose_settlement, initialized, bookVars, roleVars
    <2>. QED  BY <2>1
  <1>5. goal
    <2>. HIDE DEF goal
    <2>. QED  BY <1>1, <1>2, <1>3, <1>4 DEF EscrowOnlyNext
  <1>6. Completed' = Completed
    BY <1>5 DEF Completed
  <1>. QED  BY <1>5, <1>6 DEF Completed

\* A completion adds the same campaign to all three.
LEMMA LinkComplete ==
    ASSUME LinkInv, NEW c \in CampaignIds, NEW version \in Versions, Complete(c, version)
    PROVE  Wired' /\ CreditsMatchCompletions'
  <1>. DEFINE nft == [d \in Completed |-> NftLeg(d)]
              revenue == [d \in Completed |-> RevenueLeg(d)]
  <1>0. Parts /\ TypeOK /\ BooksInv
    BY DEF LinkInv, Parts, BooksInv
  <1>1. /\ initialized /\ initialized' /\ destinations' = destinations
        /\ campaigns[c].status = "Active"
        /\ campaigns' = [campaigns EXCEPT ![c].status = "Completed"]
    BY DEF Complete, complete, Releasable, SettleBooks, initialized, roleVars
  <1>2. /\ campaigns'[c].status = "Completed"
        /\ \A d \in CampaignIds \ {c} : campaigns'[d] = campaigns[d]
        /\ \A d \in CampaignIds : campaigns'[d].amount = campaigns[d].amount
    BY <1>0, <1>1 DEF TypeOK, Campaigns
  <1>3. Completed' = Completed \cup {c} /\ c \notin Completed /\ Completed \in SUBSET CampaignIds
    BY <1>1, <1>2 DEF Completed
  <1>4. \A d \in CampaignIds : NftLeg(d)' = NftLeg(d) /\ RevenueLeg(d)' = RevenueLeg(d)
    BY <1>2 DEF NftLeg, RevenueLeg
  <1>5. \A d \in Completed \cup {c} : d \in CampaignIds /\ NftLeg(d) \in Nat /\ RevenueLeg(d) \in Nat
    BY <1>0, <1>1, <1>3, LegsNat DEF Completed
  <1>6. /\ nft' = [d \in Completed \cup {c} |-> NftLeg(d)]
        /\ revenue' = [d \in Completed \cup {c} |-> RevenueLeg(d)]
    BY <1>3, <1>4, <1>5
  <1>7. /\ nft \in [Completed -> Nat] /\ revenue \in [Completed -> Nat]
        /\ nft' \in [Completed \cup {c} -> Nat] /\ revenue' \in [Completed \cup {c} -> Nat]
        /\ \A d \in Completed : nft'[d] = nft[d] /\ revenue'[d] = revenue[d]
        /\ nft'[c] = NftLeg(c) /\ revenue'[c] = RevenueLeg(c)
    BY <1>5, <1>6
  <1>8. A!Total(nft') = A!Total(nft) + NftLeg(c)
    BY <1>3, <1>7, LegsAdd
  <1>9. A!Total(revenue') = A!Total(revenue) + RevenueLeg(c)
    BY <1>3, <1>7, LegsAdd
  <1>10. /\ poolA'.escrow = poolA.escrow /\ poolB'.escrow = poolB.escrow
         /\ poolA'.campaigns = poolA.campaigns \cup {c}
         /\ poolB'.campaigns = poolB.campaigns \cup {c}
         /\ \/ /\ destinations.nft = PoolA
               /\ poolA'.credited = poolA.credited + NftLeg(c)
               /\ poolB'.credited = poolB.credited + RevenueLeg(c)
            \/ /\ destinations.nft = PoolB
               /\ poolB'.credited = poolB.credited + NftLeg(c)
               /\ poolA'.credited = poolA.credited + RevenueLeg(c)
    BY <1>0, CompleteLemma
  <1>11. Wired'
    BY <1>1, <1>10 DEF LinkInv, Wired
  <1>12. /\ NftState.campaigns = Completed /\ RevenueState.campaigns = Completed
         /\ NftState.credited = A!Total(nft) /\ RevenueState.credited = A!Total(revenue)
    BY <1>1 DEF LinkInv, CreditsMatchCompletions
  <1>. HIDE DEF nft, revenue
  <1>13. /\ NftState'.campaigns = Completed' /\ RevenueState'.campaigns = Completed'
         /\ NftState'.credited = A!Total(nft') /\ RevenueState'.credited = A!Total(revenue')
    BY <1>1, <1>3, <1>8, <1>9, <1>10, <1>12, PlacesLemma DEF NftState, RevenueState
  <1>14. CreditsMatchCompletions'
    BY <1>13 DEF CreditsMatchCompletions, nft, revenue
  <1>. QED  BY <1>11, <1>14

\* The sums over no campaigns.
LEMMA NoCredits ==
    ASSUME Completed = {}
    PROVE  /\ A!Total([c \in Completed |-> NftLeg(c)]) = 0
           /\ A!Total([c \in Completed |-> RevenueLeg(c)]) = 0
  BY PoolAssumptions, A!TotalEmpty

\* The escrow starts with two pools that name it, and which nobody credited.
LEMMA LinkInitialize ==
    ASSUME LinkInv, InitializeEscrow
    PROVE  Wired' /\ CreditsMatchCompletions'
  <1>1. PICK gov, set \in Authorities, service \in Treasuries, nft, revenue \in Pools,
             deployer \in Accounts :
           initialize(gov, set, service, nft, revenue, deployer, BoundPools)
    BY DEF InitializeEscrow
  <1>2. /\ ~initialized /\ nft # revenue /\ {nft, revenue} \subseteq BoundPools
        /\ governance' = gov /\ gov \in signing /\ campaigns' = campaigns /\ UNCHANGED pools
    BY <1>1 DEF initialize, require_auth, InitializeEscrow
  <1>3. PoolA \in BoundPools /\ PoolB \in BoundPools
    BY <1>2, PlacesLemma
  <1>4. poolA.escrow = Escrow /\ poolB.escrow = Escrow
    BY <1>3, PlacesLemma DEF BoundPools
  <1>5. initialized'
    BY <1>2, EscrowAssumption DEF LinkInv, Parts, BooksInv, TypeOK, LedgerTypeOK, initialized, Holders
  <1>6. poolA' = poolA /\ poolB' = poolB
    BY <1>2 DEF pools
  <1>7. /\ poolA.campaigns = {} /\ poolA.credited = 0 /\ poolB.campaigns = {} /\ poolB.credited = 0
    BY <1>2, <1>4 DEF LinkInv, Wired
  <1>8. Completed = {} /\ Completed' = {}
    BY <1>2 DEF LinkInv, Parts, BooksInv, NothingBeforeInit, Completed
  <1>9. /\ [c \in Completed |-> NftLeg(c)]' = [c \in Completed |-> NftLeg(c)]
        /\ [c \in Completed |-> RevenueLeg(c)]' = [c \in Completed |-> RevenueLeg(c)]
    BY <1>8, CreditsFrame
  <1>10. Wired'
    BY <1>4, <1>5, <1>6 DEF Wired
  <1>11. NftState' \in {poolA, poolB} /\ RevenueState' \in {poolA, poolB}
    BY <1>6 DEF NftState, RevenueState
  <1>12. CreditsMatchCompletions'
    BY <1>7, <1>8, <1>9, <1>11, NoCredits DEF CreditsMatchCompletions
  <1>. QED  BY <1>10, <1>12

LEMMA LinkInit == SystemInit => LinkInv
  <1>. SUFFICES ASSUME SystemInit
               PROVE  LinkInv
    OBVIOUS
  <1>1. ~initialized
    BY DEF SystemInit, Init, EscrowInit, initialized
  <1>2. poolA.campaigns = {} /\ poolA.credited = 0 /\ poolB.campaigns = {} /\ poolB.credited = 0
    BY DEF SystemInit, A!PoolInit, B!PoolInit
  <1>. QED  BY <1>1, <1>2, PartsInit DEF LinkInv, Wired, CreditsMatchCompletions

LEMMA LinkStep == LinkInv /\ [SystemNext]_allVars => LinkInv'
  <1>. SUFFICES ASSUME LinkInv, [SystemNext]_allVars
               PROVE  Wired' /\ CreditsMatchCompletions'
    BY PartsStep DEF LinkInv
  <1>0. Parts /\ TypeOK /\ Escrow # None
    BY PlacesLemma DEF LinkInv, Parts, BooksInv
  <1>a. ASSUME UNCHANGED escrowVars
        PROVE  /\ initialized' <=> initialized
               /\ destinations' = destinations /\ Completed' = Completed /\ campaigns' = campaigns
    BY <1>a DEF escrowVars, roleVars, bookVars, initialized, Completed
  <1>1. CASE InitializeEscrow /\ EscrowNext /\ UNCHANGED <<ledgerVars, pools>>
    BY <1>1, LinkInitialize
  <1>2. ASSUME NEW c \in CampaignIds, NEW version \in Versions, Complete(c, version)
        PROVE  Wired' /\ CreditsMatchCompletions'
    BY <1>2, LinkComplete
  <1>3. CASE EscrowOnlyNext /\ EscrowNext /\ UNCHANGED pools
    BY <1>0, <1>3, NoCompletion, LinkFrame DEF pools
  <1>4. CASE A!PoolNext /\ UNCHANGED <<escrowVars, poolB>>
    <2>1. /\ poolA'.campaigns = poolA.campaigns /\ poolA'.credited = poolA.credited
          /\ \/ poolA'.escrow = poolA.escrow
             \/ poolA.escrow = None /\ poolA.campaigns = {} /\ poolA.credited = 0
      BY <1>0, <1>4, OwnStepA
    <2>2. CASE poolA'.escrow = poolA.escrow
      BY <1>4, <1>a, <2>1, <2>2, LinkFrame
    <2>3. CASE poolA.escrow = None /\ poolA.campaigns = {} /\ poolA.credited = 0
      <3>1. ~initialized /\ ~initialized'
        BY <1>0, <1>4, <1>a, <2>3 DEF LinkInv, Wired
      <3>. QED  BY <1>4, <2>1, <2>3, <3>1 DEF LinkInv, Wired, CreditsMatchCompletions
    <2>. QED  BY <2>1, <2>2, <2>3
  <1>5. CASE B!PoolNext /\ UNCHANGED <<escrowVars, poolA>>
    <2>1. /\ poolB'.campaigns = poolB.campaigns /\ poolB'.credited = poolB.credited
          /\ \/ poolB'.escrow = poolB.escrow
             \/ poolB.escrow = None /\ poolB.campaigns = {} /\ poolB.credited = 0
      BY <1>0, <1>5, OwnStepB
    <2>2. CASE poolB'.escrow = poolB.escrow
      BY <1>5, <1>a, <2>1, <2>2, LinkFrame
    <2>3. CASE poolB.escrow = None /\ poolB.campaigns = {} /\ poolB.credited = 0
      <3>1. ~initialized /\ ~initialized'
        BY <1>0, <1>5, <1>a, <2>3 DEF LinkInv, Wired
      <3>. QED  BY <1>5, <2>1, <2>3, <3>1 DEF LinkInv, Wired, CreditsMatchCompletions
    <2>. QED  BY <2>1, <2>2, <2>3
  <1>6. ASSUME NEW c \in CampaignIds, NEW amount \in CreditAmounts,
               A!DirectCredit(c, amount), UNCHANGED <<escrowVars, poolB>>
        PROVE  Wired' /\ CreditsMatchCompletions'
    <2>1. poolA'.escrow # Escrow /\ poolA.escrow # Escrow
      BY <1>0, <1>6, DirectA, PlacesLemma
    <2>2. ~initialized /\ ~initialized'
      BY <1>6, <1>a, <2>1 DEF LinkInv, Wired
    <2>. QED  BY <1>6, <2>1, <2>2 DEF LinkInv, Wired, CreditsMatchCompletions
  <1>7. ASSUME NEW c \in CampaignIds, NEW amount \in CreditAmounts,
               B!DirectCredit(c, amount), UNCHANGED <<escrowVars, poolA>>
        PROVE  Wired' /\ CreditsMatchCompletions'
    <2>1. poolB'.escrow # Escrow /\ poolB.escrow # Escrow
      BY <1>0, <1>7, DirectB, PlacesLemma
    <2>2. ~initialized /\ ~initialized'
      BY <1>7, <1>a, <2>1 DEF LinkInv, Wired
    <2>. QED  BY <1>7, <2>1, <2>2 DEF LinkInv, Wired, CreditsMatchCompletions
  <1>8. CASE LedgerNext /\ UNCHANGED <<escrowVars, pools>>
    BY <1>8, <1>a, LinkFrame DEF pools
  <1>9. CASE UNCHANGED allVars
    BY <1>9, <1>a, LinkFrame DEF allVars, vars, pools
  <1>. QED
    BY <1>0, <1>1, <1>2, <1>3, <1>4, <1>5, <1>6, <1>7, <1>8, <1>9, SystemCases

\* After any mix of completions, refunds, claims, expiries, role changes and direct
\* calls of record_credit: both pools know exactly the campaigns the escrow
\* completed and were credited exactly their legs, and both hold what they owe.
THEOREM SystemBooksCorrect == SystemSpec => []SystemBooks
  <1>1. LinkInv => CreditsMatchCompletions
    BY DEF LinkInv
  <1>2. SystemSpec => []CreditsMatchCompletions
    BY <1>1, LinkInit, LinkStep, PTL DEF SystemSpec
  <1>. QED  BY <1>2, SystemPoolsCorrect, PTL DEF SystemBooks, PoolsSolvent
=============================================================================
