----------------------- MODULE ContributorPool_proofs -----------------------
(***************************************************************************)
(* Theorems about ContributorPool, for every set of addresses, credits and  *)
(* manifests, all lists of allocations, and every i128::MAX.               *)
(***************************************************************************)
EXTENDS ContributorPool, Totals_proofs

(***************************************************************************)
(* The token.                                                              *)
(***************************************************************************)

\* A transfer that the token allows moves exactly the amount.
LEMMA PoolTransferLemma ==
    ASSUME LedgerTypeOK, NEW from, NEW to, NEW a \in Int, CanTransfer(balance, from, to, a)
    PROVE  /\ from \in Holders /\ to \in Holders /\ a \in Nat
           /\ Transfer(balance, from, to, a) \in [Holders -> Nat]
           /\ from # to => /\ Transfer(balance, from, to, a)[from] = balance[from] - a
                           /\ Transfer(balance, from, to, a)[to] = balance[to] + a
           /\ \A h \in Holders \ {from, to} : Transfer(balance, from, to, a)[h] = balance[h]
           /\ \A h \in Holders \ {from} : Transfer(balance, from, to, a)[h] >= balance[h]
  <1>0. balance \in [Holders -> Nat]
    BY DEF LedgerTypeOK
  <1>1. from \in Holders /\ to \in Holders /\ a \in Nat /\ balance[from] >= a
    BY DEF CanTransfer, CanSpend, CanReceive, LedgerTypeOK
  <1>2. SpendBalance(balance, from, a) \in [Holders -> Nat]
    BY <1>0, <1>1 DEF SpendBalance
  <1>3. Transfer(balance, from, to, a) \in [Holders -> Nat]
    BY <1>1, <1>2 DEF Transfer, ReceiveBalance
  <1>4. from # to => /\ Transfer(balance, from, to, a)[from] = balance[from] - a
                     /\ Transfer(balance, from, to, a)[to] = balance[to] + a
    BY <1>0, <1>1 DEF Transfer, ReceiveBalance, SpendBalance
  <1>5. \A h \in Holders \ {from, to} : Transfer(balance, from, to, a)[h] = balance[h]
    BY <1>0, <1>1 DEF Transfer, ReceiveBalance, SpendBalance
  <1>6. \A h \in Holders \ {from} : Transfer(balance, from, to, a)[h] >= balance[h]
    BY <1>0, <1>1, <1>4, <1>5
  <1>. QED  BY <1>1, <1>3, <1>4, <1>5, <1>6

(***************************************************************************)
(* The inductive invariant.                                                *)
(***************************************************************************)

\* The manifests are published in the order of their ids, with at most
\* MAX_ALLOCATIONS entries, and nothing happens before initialize.
Orderly ==
    /\ pool.escrow # None <=> poolInitialized
    /\ ~poolInitialized =>
         /\ pool.liability = 0 /\ pool.credited = 0 /\ pool.paid = 0 /\ pool.campaigns = {}
         /\ \A m \in ManifestIds : pool.manifests[m].status = "Absent"
    /\ \A m \in ManifestIds :
         IF pool.manifests[m].status = "Absent"
         THEN pool.manifests[m] = NoManifest
         ELSE m <= pool.latest /\ Len(pool.manifests[m].allocations) \in 1..MAX_ALLOCATIONS

PoolInv == PoolTypeOK /\ Orderly /\ PoolBooks

\* What no operation but initialize, record_credit, publish_manifest, claim and
\* expire_manifest touches.
SameBooks ==
    /\ pool'.liability = pool.liability /\ pool'.credited = pool.credited
    /\ pool'.paid = pool.paid /\ pool'.latest = pool.latest
    /\ pool'.campaigns = pool.campaigns /\ pool'.manifests = pool.manifests
    /\ pool'.escrow = pool.escrow

RoleNext ==
    \/ pool_pause \/ pool_unpause
    \/ \E account \in PoolNominees :
          pool_propose_governance(account) \/ propose_eligibility_authority(account)
    \/ pool_accept_governance \/ accept_eligibility_authority

\* A credit in the middle of some invocation.
CreditStep ==
    /\ PoolEnvironment /\ clawed' = clawed
    /\ CreditedBetween(balance[Self], balance'[Self])

\* The listed allocations and the manifests that hold them.
LEMMA ListedLemma ==
    ASSUME PoolTypeOK, Orderly
    PROVE  /\ IsFiniteSet(Listed)
           /\ \A k \in Listed : k = <<k[1], k[2]>> /\ k[1] \in ManifestIds /\ k[2] \in 1..MAX_ALLOCATIONS
           /\ \A m \in ManifestIds : \A i \in DOMAIN pool.manifests[m].allocations :
                 <<m, i>> \in Listed
           /\ \A K \in SUBSET Listed : IsFiniteSet(K) /\ AmountsOf(K) \in [K -> Nat]
  <1>1. IsFiniteSet(1..MAX_ALLOCATIONS) /\ IsFiniteSet(ManifestIds)
    BY PoolAssumption, FS_Interval
  <1>2. IsFiniteSet(ManifestIds \X (1..MAX_ALLOCATIONS))
    BY <1>1, FS_Product
  <1>3. Listed \subseteq ManifestIds \X (1..MAX_ALLOCATIONS)
    BY DEF Listed
  <1>4. IsFiniteSet(Listed)
    BY <1>2, <1>3, FS_Subset
  <1>5. ASSUME NEW m \in ManifestIds, NEW i \in DOMAIN pool.manifests[m].allocations
        PROVE  <<m, i>> \in Listed
    <2>0. pool.manifests[m] \in Manifests
      BY DEF PoolTypeOK
    <2>1. pool.manifests[m].allocations \in Seq(Allocations)
      BY <2>0 DEF Manifests
    <2>2. Len(pool.manifests[m].allocations) <= MAX_ALLOCATIONS
      BY <2>1, PoolAssumption DEF Orderly, NoManifest
    <2>3. i \in 1..MAX_ALLOCATIONS
      BY <2>1, <2>2, PoolAssumption
    <2>. QED  BY <2>3 DEF Listed
  <1>6. ASSUME NEW K \in SUBSET Listed
        PROVE  IsFiniteSet(K) /\ AmountsOf(K) \in [K -> Nat]
    <2>1. IsFiniteSet(K)
      BY <1>4, FS_Subset
    <2>2. ASSUME NEW k \in K
          PROVE  pool.manifests[k[1]].allocations[k[2]].amount \in Nat
      <3>1. k[1] \in ManifestIds /\ k[2] \in DOMAIN pool.manifests[k[1]].allocations
        BY DEF Listed
      <3>2. pool.manifests[k[1]] \in Manifests
        BY <3>1 DEF PoolTypeOK
      <3>3. pool.manifests[k[1]].allocations \in Seq(Allocations)
        BY <3>2 DEF Manifests
      <3>4. pool.manifests[k[1]].allocations[k[2]] \in Allocations
        BY <3>1, <3>3
      <3>. QED  BY <3>4 DEF Allocations
    <2>. QED  BY <2>1, <2>2 DEF AmountsOf
  <1>. QED  BY <1>3, <1>4, <1>5, <1>6

\* What a set of listed allocations is worth, and how a part of it counts.
LEMMA AmountsLemma ==
    ASSUME PoolTypeOK, Orderly, NEW K \in SUBSET Listed, NEW A \in SUBSET K
    PROVE  /\ Total(AmountsOf(K)) \in Nat /\ Total(AmountsOf(A)) \in Nat
           /\ Total(AmountsOf(K \ A)) \in Nat
           /\ Total(AmountsOf(K)) = Total(AmountsOf(A)) + Total(AmountsOf(K \ A))
  <1>1. IsFiniteSet(K) /\ AmountsOf(K) \in [K -> Nat]
    BY ListedLemma
  <1>2. AmountsOf(A) = [k \in A |-> AmountsOf(K)[k]]
    BY DEF AmountsOf
  <1>3. AmountsOf(K \ A) = [k \in K \ A |-> AmountsOf(K)[k]]
    BY DEF AmountsOf
  <1>. HIDE DEF AmountsOf
  <1>. QED  BY <1>1, <1>2, <1>3, TotalUnion

\* What one listed allocation is worth.
LEMMA AmountLemma ==
    ASSUME PoolTypeOK, Orderly, NEW m \in ManifestIds,
           NEW i \in DOMAIN pool.manifests[m].allocations
    PROVE  /\ Total(AmountsOf({<<m, i>>})) = pool.manifests[m].allocations[i].amount
           /\ pool.manifests[m].allocations[i].amount \in Nat
           /\ pool.manifests[m].allocations[i].recipient \in Holders
  <1>1. {<<m, i>>} \subseteq Listed
    BY ListedLemma
  <1>2. AmountsOf({<<m, i>>}) \in [{<<m, i>>} -> Nat]
    BY <1>1, ListedLemma
  <1>3. AmountsOf({<<m, i>>})[<<m, i>>] = pool.manifests[m].allocations[i].amount
    BY DEF AmountsOf
  <1>4. pool.manifests[m].allocations[i] \in Allocations
    <2>1. pool.manifests[m] \in Manifests
      BY DEF PoolTypeOK
    <2>2. pool.manifests[m].allocations \in Seq(Allocations)
      BY <2>1 DEF Manifests
    <2>. QED  BY <2>2
  <1>. QED  BY <1>2, <1>3, <1>4, TotalSingle DEF Allocations

\* The roles and the pause switch keep the books, and presuppose initialize.
LEMMA RoleLemma ==
    ASSUME PoolTypeOK, RoleNext
    PROVE  /\ PoolTypeOK' /\ SameBooks /\ UNCHANGED ledgerVars
           /\ poolInitialized /\ poolInitialized'
  <1>0. LedgerTypeOK /\ signing \subseteq Accounts /\ None \notin Accounts
    BY PoolAssumption DEF PoolTypeOK, LedgerTypeOK, Holders
  <1>1. ASSUME UNCHANGED ledgerVars
        PROVE  LedgerTypeOK'
    BY <1>0, <1>1 DEF LedgerTypeOK, ledgerVars
  <1>2. CASE pool_pause \/ pool_unpause
    BY <1>1, <1>2 DEF pool_pause, pool_unpause, PoolTypeOK, SameBooks, poolInitialized
  <1>3. ASSUME NEW account \in PoolNominees,
               pool_propose_governance(account) \/ propose_eligibility_authority(account)
        PROVE  /\ PoolTypeOK' /\ SameBooks /\ UNCHANGED ledgerVars
               /\ poolInitialized /\ poolInitialized'
    <2>1. account \in Holders
      BY PoolAssumption
    <2>. QED
      BY <1>1, <1>3, <2>1
      DEF pool_propose_governance, propose_eligibility_authority, PoolTypeOK, SameBooks,
          poolInitialized
  <1>4. CASE pool_accept_governance
    BY <1>0, <1>1, <1>4
    DEF pool_accept_governance, require_auth, PoolTypeOK, SameBooks, poolInitialized
  <1>5. CASE accept_eligibility_authority
    BY <1>0, <1>1, <1>5
    DEF accept_eligibility_authority, require_auth, PoolTypeOK, SameBooks, poolInitialized
  <1>. QED  BY <1>2, <1>3, <1>4, <1>5 DEF RoleNext

\* The books stay when the manifests and the two totals do.
LEMMA PoolBooksFrame ==
    ASSUME PoolBooks, pool'.manifests = pool.manifests, pool'.liability = pool.liability,
           pool'.paid = pool.paid
    PROVE  PoolBooks'
  <1>1. Listed' = Listed
    BY DEF Listed
  <1>2. Claimed' = Claimed
    BY <1>1 DEF Claimed, IsClaimed
  <1>3. Reserved' = Reserved
    BY <1>1 DEF Reserved, IsReserved, IsClaimed
  <1>4. AmountsOf(Reserved)' = AmountsOf(Reserved)
    BY <1>3 DEF AmountsOf
  <1>5. AmountsOf(Claimed)' = AmountsOf(Claimed)
    BY <1>2 DEF AmountsOf
  <1>6. \A m \in ManifestIds :
          AmountsOf({k \in Reserved : k[1] = m})' = AmountsOf({k \in Reserved : k[1] = m})
    BY <1>3 DEF AmountsOf
  <1>7. LiabilityIsReserved'
    BY <1>4 DEF PoolBooks, LiabilityIsReserved
  <1>8. PaidIsClaimed'
    BY <1>5 DEF PoolBooks, PaidIsClaimed
  <1>9. ManifestBooks'
    <2>1. ASSUME NEW m \in ManifestIds
          PROVE  RemainingIsReserved(m)'
      BY <1>6 DEF PoolBooks, ManifestBooks, RemainingIsReserved
    <2>2. ASSUME NEW m \in ManifestIds
          PROVE  WellPublished(m)'
      BY DEF PoolBooks, ManifestBooks, WellPublished, IsClaimed
    <2>. QED  BY <2>1, <2>2 DEF ManifestBooks
  <1>. QED  BY <1>7, <1>8, <1>9 DEF PoolBooks

LEMMA PoolInvFrame ==
    ASSUME PoolInv, PoolTypeOK', SameBooks, poolInitialized' <=> poolInitialized
    PROVE  PoolInv'
  <1>1. Orderly'
    BY DEF PoolInv, Orderly, SameBooks
  <1>2. PoolBooks'
    BY PoolBooksFrame DEF PoolInv, SameBooks
  <1>. QED  BY <1>1, <1>2 DEF PoolInv

\* initialize configures a pool that has no books yet.
LEMMA InitializeLemma ==
    ASSUME PoolInv, NEW gov, NEW elig, NEW escrow \in PoolEscrows, NEW deployer,
           pool_initialize(gov, elig, escrow, deployer)
    PROVE  /\ PoolInv' /\ UNCHANGED ledgerVars
           /\ poolInitialized' /\ ~poolInitialized
           /\ pool'.manifests = pool.manifests /\ pool'.campaigns = {}
           /\ pool'.liability = 0 /\ pool'.credited = 0 /\ pool'.paid = 0
           /\ pool.liability = 0 /\ pool.credited = 0 /\ pool.paid = 0
           /\ pool'.escrow = escrow
  <1>0. /\ signing \subseteq Accounts /\ None \notin Accounts /\ None \notin PoolEscrows
        /\ gov \in signing /\ elig \in signing
    BY PoolAssumption DEF PoolInv, PoolTypeOK, LedgerTypeOK, Holders, pool_initialize, require_auth
  <1>1. /\ UNCHANGED ledgerVars /\ ~poolInitialized
        /\ pool.liability = 0 /\ pool.credited = 0 /\ pool.paid = 0 /\ pool.campaigns = {}
    BY DEF pool_initialize, PoolInv, Orderly
  <1>2. LedgerTypeOK'
    BY <1>1 DEF ledgerVars, LedgerTypeOK, PoolInv, PoolTypeOK
  <1>3. PoolTypeOK'
    BY <1>0, <1>2 DEF pool_initialize, PoolInv, PoolTypeOK
  <1>4. /\ pool'.manifests = pool.manifests /\ pool'.campaigns = pool.campaigns
        /\ pool'.liability = 0 /\ pool'.credited = 0 /\ pool'.paid = 0
        /\ pool'.escrow = escrow /\ pool'.governance = gov
    BY DEF pool_initialize, PoolInv, PoolTypeOK
  <1>5. poolInitialized'
    BY <1>0, <1>4 DEF poolInitialized
  <1>6. Orderly'
    BY <1>0, <1>1, <1>4, <1>5 DEF PoolInv, Orderly
  <1>7. PoolBooks'
    BY <1>1, <1>4, PoolBooksFrame DEF PoolInv
  <1>. QED  BY <1>1, <1>3, <1>4, <1>5, <1>6, <1>7 DEF PoolInv

\* A credit adds one campaign and its amount, and the pool holds what is
\* outstanding then.
LEMMA CreditLemma ==
    ASSUME PoolInv, CreditStep
    PROVE  /\ PoolInv' /\ (poolInitialized' <=> poolInitialized) /\ signing' = signing
           /\ pool'.manifests = pool.manifests /\ pool'.escrow = pool.escrow
           /\ pool'.governance = pool.governance /\ pool'.eligibility = pool.eligibility
           /\ pool'.liability = pool.liability /\ pool'.paid = pool.paid
           /\ pool'.credited > pool.credited
           /\ pool'.credited - pool.paid <= balance'[Self]
           /\ \E c \in CreditIds \ pool.campaigns : pool'.campaigns = pool.campaigns \cup {c}
  <1>0. PoolTypeOK /\ LedgerTypeOK' /\ Self \in Holders
    BY PoolAssumption DEF PoolInv, CreditStep, PoolEnvironment, Holders
  <1>1. balance[Self] \in Nat /\ balance'[Self] \in Nat
    BY <1>0 DEF PoolTypeOK, LedgerTypeOK
  <1>2. PICK c \in CreditIds : \E held \in balance[Self]..balance'[Self] :
           record_credit(c, pool'.credited - pool.credited, pool.escrow, held)
    BY DEF CreditStep, CreditedBetween
  <1>3. PICK held \in balance[Self]..balance'[Self] :
           record_credit(c, pool'.credited - pool.credited, pool.escrow, held)
    BY <1>2
  <1>4. pool'.credited \in Nat /\ signing' = signing
    BY DEF CreditStep, CreditedBetween, PoolEnvironment
  <1>5. /\ pool' = [pool EXCEPT !.campaigns = pool.campaigns \cup {c},
                                !.credited = pool.credited + (pool'.credited - pool.credited)]
        /\ c \notin pool.campaigns /\ poolInitialized
        /\ pool'.credited - pool.credited > 0
        /\ pool.credited - pool.paid + (pool'.credited - pool.credited) <= held
    BY <1>3 DEF record_credit, NotCredited, Covered, Outstanding
  <1>6. pool.credited \in Nat /\ pool.paid \in Nat
    BY <1>0 DEF PoolTypeOK
  <1>7. /\ pool'.manifests = pool.manifests /\ pool'.escrow = pool.escrow
        /\ pool'.governance = pool.governance /\ pool'.eligibility = pool.eligibility
        /\ pool'.liability = pool.liability /\ pool'.paid = pool.paid
        /\ pool'.latest = pool.latest /\ pool'.campaigns = pool.campaigns \cup {c}
    BY <1>0, <1>5 DEF PoolTypeOK
  <1>8. PoolTypeOK'
    <2>1. PICK sum \in Nat : sum = pool'.credited
      BY <1>4
    <2>2. pool' = [pool EXCEPT !.campaigns = pool.campaigns \cup {c}, !.credited = sum]
      BY <1>4, <1>5, <1>6, <2>1
    <2>3. pool.campaigns \cup {c} \in SUBSET CreditIds
      BY <1>0 DEF PoolTypeOK
    <2>. QED  BY <1>0, <2>2, <2>3 DEF PoolTypeOK
  <1>9. poolInitialized' <=> poolInitialized
    BY <1>7 DEF poolInitialized
  <1>10. Orderly'
    BY <1>5, <1>7, <1>9 DEF PoolInv, Orderly
  <1>11. PoolBooks'
    BY <1>7, PoolBooksFrame DEF PoolInv
  <1>12. pool'.credited > pool.credited /\ pool'.credited - pool.paid <= balance'[Self]
    BY <1>1, <1>4, <1>5, <1>6
  <1>. QED  BY <1>4, <1>5, <1>7, <1>8, <1>9, <1>10, <1>11, <1>12 DEF PoolInv

\* The amounts of the listed allocations never change: what they add up to after
\* claim and expire_manifest is told by the sets alone.
LEMMA AmountsKept ==
    ASSUME \A n \in ManifestIds :
             /\ DOMAIN pool'.manifests[n].allocations = DOMAIN pool.manifests[n].allocations
             /\ \A i \in DOMAIN pool.manifests[n].allocations :
                  pool'.manifests[n].allocations[i].amount = pool.manifests[n].allocations[i].amount
    PROVE  /\ Listed' = Listed
           /\ AmountsOf(Reserved)' = AmountsOf(Reserved')
           /\ AmountsOf(Claimed)' = AmountsOf(Claimed')
           /\ \A n \in ManifestIds :
                AmountsOf({k \in Reserved : k[1] = n})' = AmountsOf({k \in Reserved' : k[1] = n})
  <1>1. Listed' = Listed
    BY DEF Listed
  <1>2. \A k \in Listed :
          pool'.manifests[k[1]].allocations[k[2]].amount = pool.manifests[k[1]].allocations[k[2]].amount
    BY DEF Listed
  <1>3. Reserved' \subseteq Listed /\ Claimed' \subseteq Listed
    BY <1>1 DEF Reserved, Claimed
  <1>4. AmountsOf(Reserved)' = AmountsOf(Reserved')
    BY <1>2, <1>3 DEF AmountsOf
  <1>5. AmountsOf(Claimed)' = AmountsOf(Claimed')
    BY <1>2, <1>3 DEF AmountsOf
  <1>6. ASSUME NEW n \in ManifestIds
        PROVE  AmountsOf({k \in Reserved : k[1] = n})' = AmountsOf({k \in Reserved' : k[1] = n})
    BY <1>2, <1>3 DEF AmountsOf
  <1>. QED  BY <1>1, <1>4, <1>5, <1>6

\* expire_manifest releases exactly what its manifest still reserves.
LEMMA ExpireLemma ==
    ASSUME PoolInv, NEW m \in ManifestIds, expire_manifest(m)
    PROVE  /\ PoolInv' /\ UNCHANGED ledgerVars /\ poolInitialized /\ poolInitialized'
           /\ pool.manifests[m].status = "Active"
           /\ pool'.manifests =
                [pool.manifests EXCEPT ![m] = [@ EXCEPT !.remaining = 0, !.status = "Expired"]]
           /\ pool'.manifests[m].status = "Expired"
           /\ pool'.liability <= pool.liability
           /\ pool'.credited = pool.credited /\ pool'.paid = pool.paid
           /\ pool'.governance = pool.governance /\ pool'.eligibility = pool.eligibility
           /\ pool'.campaigns = pool.campaigns /\ pool'.escrow = pool.escrow
  <1>. DEFINE old == pool.manifests[m]
              mine == {k \in Reserved : k[1] = m}
  <1>0. PoolTypeOK /\ Orderly /\ PoolBooks
    BY DEF PoolInv
  <1>1. /\ UNCHANGED ledgerVars /\ poolInitialized /\ old.status = "Active"
        /\ old.remaining <= pool.liability
        /\ pool' = [pool EXCEPT
              !.manifests = [pool.manifests EXCEPT
                               ![m] = [old EXCEPT !.remaining = 0, !.status = "Expired"]],
              !.liability = pool.liability - old.remaining]
    BY DEF expire_manifest
  <1>2. /\ pool'.manifests =
              [pool.manifests EXCEPT ![m] = [old EXCEPT !.remaining = 0, !.status = "Expired"]]
        /\ pool'.liability = pool.liability - old.remaining
        /\ pool'.paid = pool.paid /\ pool'.credited = pool.credited /\ pool'.latest = pool.latest
        /\ pool'.governance = pool.governance /\ pool'.eligibility = pool.eligibility
        /\ pool'.escrow = pool.escrow /\ pool'.campaigns = pool.campaigns
    BY <1>0, <1>1 DEF PoolTypeOK
  <1>3. /\ pool.manifests \in [ManifestIds -> Manifests] /\ old \in Manifests
        /\ pool.liability \in Nat
    BY <1>0 DEF PoolTypeOK
  <1>4. /\ pool'.manifests[m].remaining = 0 /\ pool'.manifests[m].status = "Expired"
        /\ pool'.manifests[m].allocations = old.allocations
        /\ \A n \in ManifestIds \ {m} : pool'.manifests[n] = pool.manifests[n]
    BY <1>2, <1>3 DEF Manifests
  <1>5. PoolTypeOK'
    <2>1. LedgerTypeOK'
      BY <1>0, <1>1 DEF PoolTypeOK, LedgerTypeOK, ledgerVars
    <2>2. [old EXCEPT !.remaining = 0, !.status = "Expired"] \in Manifests
      BY <1>3 DEF Manifests
    <2>3. [pool.manifests EXCEPT ![m] = [old EXCEPT !.remaining = 0, !.status = "Expired"]]
             \in [ManifestIds -> Manifests]
      BY <1>3, <2>2
    <2>4. pool.liability - old.remaining \in Nat /\ old.remaining \in Nat
      BY <1>1, <1>3 DEF Manifests
    <2>. HIDE DEF old
    <2>. QED  BY <1>0, <1>1, <2>1, <2>3, <2>4 DEF PoolTypeOK
  <1>6. poolInitialized'
    BY <1>1, <1>2 DEF poolInitialized
  <1>7. Orderly'
    <2>1. ASSUME NEW n \in ManifestIds
          PROVE  IF pool'.manifests[n].status = "Absent"
                 THEN pool'.manifests[n] = NoManifest
                 ELSE n <= pool'.latest /\ Len(pool'.manifests[n].allocations) \in 1..MAX_ALLOCATIONS
      BY <1>0, <1>1, <1>2, <1>4 DEF Orderly
    <2>. QED  BY <1>0, <1>1, <1>2, <1>6, <2>1 DEF Orderly
  <1>8. /\ Listed' = Listed
        /\ AmountsOf(Reserved)' = AmountsOf(Reserved')
        /\ AmountsOf(Claimed)' = AmountsOf(Claimed')
        /\ \A n \in ManifestIds :
             AmountsOf({k \in Reserved : k[1] = n})' = AmountsOf({k \in Reserved' : k[1] = n})
    BY <1>4, AmountsKept
  <1>a. ASSUME NEW k \in Listed
        PROVE  /\ IsClaimed(k[1], k[2])' <=> IsClaimed(k[1], k[2])
               /\ IsReserved(k[1], k[2])' <=> IsReserved(k[1], k[2]) /\ k[1] # m
    <2>1. k[1] \in ManifestIds
      BY <1>0, ListedLemma
    <2>2. CASE k[1] = m
      BY <1>4, <2>2 DEF IsReserved, IsClaimed
    <2>3. CASE k[1] # m
      BY <1>4, <2>1, <2>3 DEF IsReserved, IsClaimed
    <2>. QED  BY <2>2, <2>3
  <1>9. Claimed' = Claimed
    BY <1>8, <1>a DEF Claimed
  <1>10. Reserved' = Reserved \ mine
    BY <1>8, <1>a DEF Reserved
  <1>11. mine \subseteq Reserved /\ Reserved \subseteq Listed
    BY DEF Reserved
  <1>12. old.remaining = Total(AmountsOf(mine)) /\ pool.liability = Total(AmountsOf(Reserved))
    BY <1>0 DEF PoolBooks, LiabilityIsReserved, ManifestBooks, RemainingIsReserved
  <1>13. LiabilityIsReserved'
    <2>1. /\ Total(AmountsOf(mine)) \in Nat /\ Total(AmountsOf(Reserved \ mine)) \in Nat
          /\ Total(AmountsOf(Reserved)) = Total(AmountsOf(mine)) + Total(AmountsOf(Reserved \ mine))
      BY <1>0, <1>11, AmountsLemma
    <2>. HIDE DEF old, mine
    <2>. QED  BY <1>2, <1>8, <1>10, <1>12, <2>1 DEF LiabilityIsReserved
  <1>14. PaidIsClaimed'
    BY <1>0, <1>2, <1>8, <1>9 DEF PoolBooks, PaidIsClaimed
  <1>15. ASSUME NEW n \in ManifestIds
         PROVE  RemainingIsReserved(n)'
    <2>1. CASE n = m
      <3>1. {k \in Reserved' : k[1] = m} = {}
        BY <1>10
      <3>2. DOMAIN AmountsOf({}) = {}
        BY DEF AmountsOf
      <3>3. Total(AmountsOf({})) = 0
        BY <3>2, TotalEmpty
      <3>. QED  BY <1>4, <1>8, <2>1, <3>1, <3>3 DEF RemainingIsReserved
    <2>2. CASE n # m
      <3>1. {k \in Reserved' : k[1] = n} = {k \in Reserved : k[1] = n}
        BY <1>10, <2>2
      <3>. QED
        BY <1>0, <1>4, <1>8, <2>2, <3>1 DEF PoolBooks, ManifestBooks, RemainingIsReserved
    <2>. QED  BY <2>1, <2>2
  <1>16. ASSUME NEW n \in ManifestIds
         PROVE  WellPublished(n)'
    BY <1>0, <1>1, <1>4 DEF PoolBooks, ManifestBooks, WellPublished, IsClaimed
  <1>17. PoolBooks'
    BY <1>13, <1>14, <1>15, <1>16 DEF PoolBooks, ManifestBooks
  <1>18. pool'.liability <= pool.liability
    BY <1>1, <1>2, <1>3 DEF Manifests
  <1>. QED  BY <1>1, <1>2, <1>4, <1>5, <1>6, <1>7, <1>17, <1>18 DEF PoolInv

\* The manifest after a claim: only the claimed flag, the remainder and, with the
\* last claim, the status change.
LEMMA AfterClaimLemma ==
    ASSUME NEW old \in Manifests, NEW i \in DOMAIN old.allocations,
           old.allocations[i].amount <= old.remaining
    PROVE  LET new == AfterClaim(old, i)
               left == old.remaining - old.allocations[i].amount
           IN  /\ new \in Manifests
               /\ new.total = old.total /\ new.expires_at = old.expires_at /\ new.remaining = left
               /\ new.status = IF left = 0 THEN "Completed" ELSE old.status
               /\ DOMAIN new.allocations = DOMAIN old.allocations
               /\ Len(new.allocations) = Len(old.allocations)
               /\ new.allocations[i] = [old.allocations[i] EXCEPT !.claimed = TRUE]
               /\ new.allocations[i].claimed
               /\ \A j \in DOMAIN old.allocations \ {i} : new.allocations[j] = old.allocations[j]
               /\ \A j \in DOMAIN old.allocations :
                    /\ new.allocations[j].amount = old.allocations[j].amount
                    /\ new.allocations[j].recipient = old.allocations[j].recipient
  <1>. DEFINE new == AfterClaim(old, i)
              left == old.remaining - old.allocations[i].amount
              paid == [old.allocations[i] EXCEPT !.claimed = TRUE]
  <1>1. /\ old.allocations \in Seq(Allocations) /\ old.remaining \in Nat
        /\ old.total \in Nat /\ old.expires_at \in Nat
        /\ old.status \in {"Absent", "Active", "Completed", "Expired"}
    BY DEF Manifests
  <1>2. old.allocations[i] \in Allocations
    BY <1>1
  <1>3. /\ paid \in Allocations /\ paid.claimed
        /\ paid.amount = old.allocations[i].amount /\ paid.recipient = old.allocations[i].recipient
    BY <1>2 DEF Allocations
  <1>4. left \in Nat
    BY <1>1, <1>2 DEF Allocations
  <1>5. [old.allocations EXCEPT ![i] = paid] \in Seq(Allocations)
    BY <1>1, <1>3
  <1>6. new = [old EXCEPT !.allocations = [old.allocations EXCEPT ![i] = paid],
                          !.remaining = left,
                          !.status = IF left = 0 THEN "Completed" ELSE old.status]
    BY <1>1 DEF AfterClaim, Manifests
  <1>7. /\ new.allocations = [old.allocations EXCEPT ![i] = paid]
        /\ new.remaining = left /\ new.total = old.total /\ new.expires_at = old.expires_at
        /\ new.status = IF left = 0 THEN "Completed" ELSE old.status
    BY <1>6 DEF Manifests
  <1>8. new \in Manifests
    BY <1>4, <1>5, <1>6 DEF Manifests
  <1>. HIDE DEF new, left, paid
  <1>9. /\ DOMAIN new.allocations = DOMAIN old.allocations
        /\ Len(new.allocations) = Len(old.allocations)
        /\ new.allocations[i] = paid
        /\ \A j \in DOMAIN old.allocations \ {i} : new.allocations[j] = old.allocations[j]
    BY <1>1, <1>7
  <1>. QED  BY <1>3, <1>7, <1>8, <1>9 DEF new, left, paid

\* claim pays one reserved allocation to its recipient and takes it off the books.
LEMMA ClaimLemma ==
    ASSUME PoolInv, NEW m \in ManifestIds, NEW i, claim(m, i)
    PROVE  LET old == pool.manifests[m]
               a == old.allocations[i].amount
               to == old.allocations[i].recipient
           IN  /\ PoolInv' /\ poolInitialized /\ poolInitialized' /\ ~pool.paused
               /\ UNCHANGED <<now, signing, authorized, clawed>>
               /\ i \in DOMAIN old.allocations /\ IsReserved(m, i) /\ ~ManifestExpired(m)
               /\ a \in Nat /\ a <= pool.liability /\ to \in signing /\ to \in Holders \ {Self}
               /\ a <= old.remaining
               /\ pool'.manifests = [pool.manifests EXCEPT ![m] = AfterClaim(old, i)]
               /\ pool'.liability = pool.liability - a /\ pool'.paid = pool.paid + a
               /\ pool'.credited = pool.credited /\ pool'.campaigns = pool.campaigns
               /\ pool'.governance = pool.governance /\ pool'.eligibility = pool.eligibility
               /\ pool'.escrow = pool.escrow
               /\ balance' = Transfer(balance, Self, to, a)
               /\ balance'[Self] = balance[Self] - a /\ balance'[to] = balance[to] + a
  <1>. DEFINE old == pool.manifests[m]
              a == old.allocations[i].amount
              to == old.allocations[i].recipient
              new == AfterClaim(old, i)
              x == <<m, i>>
              mine == {k \in Reserved : k[1] = m}
  <1>0. PoolTypeOK /\ Orderly /\ PoolBooks /\ LedgerTypeOK
    BY DEF PoolInv, PoolTypeOK
  <1>1. /\ poolInitialized /\ ~pool.paused
        /\ i \in DOMAIN old.allocations /\ IsReserved(m, i) /\ ~ManifestExpired(m)
        /\ old.status = "Active" /\ ~IsClaimed(m, i)
        /\ a <= pool.liability /\ to \in signing
        /\ CanTransfer(balance, Self, to, a)
        /\ pool' = [pool EXCEPT !.manifests = [pool.manifests EXCEPT ![m] = new],
                                !.liability = pool.liability - a, !.paid = pool.paid + a]
        /\ balance' = Transfer(balance, Self, to, a)
        /\ UNCHANGED <<now, signing, authorized, clawed>>
    BY DEF claim, Claimable, IsReserved, IsClaimed, require_auth
  <1>2. /\ pool.manifests \in [ManifestIds -> Manifests] /\ old \in Manifests
        /\ pool.liability \in Nat /\ pool.paid \in Nat
        /\ a \in Nat /\ Total(AmountsOf({x})) = a
    BY <1>0, <1>1, AmountLemma DEF PoolTypeOK
  <1>3. to \in Holders \ {Self} /\ Self \in Holders
    BY <1>0, <1>1, PoolAssumption, AddressAssumption DEF LedgerTypeOK, Holders
  <1>4. /\ balance' \in [Holders -> Nat]
        /\ balance'[Self] = balance[Self] - a /\ balance'[to] = balance[to] + a
    <2>1. a \in Int
      BY <1>2
    <2>. HIDE DEF a, to
    <2>. QED  BY <1>0, <1>1, <1>3, <2>1, PoolTransferLemma
  <1>5. LedgerTypeOK'
    BY <1>0, <1>1, <1>4 DEF LedgerTypeOK
  <1>6. x \in Reserved /\ x \in mine /\ mine \subseteq Reserved /\ Reserved \subseteq Listed
    <2>1. x \in Listed
      BY <1>0, <1>1, ListedLemma
    <2>. QED  BY <1>1, <2>1 DEF Reserved
  <1>7. /\ old.remaining = Total(AmountsOf(mine)) /\ pool.liability = Total(AmountsOf(Reserved))
        /\ pool.paid = Total(AmountsOf(Claimed))
    BY <1>0 DEF PoolBooks, LiabilityIsReserved, ManifestBooks, RemainingIsReserved, PaidIsClaimed
  <1>8. /\ Total(AmountsOf(mine \ {x})) \in Nat /\ Total(AmountsOf(Reserved \ {x})) \in Nat
        /\ old.remaining = a + Total(AmountsOf(mine \ {x}))
        /\ pool.liability = a + Total(AmountsOf(Reserved \ {x}))
    <2>1. /\ Total(AmountsOf(mine)) = Total(AmountsOf({x})) + Total(AmountsOf(mine \ {x}))
          /\ Total(AmountsOf(mine \ {x})) \in Nat
      <3>1. mine \in SUBSET Listed /\ {x} \in SUBSET mine
        BY <1>6
      <3>. HIDE DEF mine, x
      <3>. QED  BY <1>0, <3>1, AmountsLemma
    <2>2. /\ Total(AmountsOf(Reserved)) = Total(AmountsOf({x})) + Total(AmountsOf(Reserved \ {x}))
          /\ Total(AmountsOf(Reserved \ {x})) \in Nat
      <3>1. Reserved \in SUBSET Listed /\ {x} \in SUBSET Reserved
        BY <1>6
      <3>. HIDE DEF x
      <3>. QED  BY <1>0, <3>1, AmountsLemma
    <2>. QED  BY <1>2, <1>7, <2>1, <2>2
  <1>9. a <= old.remaining
    BY <1>2, <1>8
  <1>10. /\ new \in Manifests
         /\ new.total = old.total /\ new.expires_at = old.expires_at
         /\ new.remaining = old.remaining - a
         /\ new.status = IF old.remaining - a = 0 THEN "Completed" ELSE old.status
         /\ DOMAIN new.allocations = DOMAIN old.allocations
         /\ Len(new.allocations) = Len(old.allocations)
         /\ new.allocations[i].claimed
         /\ \A j \in DOMAIN old.allocations \ {i} : new.allocations[j] = old.allocations[j]
         /\ \A j \in DOMAIN old.allocations :
              /\ new.allocations[j].amount = old.allocations[j].amount
              /\ new.allocations[j].recipient = old.allocations[j].recipient
    BY <1>1, <1>2, <1>9, AfterClaimLemma, ZenonT(40)
  <1>11. /\ pool'.manifests = [pool.manifests EXCEPT ![m] = new]
         /\ pool'.liability = pool.liability - a /\ pool'.paid = pool.paid + a
         /\ pool'.credited = pool.credited /\ pool'.campaigns = pool.campaigns
         /\ pool'.governance = pool.governance /\ pool'.eligibility = pool.eligibility
         /\ pool'.escrow = pool.escrow /\ pool'.latest = pool.latest
    <2>. HIDE DEF new, a
    <2>. QED  BY <1>0, <1>1 DEF PoolTypeOK
  <1>12. /\ pool'.manifests[m] = new
         /\ \A n \in ManifestIds \ {m} : pool'.manifests[n] = pool.manifests[n]
    BY <1>2, <1>11
  <1>13. PoolTypeOK'
    <2>1. pool.liability - a \in Nat /\ pool.paid + a \in Nat
      <3>1. a \in Nat /\ a <= pool.liability /\ pool.liability \in Nat /\ pool.paid \in Nat
        BY <1>1, <1>2
      <3>. HIDE DEF a
      <3>. QED  BY <3>1
    <2>2. [pool.manifests EXCEPT ![m] = new] \in [ManifestIds -> Manifests]
      BY <1>2, <1>10
    <2>. HIDE DEF new, a
    <2>. QED  BY <1>0, <1>1, <1>5, <2>1, <2>2 DEF PoolTypeOK
  <1>14. poolInitialized'
    BY <1>1, <1>11 DEF poolInitialized
  <1>. HIDE DEF new
  <1>15. Orderly'
    <2>1. ASSUME NEW n \in ManifestIds
          PROVE  IF pool'.manifests[n].status = "Absent"
                 THEN pool'.manifests[n] = NoManifest
                 ELSE n <= pool'.latest /\ Len(pool'.manifests[n].allocations) \in 1..MAX_ALLOCATIONS
      <3>1. CASE n = m
        <4>1. n <= pool.latest /\ Len(old.allocations) \in 1..MAX_ALLOCATIONS
          BY <1>0, <1>1, <3>1 DEF Orderly
        <4>2. pool'.manifests[n] = new /\ new.status # "Absent"
          BY <1>1, <1>10, <1>12, <3>1
        <4>. QED  BY <1>10, <1>11, <4>1, <4>2
      <3>2. CASE n # m
        <4>1. pool'.manifests[n] = pool.manifests[n]
          BY <1>12, <3>2
        <4>. QED  BY <1>0, <1>11, <4>1 DEF Orderly
      <3>. QED  BY <3>1, <3>2
    <2>. QED  BY <1>0, <1>1, <1>11, <1>14, <2>1 DEF Orderly
  <1>16. /\ Listed' = Listed
         /\ AmountsOf(Reserved)' = AmountsOf(Reserved')
         /\ AmountsOf(Claimed)' = AmountsOf(Claimed')
         /\ \A n \in ManifestIds :
              AmountsOf({k \in Reserved : k[1] = n})' = AmountsOf({k \in Reserved' : k[1] = n})
    BY <1>10, <1>12, AmountsKept
  <1>17. old.remaining - a = 0 => mine = {x}
    <2>1. SUFFICES ASSUME old.remaining - a = 0
                   PROVE  mine \ {x} = {}
      BY <1>6
    <2>2. Total(AmountsOf(mine \ {x})) = 0
      BY <1>2, <1>8, <2>1
    <2>3. mine \ {x} \in SUBSET Listed
      BY <1>6
    <2>4. IsFiniteSet(mine \ {x}) /\ AmountsOf(mine \ {x}) \in [mine \ {x} -> Nat]
      BY <1>0, <2>3, ListedLemma
    <2>5. ASSUME NEW k \in mine \ {x}
          PROVE  AmountsOf(mine \ {x})[k] > 0
      <3>1. k \in Listed /\ k[1] = m /\ k[2] \in DOMAIN old.allocations
        BY <1>6 DEF Listed
      <3>2. old.allocations[k[2]].amount > 0
        BY <1>0, <1>1, <3>1 DEF PoolBooks, ManifestBooks, WellPublished
      <3>. QED  BY <3>1, <3>2 DEF AmountsOf
    <2>. HIDE DEF mine, x
    <2>. QED  BY <2>2, <2>4, <2>5, TotalPositive
  <1>18. ASSUME NEW k \in Listed
         PROVE  /\ IsClaimed(k[1], k[2])' <=> IsClaimed(k[1], k[2]) \/ k = x
                /\ IsReserved(k[1], k[2])' <=> IsReserved(k[1], k[2]) /\ k # x
    <2>1. k = <<k[1], k[2]>> /\ k[1] \in ManifestIds
      BY <1>0, ListedLemma
    <2>2. CASE k[1] # m
      BY <1>12, <2>1, <2>2 DEF IsReserved, IsClaimed
    <2>3. CASE k[1] = m /\ k[2] = i
      BY <1>10, <1>12, <2>1, <2>3 DEF IsReserved, IsClaimed
    <2>4. CASE k[1] = m /\ k[2] # i
      <3>1. k[2] \in DOMAIN old.allocations \ {i} /\ k # x
        BY <2>4 DEF Listed
      <3>2. new.allocations[k[2]] = old.allocations[k[2]]
        BY <1>10, <3>1
      <3>3. IsClaimed(k[1], k[2])' <=> IsClaimed(k[1], k[2])
        BY <1>12, <2>4, <3>2 DEF IsClaimed
      <3>4. CASE old.remaining - a = 0
        <4>1. k \notin mine
          BY <1>17, <3>1, <3>4
        <4>2. ~IsReserved(k[1], k[2])
          BY <2>4, <4>1 DEF Reserved
        <4>3. ~IsReserved(k[1], k[2])'
          BY <1>10, <1>12, <2>4, <3>4 DEF IsReserved
        <4>. QED  BY <3>1, <3>3, <4>2, <4>3
      <3>5. CASE old.remaining - a # 0
        <4>1. new.status = old.status
          BY <1>10, <3>5
        <4>. QED  BY <1>12, <2>4, <3>1, <3>3, <4>1 DEF IsReserved
      <3>. QED  BY <3>4, <3>5
    <2>. QED  BY <2>2, <2>3, <2>4
  <1>19. Claimed' = Claimed \cup {x} /\ x \notin Claimed
    BY <1>1, <1>6, <1>16, <1>18 DEF Claimed
  <1>20. Reserved' = Reserved \ {x}
    BY <1>16, <1>18 DEF Reserved
  <1>21. LiabilityIsReserved'
    BY <1>2, <1>8, <1>11, <1>16, <1>20 DEF LiabilityIsReserved
  <1>22. PaidIsClaimed'
    <2>1. Claimed' \in SUBSET Listed /\ {x} \in SUBSET Claimed' /\ Claimed' \ {x} = Claimed
      BY <1>6, <1>19 DEF Claimed
    <2>2. /\ Total(AmountsOf(Claimed')) = Total(AmountsOf({x})) + Total(AmountsOf(Claimed' \ {x}))
          /\ Total(AmountsOf(Claimed' \ {x})) \in Nat
      <3>. HIDE DEF x
      <3>. QED  BY <1>0, <2>1, AmountsLemma
    <2>3. Total(AmountsOf(Claimed')) = pool.paid + a
      <3>1. AmountsOf(Claimed' \ {x}) = AmountsOf(Claimed)
        BY <2>1
      <3>. HIDE DEF x, a
      <3>. QED  BY <1>2, <1>7, <2>2, <3>1
    <2>4. pool'.paid = Total(AmountsOf(Claimed)')
      BY <1>11, <1>16, <2>3
    <2>. QED  BY <2>4 DEF PaidIsClaimed
  <1>23. ASSUME NEW n \in ManifestIds
         PROVE  RemainingIsReserved(n)'
    <2>1. CASE n = m
      <3>1. {k \in Reserved' : k[1] = m} = mine \ {x}
        BY <1>20
      <3>2. new.remaining = Total(AmountsOf(mine \ {x}))
        <4>1. /\ new.remaining = old.remaining - a /\ a \in Nat
              /\ old.remaining = a + Total(AmountsOf(mine \ {x}))
              /\ Total(AmountsOf(mine \ {x})) \in Nat
          BY <1>2, <1>8, <1>10
        <4>. HIDE DEF old, a, mine, x
        <4>. QED  BY <4>1
      <3>. QED  BY <1>12, <1>16, <2>1, <3>1, <3>2 DEF RemainingIsReserved
    <2>2. CASE n # m
      <3>1. {k \in Reserved' : k[1] = n} = {k \in Reserved : k[1] = n}
        BY <1>20, <2>2
      <3>. QED
        BY <1>0, <1>12, <1>16, <2>2, <3>1 DEF PoolBooks, ManifestBooks, RemainingIsReserved
    <2>. QED  BY <2>1, <2>2
  <1>24. ASSUME NEW n \in ManifestIds
         PROVE  WellPublished(n)'
    <2>1. CASE n # m
      BY <1>0, <1>12, <2>1 DEF PoolBooks, ManifestBooks, WellPublished, IsClaimed
    <2>2. CASE n = m
      <3>1. new.status = "Completed" <=> mine = {x}
        <4>1. ASSUME mine = {x}
              PROVE  old.remaining - a = 0
          <5>1. old.remaining = a
            BY <1>2, <1>7, <4>1
          <5>. QED  BY <1>2, <5>1
        <4>. QED  BY <1>1, <1>10, <1>17, <4>1
      <3>2. mine = {x} <=> \A j \in DOMAIN old.allocations : new.allocations[j].claimed
        <4>1. ASSUME NEW j \in DOMAIN old.allocations
              PROVE  <<m, j>> \in mine <=> ~old.allocations[j].claimed
          <5>1. <<m, j>> \in Listed
            BY <1>0, ListedLemma
          <5>. QED  BY <1>1, <5>1 DEF Reserved, IsReserved, IsClaimed
        <4>2. \A k \in mine : k = <<m, k[2]>> /\ k[2] \in DOMAIN old.allocations
          <5>1. \A k \in mine : k \in Listed /\ k[1] = m
            BY <1>6
          <5>2. \A k \in Listed : k = <<k[1], k[2]>>
            BY <1>0, ListedLemma
          <5>. QED  BY <5>1, <5>2 DEF Listed
        <4>3. ASSUME mine = {x}, NEW j \in DOMAIN old.allocations
              PROVE  new.allocations[j].claimed
          <5>1. CASE j = i
            BY <1>10, <5>1
          <5>2. CASE j # i
            <6>1. <<m, j>> \notin mine
              BY <4>3, <5>2
            <6>. QED  BY <1>10, <4>1, <5>2, <6>1
          <5>. QED  BY <5>1, <5>2
        <4>4. ASSUME \A j \in DOMAIN old.allocations : new.allocations[j].claimed
              PROVE  mine = {x}
          <5>1. ASSUME NEW k \in mine
                PROVE  k = x
            <6>1. k[2] \in DOMAIN old.allocations /\ ~old.allocations[k[2]].claimed /\ k = <<m, k[2]>>
              BY <4>1, <4>2
            <6>2. k[2] = i
              BY <1>10, <4>4, <6>1
            <6>. QED  BY <6>1, <6>2
          <5>. HIDE DEF mine, x
          <5>. QED  BY <1>6, <5>1
        <4>. QED  BY <4>3, <4>4
      <3>3. new.status # "Absent" =>
              /\ new.status = "Completed" <=> (\A j \in DOMAIN new.allocations : new.allocations[j].claimed)
              /\ \A j, k \in DOMAIN new.allocations :
                   /\ new.allocations[j].amount > 0
                   /\ j # k => new.allocations[j].recipient # new.allocations[k].recipient
        <4>1. \A j, k \in DOMAIN old.allocations :
                /\ old.allocations[j].amount > 0
                /\ j # k => old.allocations[j].recipient # old.allocations[k].recipient
          BY <1>0, <1>1 DEF PoolBooks, ManifestBooks, WellPublished
        <4>. HIDE DEF mine, x, old
        <4>. QED  BY <1>10, <3>1, <3>2, <4>1
      <3>. QED  BY <1>12, <2>2, <3>3 DEF WellPublished, IsClaimed
    <2>. QED  BY <2>1, <2>2
  <1>25. PoolBooks'
    BY <1>21, <1>22, <1>23, <1>24 DEF PoolBooks, ManifestBooks
  <1>26. PoolInv'
    BY <1>13, <1>15, <1>25 DEF PoolInv
  <1>. QED  BY <1>1, <1>2, <1>3, <1>4, <1>9, <1>11, <1>14, <1>26 DEF new

\* The manifest that publish_manifest writes.
LEMMA UnclaimedLemma ==
    ASSUME NEW recipients \in Seq(Holders), NEW amounts \in Seq(Int),
           WellFormedList(recipients, amounts)
    PROVE  /\ Len(recipients) \in 1..MAX_ALLOCATIONS
           /\ amounts \in [1..Len(recipients) -> Nat] /\ Total(amounts) \in Nat
           /\ Unclaimed(recipients, amounts) \in Seq(Allocations)
           /\ Len(Unclaimed(recipients, amounts)) = Len(recipients)
           /\ DOMAIN Unclaimed(recipients, amounts) = 1..Len(recipients)
           /\ \A i \in 1..Len(recipients) :
                /\ Unclaimed(recipients, amounts)[i].amount = amounts[i] /\ amounts[i] > 0
                /\ ~Unclaimed(recipients, amounts)[i].claimed
                /\ Unclaimed(recipients, amounts)[i].recipient = recipients[i]
           /\ \A i, j \in 1..Len(recipients) : i # j => recipients[i] # recipients[j]
  <1>. DEFINE n == Len(recipients)
  <1>1. /\ n \in 1..MAX_ALLOCATIONS /\ n = Len(amounts) /\ n \in Nat
        /\ \A i \in DOMAIN amounts : amounts[i] > 0
        /\ \A i, j \in DOMAIN recipients : i # j => recipients[i] # recipients[j]
    BY PoolAssumption DEF WellFormedList
  <1>2. DOMAIN amounts = 1..n /\ DOMAIN recipients = 1..n /\ amounts \in [1..n -> Int]
        /\ recipients \in [1..n -> Holders]
    BY <1>1
  <1>. HIDE DEF n
  <1>3. amounts \in [1..n -> Nat]
    BY <1>1, <1>2
  <1>4. IsFiniteSet(1..n)
    BY <1>1, FS_Interval
  <1>5. Total(amounts) \in Nat
    BY <1>3, <1>4, TotalType
  <1>6. ASSUME NEW i \in 1..n
        PROVE  /\ Unclaimed(recipients, amounts)[i] \in Allocations
               /\ Unclaimed(recipients, amounts)[i].amount = amounts[i] /\ amounts[i] > 0
               /\ ~Unclaimed(recipients, amounts)[i].claimed
               /\ Unclaimed(recipients, amounts)[i].recipient = recipients[i]
    <2>1. amounts[i] \in Nat /\ recipients[i] \in Holders /\ amounts[i] > 0
      BY <1>1, <1>2, <1>3
    <2>. QED  BY <1>2, <2>1 DEF Unclaimed, Allocations
  <1>7. DOMAIN Unclaimed(recipients, amounts) = 1..n
    BY <1>2 DEF Unclaimed
  <1>8. Unclaimed(recipients, amounts) \in [1..n -> Allocations]
    BY <1>2, <1>6 DEF Unclaimed
  <1>9. Unclaimed(recipients, amounts) \in Seq(Allocations)
    BY <1>1, <1>8
  <1>10. Len(Unclaimed(recipients, amounts)) = n
    BY <1>1, <1>7, <1>9
  <1>. QED  BY <1>1, <1>2, <1>3, <1>5, <1>6, <1>7, <1>9, <1>10 DEF n

\* publish_manifest reserves exactly the total of the list, out of what is
\* allocatable.
LEMMA PublishLemma ==
    ASSUME PoolInv, NEW m \in ManifestIds, NEW expires_at \in Nat,
           NEW recipients \in Seq(Holders), NEW amounts \in Seq(Int),
           publish_manifest(m, expires_at, recipients, amounts)
    PROVE  /\ PoolInv' /\ UNCHANGED ledgerVars /\ poolInitialized /\ poolInitialized'
           /\ pool.manifests[m].status = "Absent" /\ pool'.manifests[m].status = "Active"
           /\ \A i \in DOMAIN pool'.manifests[m].allocations :
                 ~pool'.manifests[m].allocations[i].claimed
           /\ \A n \in ManifestIds \ {m} : pool'.manifests[n] = pool.manifests[n]
           /\ m > pool.latest
           /\ Total(amounts) \in Nat
           /\ Total(amounts) <= pool.credited - pool.paid - pool.liability
           /\ pool'.liability = pool.liability + Total(amounts)
           /\ pool'.credited = pool.credited /\ pool'.paid = pool.paid
           /\ pool'.governance = pool.governance /\ pool'.eligibility = pool.eligibility
           /\ pool'.campaigns = pool.campaigns /\ pool'.escrow = pool.escrow
           /\ require_auth(pool.governance) /\ require_auth(pool.eligibility)
  <1>. DEFINE size == Len(recipients)
              allocated == Unclaimed(recipients, amounts)
              sum == Total(amounts)
              new == [total |-> sum, remaining |-> sum, expires_at |-> expires_at,
                      allocations |-> allocated, status |-> "Active"]
              fresh == {m} \X (1..size)
              worth == [k \in fresh |-> amounts[k[2]]]
  <1>0. PoolTypeOK /\ Orderly /\ PoolBooks
    BY DEF PoolInv
  <1>1. /\ UNCHANGED ledgerVars /\ poolInitialized
        /\ require_auth(pool.governance) /\ require_auth(pool.eligibility)
        /\ WellFormedList(recipients, amounts)
        /\ pool.manifests[m].status = "Absent" /\ m > pool.latest
        /\ sum <= pool.credited - pool.paid - pool.liability
        /\ pool' = [pool EXCEPT !.manifests = [pool.manifests EXCEPT ![m] = new],
                                !.liability = pool.liability + sum, !.latest = m]
    BY DEF publish_manifest, BothAuthorities, FreshId, Available, Outstanding
  <1>2. /\ size \in 1..MAX_ALLOCATIONS /\ amounts \in [1..size -> Nat] /\ sum \in Nat
        /\ allocated \in Seq(Allocations) /\ Len(allocated) = size /\ DOMAIN allocated = 1..size
        /\ \A i \in 1..size :
             /\ allocated[i].amount = amounts[i] /\ amounts[i] > 0
             /\ ~allocated[i].claimed /\ allocated[i].recipient = recipients[i]
        /\ \A i, j \in 1..size : i # j => recipients[i] # recipients[j]
    BY <1>1, UnclaimedLemma
  <1>. HIDE DEF size, allocated, sum
  <1>3. new \in Manifests
    BY <1>2 DEF Manifests
  <1>4. /\ pool.manifests \in [ManifestIds -> Manifests] /\ pool.liability \in Nat
        /\ pool.manifests[m] = NoManifest /\ size \in Nat
    BY <1>0, <1>1, <1>2, PoolAssumption DEF PoolTypeOK, Orderly
  <1>5. /\ new.status = "Active" /\ new.remaining = sum /\ new.allocations = allocated
        /\ m \in Nat
    BY PoolAssumption
  <1>. HIDE DEF new
  <1>6. /\ pool'.manifests = [pool.manifests EXCEPT ![m] = new]
        /\ pool'.liability = pool.liability + sum /\ pool'.latest = m
        /\ pool'.paid = pool.paid /\ pool'.credited = pool.credited
        /\ pool'.governance = pool.governance /\ pool'.eligibility = pool.eligibility
        /\ pool'.escrow = pool.escrow /\ pool'.campaigns = pool.campaigns
    BY <1>0, <1>1 DEF PoolTypeOK
  <1>7. /\ pool'.manifests[m] = new
        /\ \A n \in ManifestIds \ {m} : pool'.manifests[n] = pool.manifests[n]
    BY <1>4, <1>6
  <1>8. PoolTypeOK'
    <2>1. LedgerTypeOK'
      BY <1>0, <1>1 DEF PoolTypeOK, LedgerTypeOK, ledgerVars
    <2>2. [pool.manifests EXCEPT ![m] = new] \in [ManifestIds -> Manifests]
      BY <1>3, <1>4
    <2>3. pool.liability + sum \in Nat
      BY <1>2, <1>4
    <2>. QED  BY <1>0, <1>1, <1>5, <2>1, <2>2, <2>3 DEF PoolTypeOK
  <1>9. poolInitialized'
    BY <1>1, <1>6 DEF poolInitialized
  <1>10. Orderly'
    <2>1. ASSUME NEW n \in ManifestIds
          PROVE  IF pool'.manifests[n].status = "Absent"
                 THEN pool'.manifests[n] = NoManifest
                 ELSE n <= pool'.latest /\ Len(pool'.manifests[n].allocations) \in 1..MAX_ALLOCATIONS
      <3>1. CASE n = m
        BY <1>2, <1>5, <1>6, <1>7, <3>1
      <3>2. CASE n # m
        <4>1. n \in Nat /\ pool.latest \in Nat
          BY <1>0, PoolAssumption DEF PoolTypeOK
        <4>. QED  BY <1>0, <1>1, <1>5, <1>6, <1>7, <3>2, <4>1 DEF Orderly
      <3>. QED  BY <3>1, <3>2
    <2>. QED  BY <1>0, <1>1, <1>6, <1>9, <2>1 DEF Orderly
  <1>11. /\ \A k \in Listed : k = <<k[1], k[2]>> /\ k[1] \in ManifestIds \ {m}
         /\ \A k \in fresh : k = <<m, k[2]>> /\ k[1] = m /\ k[2] \in 1..size
    <2>1. DOMAIN pool.manifests[m].allocations = {}
      BY <1>4 DEF NoManifest
    <2>2. \A k \in Listed : k = <<k[1], k[2]>> /\ k[1] \in ManifestIds
      BY <1>0, ListedLemma
    <2>3. \A k \in Listed : k[2] \in DOMAIN pool.manifests[k[1]].allocations
      BY DEF Listed
    <2>. QED  BY <2>1, <2>2, <2>3
  <1>12. Listed' = Listed \cup fresh
    <2>1. ASSUME NEW k \in ManifestIds \X (1..MAX_ALLOCATIONS)
          PROVE  k \in Listed' <=> k \in Listed \/ k \in fresh
      <3>1. k = <<k[1], k[2]>> /\ k[1] \in ManifestIds /\ k[2] \in 1..MAX_ALLOCATIONS
        OBVIOUS
      <3>2. CASE k[1] = m
        <4>1. k \in Listed' <=> k[2] \in 1..size
          BY <1>2, <1>5, <1>7, <3>2 DEF Listed
        <4>2. k \in fresh <=> k[2] \in 1..size
          BY <3>1, <3>2
        <4>3. k \notin Listed
          BY <1>11, <3>2
        <4>. QED  BY <4>1, <4>2, <4>3
      <3>3. CASE k[1] # m
        <4>1. k \in Listed' <=> k \in Listed
          BY <1>7, <3>1, <3>3 DEF Listed
        <4>2. k \notin fresh
          BY <3>3
        <4>. QED  BY <4>1, <4>2
      <3>. QED  BY <3>2, <3>3
    <2>2. fresh \subseteq ManifestIds \X (1..MAX_ALLOCATIONS)
      BY <1>2, PoolAssumption
    <2>3. /\ Listed \subseteq ManifestIds \X (1..MAX_ALLOCATIONS)
          /\ Listed' \subseteq ManifestIds \X (1..MAX_ALLOCATIONS)
      BY DEF Listed
    <2>. HIDE DEF fresh
    <2>. QED  BY <2>1, <2>2, <2>3
  <1>13. ASSUME NEW k \in fresh
         PROVE  /\ ~IsClaimed(k[1], k[2])' /\ IsReserved(k[1], k[2])'
                /\ pool'.manifests[k[1]].allocations[k[2]].amount = worth[k]
    BY <1>2, <1>5, <1>7, <1>11 DEF IsClaimed, IsReserved
  <1>14. ASSUME NEW k \in Listed
         PROVE  /\ IsClaimed(k[1], k[2])' <=> IsClaimed(k[1], k[2])
                /\ IsReserved(k[1], k[2])' <=> IsReserved(k[1], k[2])
                /\ pool'.manifests[k[1]].allocations[k[2]].amount
                     = pool.manifests[k[1]].allocations[k[2]].amount
    BY <1>7, <1>11 DEF IsClaimed, IsReserved
  <1>15. Claimed' = Claimed
    BY <1>12, <1>13, <1>14 DEF Claimed
  <1>16. Reserved' = Reserved \cup fresh /\ Reserved \cap fresh = {}
    <2>1. Reserved \cap fresh = {}
      BY <1>11 DEF Reserved
    <2>2. Reserved' = Reserved \cup fresh
      BY <1>12, <1>13, <1>14 DEF Reserved
    <2>. QED  BY <2>1, <2>2
  <1>17. Total(worth) = sum
    <2>1. IsFiniteSet(1..size)
      BY <1>4, FS_Interval
    <2>2. amounts \in [1..size -> Nat]
      BY <1>2
    <2>3. Total([k \in {m} \X (1..size) |-> amounts[k[2]]]) = Total(amounts)
      BY <2>1, <2>2, TotalRenamed, ZenonT(40)
    <2>. QED  BY <2>3 DEF sum
  <1>18. PaidIsClaimed'
    <2>1. Claimed \subseteq Listed
      BY DEF Claimed
    <2>2. AmountsOf(Claimed)' = AmountsOf(Claimed)
      BY <1>14, <1>15, <2>1 DEF AmountsOf
    <2>. QED  BY <1>0, <1>6, <2>2 DEF PoolBooks, PaidIsClaimed
  <1>19. LiabilityIsReserved'
    <2>1. Reserved \in SUBSET Listed
      BY DEF Reserved
    <2>2. IsFiniteSet(Reserved) /\ AmountsOf(Reserved) \in [Reserved -> Nat]
      BY <1>0, <2>1, ListedLemma
    <2>3. IsFiniteSet(fresh)
      <3>1. IsFiniteSet({m})
        BY FS_Singleton
      <3>2. IsFiniteSet(1..size)
        BY <1>4, FS_Interval
      <3>. QED  BY <3>1, <3>2, FS_Product
    <2>4. IsFiniteSet(Reserved')
      BY <1>16, <2>2, <2>3, FS_Union
    <2>5. AmountsOf(Reserved) = [k \in Reserved |-> AmountsOf(Reserved)'[k]]
      BY <1>14, <1>16, <2>1 DEF AmountsOf
    <2>6. worth = [k \in Reserved' \ Reserved |-> AmountsOf(Reserved)'[k]]
      <3>1. Reserved' \ Reserved = fresh
        BY <1>16
      <3>2. \A k \in fresh : AmountsOf(Reserved)'[k] = worth[k]
        BY <1>13, <1>16 DEF AmountsOf
      <3>. QED  BY <3>1, <3>2
    <2>7. AmountsOf(Reserved)' \in [Reserved' -> Nat]
      <3>1. AmountsOf(Reserved)' = [k \in Reserved' |-> AmountsOf(Reserved)'[k]]
        BY DEF AmountsOf
      <3>2. \A k \in Reserved : AmountsOf(Reserved)'[k] \in Nat
        BY <1>14, <1>16, <2>1, <2>2 DEF AmountsOf
      <3>3. \A k \in fresh : AmountsOf(Reserved)'[k] \in Nat
        <4>1. \A k \in fresh : AmountsOf(Reserved)'[k] = amounts[k[2]]
          BY <1>13, <1>16 DEF AmountsOf
        <4>2. \A k \in fresh : amounts[k[2]] \in Nat
          BY <1>2
        <4>. QED  BY <4>1, <4>2, Zenon
      <3>. QED  BY <1>16, <3>1, <3>2, <3>3
    <2>8. Total(AmountsOf(Reserved)') = Total(AmountsOf(Reserved)) + Total(worth)
      <3>. DEFINE K == Reserved'
                  f == AmountsOf(Reserved)'
                  g == AmountsOf(Reserved)
      <3>1. /\ IsFiniteSet(K) /\ f \in [K -> Nat] /\ Reserved \in SUBSET K
            /\ g = [k \in Reserved |-> f[k]] /\ worth = [k \in K \ Reserved |-> f[k]]
        BY <1>16, <2>4, <2>5, <2>6, <2>7
      <3>. HIDE DEF worth, K, f, g
      <3>2. Total(f) = Total([k \in Reserved |-> f[k]]) + Total([k \in K \ Reserved |-> f[k]])
        BY <3>1, TotalSplit, ZenonT(40)
      <3>3. Total(f) = Total(g) + Total(worth)
        BY <3>1, <3>2
      <3>. QED  BY <3>3 DEF K, f, g
    <2>9. pool.liability = Total(AmountsOf(Reserved))
      BY <1>0 DEF PoolBooks, LiabilityIsReserved
    <2>10. pool'.liability = Total(AmountsOf(Reserved)')
      BY <1>6, <1>17, <2>8, <2>9
    <2>. QED  BY <2>10 DEF LiabilityIsReserved
  <1>20. ASSUME NEW n \in ManifestIds
         PROVE  RemainingIsReserved(n)'
    <2>0. Reserved \subseteq Listed
      BY DEF Reserved
    <2>1. CASE n = m
      <3>1. {k \in Reserved' : k[1] = m} = fresh
        BY <1>11, <1>16, <2>0
      <3>2. AmountsOf({k \in Reserved : k[1] = n})' = worth
        BY <1>13, <2>1, <3>1 DEF AmountsOf
      <3>. QED  BY <1>5, <1>7, <1>17, <2>1, <3>2 DEF RemainingIsReserved
    <2>2. CASE n # m
      <3>1. {k \in Reserved' : k[1] = n} = {k \in Reserved : k[1] = n}
        BY <1>11, <1>16, <2>2
      <3>2. AmountsOf({k \in Reserved : k[1] = n})' = AmountsOf({k \in Reserved : k[1] = n})
        BY <1>14, <2>0, <3>1 DEF AmountsOf
      <3>. QED
        BY <1>0, <1>7, <2>2, <3>2 DEF PoolBooks, ManifestBooks, RemainingIsReserved
    <2>. QED  BY <2>1, <2>2
  <1>21. ASSUME NEW n \in ManifestIds
         PROVE  WellPublished(n)'
    <2>1. CASE n = m
      <3>1. 1 \in 1..size
        BY <1>2, <1>4
      <3>2. /\ new.status # "Completed" /\ DOMAIN new.allocations = 1..size
            /\ ~new.allocations[1].claimed
        BY <1>2, <1>5, <3>1
      <3>3. ASSUME NEW i \in 1..size, NEW j \in 1..size
            PROVE  /\ new.allocations[i].amount > 0
                   /\ i # j => new.allocations[i].recipient # new.allocations[j].recipient
        BY <1>2, <1>5
      <3>4. /\ new.status = "Completed" <=>
                  (\A i \in DOMAIN new.allocations : new.allocations[i].claimed)
            /\ \A i, j \in DOMAIN new.allocations :
                 /\ new.allocations[i].amount > 0
                 /\ i # j => new.allocations[i].recipient # new.allocations[j].recipient
        BY <3>1, <3>2, <3>3
      <3>. QED  BY <1>7, <2>1, <3>4 DEF WellPublished, IsClaimed
    <2>2. CASE n # m
      BY <1>0, <1>7, <2>2 DEF PoolBooks, ManifestBooks, WellPublished, IsClaimed
    <2>. QED  BY <2>1, <2>2
  <1>22. PoolInv'
    BY <1>8, <1>10, <1>18, <1>19, <1>20, <1>21 DEF PoolInv, PoolBooks, ManifestBooks
  <1>. QED  BY <1>1, <1>2, <1>5, <1>6, <1>7, <1>9, <1>22 DEF sum

(***************************************************************************)
(* The pool in any context.                                                *)
(***************************************************************************)

LEMMA PoolInvInit == PoolSpecInit => PoolInv
  <1>. SUFFICES ASSUME PoolSpecInit
               PROVE  PoolInv
    OBVIOUS
  <1>1. LedgerTypeOK
    BY HostAssumption, AddressAssumption DEF PoolSpecInit, LedgerInit, HostInit, LedgerTypeOK
  <1>2. NoManifest \in Manifests
    <2>1. <<>> \in Seq(Allocations)
      OBVIOUS
    <2>. QED  BY <2>1 DEF NoManifest, Manifests
  <1>3. PoolTypeOK
    BY <1>1, <1>2 DEF PoolSpecInit, PoolInit, PoolTypeOK
  <1>4. /\ \A m \in ManifestIds : pool.manifests[m] = NoManifest /\ pool.manifests[m].status = "Absent"
        /\ ~poolInitialized /\ pool.escrow = None /\ pool.campaigns = {}
        /\ pool.liability = 0 /\ pool.credited = 0 /\ pool.paid = 0
    BY DEF PoolSpecInit, PoolInit, NoManifest, poolInitialized
  <1>5. Orderly
    BY <1>4 DEF Orderly
  <1>6. Listed = {}
    BY <1>4 DEF Listed, NoManifest
  <1>7. Reserved = {} /\ Claimed = {} /\ \A m : {k \in Reserved : k[1] = m} = {}
    BY <1>6 DEF Reserved, Claimed
  <1>8. Total(AmountsOf({})) = 0
    BY TotalEmpty DEF AmountsOf
  <1>9. PoolBooks
    <2>1. LiabilityIsReserved /\ PaidIsClaimed
      BY <1>4, <1>7, <1>8 DEF LiabilityIsReserved, PaidIsClaimed
    <2>2. ASSUME NEW m \in ManifestIds
          PROVE  RemainingIsReserved(m) /\ WellPublished(m)
      <3>1. pool.manifests[m].remaining = 0
        BY <1>4 DEF NoManifest
      <3>. QED  BY <1>4, <1>7, <1>8, <3>1 DEF RemainingIsReserved, WellPublished
    <2>. QED  BY <2>1, <2>2 DEF PoolBooks, ManifestBooks
  <1>. QED  BY <1>3, <1>5, <1>9 DEF PoolInv

\* A step of the context moves the ledger only.
LEMMA ContextLemma ==
    ASSUME PoolInv, PoolEnvironment, UNCHANGED pool
    PROVE  PoolInv'
  <1>1. PoolTypeOK'
    BY DEF PoolInv, PoolTypeOK, PoolEnvironment
  <1>2. SameBooks /\ (poolInitialized' <=> poolInitialized)
    BY DEF SameBooks, poolInitialized
  <1>. QED  BY <1>1, <1>2, PoolInvFrame

\* The operations of the open specification, with the types of their arguments.
LEMMA PoolCases ==
    ASSUME PoolOpenNext
    PROVE  \/ \E gov, elig \in PoolAuthorities, escrow \in PoolEscrows, deployer \in Accounts :
                 pool_initialize(gov, elig, escrow, deployer)
           \/ \E m \in ManifestIds :
                 \E expires_at \in Nat, recipients \in Seq(Holders), amounts \in Seq(Int) :
                    publish_manifest(m, expires_at, recipients, amounts)
           \/ \E m \in ManifestIds : \E i : claim(m, i)
           \/ \E m \in ManifestIds : expire_manifest(m)
           \/ RoleNext
           \/ PoolEnvironment /\ UNCHANGED pool
           \/ CreditStep
  <1>1. ASSUME NEW m \in ManifestIds, NEW expires_at \in 0..MaxTimestamp, NEW list \in Lists,
               publish_manifest(m, expires_at, list[1], list[2])
        PROVE  \E e \in Nat, recipients \in Seq(Holders), amounts \in Seq(Int) :
                  publish_manifest(m, e, recipients, amounts)
    <2>1. expires_at \in Nat /\ list[1] \in Seq(Holders) /\ list[2] \in Seq(Int)
      BY HostAssumption, PoolAssumption
    <2>. QED  BY <1>1, <2>1
  <1>. QED  BY <1>1 DEF PoolOpenNext, PoolNext, RoleNext, CreditStep

LEMMA PoolInvStep == PoolInv /\ [PoolOpenNext]_poolVars => PoolInv'
  <1>. SUFFICES ASSUME PoolInv, [PoolOpenNext]_poolVars
               PROVE  PoolInv'
    OBVIOUS
  <1>1. CASE UNCHANGED poolVars
    <2>1. UNCHANGED ledgerVars /\ UNCHANGED pool
      BY <1>1 DEF poolVars
    <2>2. PoolTypeOK'
      BY <2>1 DEF ledgerVars, PoolInv, PoolTypeOK, LedgerTypeOK
    <2>3. SameBooks /\ (poolInitialized' <=> poolInitialized)
      BY <2>1 DEF SameBooks, poolInitialized
    <2>. QED  BY <2>2, <2>3, PoolInvFrame
  <1>2. ASSUME NEW gov, NEW elig, NEW escrow \in PoolEscrows, NEW deployer,
               pool_initialize(gov, elig, escrow, deployer)
        PROVE  PoolInv'
    BY <1>2, InitializeLemma
  <1>3. ASSUME NEW m \in ManifestIds, NEW expires_at \in Nat, NEW recipients \in Seq(Holders),
               NEW amounts \in Seq(Int), publish_manifest(m, expires_at, recipients, amounts)
        PROVE  PoolInv'
    BY <1>3, PublishLemma
  <1>4. ASSUME NEW m \in ManifestIds, NEW i, claim(m, i)
        PROVE  PoolInv'
    BY <1>4, ClaimLemma
  <1>5. ASSUME NEW m \in ManifestIds, expire_manifest(m)
        PROVE  PoolInv'
    BY <1>5, ExpireLemma
  <1>6. CASE RoleNext
    <2>1. PoolTypeOK
      BY DEF PoolInv
    <2>. QED  BY <1>6, <2>1, RoleLemma, PoolInvFrame
  <1>7. CASE PoolEnvironment /\ UNCHANGED pool
    BY <1>7, ContextLemma
  <1>8. CASE CreditStep
    BY <1>8, CreditLemma
  <1>. QED  BY <1>1, <1>2, <1>3, <1>4, <1>5, <1>6, <1>7, <1>8, PoolCases

\* Every value in the pool's storage keeps its type: no total becomes negative,
\* by whatever order of credits, manifests, claims and expiries.
THEOREM PoolTypeCorrect == PoolOpenSpec => []PoolTypeOK
  <1>1. PoolInv => PoolTypeOK
    BY DEF PoolInv
  <1>. QED  BY <1>1, PoolInvInit, PoolInvStep, PTL DEF PoolOpenSpec

\* The liability is exactly what active manifests still reserve, paid is exactly
\* what is marked claimed, and the books of every manifest agree with its entries,
\* whatever publish_manifest, claim, expire_manifest and record_credit do.
THEOREM PoolBooksCorrect == PoolOpenSpec => []PoolBooks
  <1>1. PoolInv => PoolBooks
    BY DEF PoolInv
  <1>. QED  BY <1>1, PoolInvInit, PoolInvStep, PTL DEF PoolOpenSpec

\* Every step keeps reservations within the outstanding credits, and those
\* within what the pool holds or had clawed back.
LEMMA PoolSolvencyStep == PoolInv /\ PoolSolvency /\ [PoolOpenNext]_poolVars => PoolSolvency'
  <1>. SUFFICES ASSUME PoolInv, PoolSolvency, [PoolOpenNext]_poolVars
               PROVE  PoolSolvency'
    OBVIOUS
  <1>. USE DEF PoolSolvency, Outstanding
  <1>0. PoolInv'
    BY PoolInvStep
  <1>a. /\ pool.liability \in Nat /\ pool.credited \in Nat /\ pool.paid \in Nat
        /\ pool'.liability \in Nat /\ pool'.credited \in Nat /\ pool'.paid \in Nat
    BY <1>0 DEF PoolInv, PoolTypeOK
  <1>b. /\ Self \in Holders
        /\ balance[Self] \in Nat /\ clawed[Self] \in Nat
        /\ balance'[Self] \in Nat /\ clawed'[Self] \in Nat
    BY <1>0, PoolAssumption DEF PoolInv, PoolTypeOK, LedgerTypeOK, Holders
  <1>1. ASSUME UNCHANGED ledgerVars, pool'.liability = pool.liability,
               pool'.credited = pool.credited, pool'.paid = pool.paid
        PROVE  PoolSolvency'
    BY <1>1 DEF ledgerVars
  <1>2. CASE UNCHANGED poolVars
    BY <1>1, <1>2 DEF poolVars
  <1>3. ASSUME NEW gov, NEW elig, NEW escrow \in PoolEscrows, NEW deployer,
               pool_initialize(gov, elig, escrow, deployer)
        PROVE  PoolSolvency'
    BY <1>1, <1>3, InitializeLemma
  <1>4. ASSUME NEW m \in ManifestIds, NEW expires_at \in Nat, NEW recipients \in Seq(Holders),
               NEW amounts \in Seq(Int), publish_manifest(m, expires_at, recipients, amounts)
        PROVE  PoolSolvency'
    <2>1. /\ Total(amounts) \in Nat /\ Total(amounts) <= pool.credited - pool.paid - pool.liability
          /\ pool'.liability = pool.liability + Total(amounts)
          /\ pool'.credited = pool.credited /\ pool'.paid = pool.paid /\ UNCHANGED ledgerVars
      BY <1>4, PublishLemma
    <2>. QED  BY <1>a, <2>1 DEF ledgerVars
  <1>5. ASSUME NEW m \in ManifestIds, NEW i, claim(m, i)
        PROVE  PoolSolvency'
    <2>1. PICK a \in Nat :
            /\ pool'.liability = pool.liability - a /\ pool'.paid = pool.paid + a
            /\ pool'.credited = pool.credited /\ balance'[Self] = balance[Self] - a
            /\ clawed' = clawed
      BY <1>5, ClaimLemma
    <2>. QED  BY <1>a, <1>b, <2>1
  <1>6. ASSUME NEW m \in ManifestIds, expire_manifest(m)
        PROVE  PoolSolvency'
    <2>1. /\ pool'.liability <= pool.liability /\ pool'.credited = pool.credited
          /\ pool'.paid = pool.paid /\ UNCHANGED ledgerVars
      BY <1>6, ExpireLemma
    <2>. QED  BY <1>a, <2>1 DEF ledgerVars
  <1>7. CASE RoleNext
    <2>1. PoolTypeOK
      BY DEF PoolInv
    <2>. QED  BY <1>1, <1>7, <2>1, RoleLemma DEF SameBooks
  <1>8. CASE PoolEnvironment /\ UNCHANGED pool
    <2>1. balance[Self] + clawed[Self] <= balance'[Self] + clawed'[Self]
      BY <1>8 DEF PoolEnvironment
    <2>. QED  BY <1>8, <1>a, <1>b, <2>1
  <1>9. CASE CreditStep
    <2>1. /\ pool'.liability = pool.liability /\ pool'.paid = pool.paid
          /\ pool'.credited > pool.credited /\ pool'.credited - pool.paid <= balance'[Self]
      BY <1>9, CreditLemma
    <2>. QED  BY <1>a, <1>b, <2>1
  <1>. QED  BY <1>2, <1>3, <1>4, <1>5, <1>6, <1>7, <1>8, <1>9, PoolCases

\* In any context, reservations never exceed the credits that are not paid out,
\* and the pool holds those credits, up to what the issuer clawed back from it.
THEOREM PoolSolvencyCorrect == PoolOpenSpec => []PoolSolvency
  <1>1. PoolSpecInit => PoolSolvency
    <2>. SUFFICES ASSUME PoolSpecInit
                 PROVE  PoolSolvency
      OBVIOUS
    <2>1. PoolTypeOK
      BY PoolInvInit DEF PoolInv
    <2>2. pool.liability = 0 /\ pool.credited = 0 /\ pool.paid = 0
      BY DEF PoolSpecInit, PoolInit
    <2>3. balance[Self] \in Nat /\ clawed[Self] \in Nat
      BY <2>1, PoolAssumption DEF PoolTypeOK, LedgerTypeOK, Holders
    <2>. QED  BY <2>2, <2>3 DEF PoolSolvency, Outstanding
  <1>. QED  BY <1>1, PoolInvInit, PoolInvStep, PoolSolvencyStep, PTL DEF PoolOpenSpec

(***************************************************************************)
(* The two authorities.                                                    *)
(***************************************************************************)

TwoAuthorities ==
    poolInitialized => /\ pool.governance # pool.eligibility
                       /\ {pool.governance, pool.eligibility} \subseteq signing

LEMMA AuthoritiesStep == PoolInv /\ TwoAuthorities /\ [PoolOpenNext]_poolVars => TwoAuthorities'
  <1>. SUFFICES ASSUME PoolInv, TwoAuthorities, [PoolOpenNext]_poolVars
               PROVE  TwoAuthorities'
    OBVIOUS
  <1>. USE DEF TwoAuthorities
  <1>0. PoolTypeOK
    BY DEF PoolInv
  <1>1. ASSUME signing' = signing, pool'.governance = pool.governance,
               pool'.eligibility = pool.eligibility
        PROVE  TwoAuthorities'
    BY <1>1 DEF poolInitialized
  <1>2. CASE UNCHANGED poolVars
    BY <1>1, <1>2 DEF poolVars, ledgerVars
  <1>3. ASSUME NEW gov, NEW elig, NEW escrow \in PoolEscrows, NEW deployer,
               pool_initialize(gov, elig, escrow, deployer)
        PROVE  TwoAuthorities'
    <2>1. pool'.governance = gov /\ pool'.eligibility = elig /\ signing' = signing
      BY <1>0, <1>3 DEF pool_initialize, PoolTypeOK, ledgerVars
    <2>. QED  BY <1>3, <2>1 DEF pool_initialize, require_auth
  <1>4. ASSUME NEW m \in ManifestIds, NEW expires_at \in Nat, NEW recipients \in Seq(Holders),
               NEW amounts \in Seq(Int), publish_manifest(m, expires_at, recipients, amounts)
        PROVE  TwoAuthorities'
    BY <1>1, <1>4, PublishLemma DEF ledgerVars
  <1>5. ASSUME NEW m \in ManifestIds, NEW i, claim(m, i)
        PROVE  TwoAuthorities'
    BY <1>1, <1>5, ClaimLemma
  <1>6. ASSUME NEW m \in ManifestIds, expire_manifest(m)
        PROVE  TwoAuthorities'
    BY <1>1, <1>6, ExpireLemma DEF ledgerVars
  <1>7. CASE RoleNext
    <2>1. CASE pool_accept_governance
      <3>1. /\ pool'.governance = pool.pendingGovernance /\ pool'.eligibility = pool.eligibility
            /\ signing' = signing
        BY <1>0, <2>1 DEF pool_accept_governance, PoolTypeOK, ledgerVars
      <3>. QED  BY <2>1, <3>1 DEF pool_accept_governance, require_auth
    <2>2. CASE accept_eligibility_authority
      <3>1. /\ pool'.governance = pool.governance /\ pool'.eligibility = pool.pendingEligibility
            /\ signing' = signing
        BY <1>0, <2>2 DEF accept_eligibility_authority, PoolTypeOK, ledgerVars
      <3>. QED  BY <2>2, <3>1 DEF accept_eligibility_authority, require_auth
    <2>3. CASE pool_pause \/ pool_unpause
      BY <1>0, <1>1, <2>3 DEF pool_pause, pool_unpause, PoolTypeOK, ledgerVars
    <2>4. ASSUME NEW account,
                 pool_propose_governance(account) \/ propose_eligibility_authority(account)
          PROVE  TwoAuthorities'
      BY <1>0, <1>1, <2>4
      DEF pool_propose_governance, propose_eligibility_authority, PoolTypeOK, ledgerVars
    <2>. QED  BY <1>7, <2>1, <2>2, <2>3, <2>4 DEF RoleNext
  <1>8. CASE PoolEnvironment /\ UNCHANGED pool
    BY <1>1, <1>8 DEF PoolEnvironment
  <1>9. CASE CreditStep
    BY <1>1, <1>9, CreditLemma
  <1>. QED  BY <1>2, <1>3, <1>4, <1>5, <1>6, <1>7, <1>8, <1>9, PoolCases

\* By whatever sequence of proposals and acceptances, the two roles stay with two
\* different addresses that sign; so a published manifest took two signers.
THEOREM AuthorityCorrect == PoolOpenSpec => []NoSingleAuthority
  <1>1. PoolSpecInit => TwoAuthorities
    BY DEF PoolSpecInit, PoolInit, TwoAuthorities, poolInitialized
  <1>2. PoolInv /\ TwoAuthorities => NoSingleAuthority
    <2>. SUFFICES ASSUME PoolInv, TwoAuthorities, NEW m \in ManifestIds,
                         pool.manifests[m].status # "Absent"
                 PROVE  Cardinality(signing) >= 2
      BY DEF NoSingleAuthority, TwoAuthorities
    <2>1. poolInitialized
      BY DEF PoolInv, Orderly
    <2>2. /\ pool.governance # pool.eligibility
          /\ pool.governance \in signing /\ pool.eligibility \in signing
      BY <2>1 DEF TwoAuthorities
    <2>3. IsFiniteSet(signing)
      <3>1. signing \subseteq Holders
        BY DEF PoolInv, PoolTypeOK, LedgerTypeOK, Holders
      <3>. QED  BY <3>1, AddressAssumption, FS_Subset
    <2>. DEFINE one == {pool.governance}
                two == one \cup {pool.eligibility}
    <2>4. IsFiniteSet(one) /\ Cardinality(one) = 1
      BY FS_Singleton
    <2>5. pool.eligibility \notin one /\ two \subseteq signing
      BY <2>2
    <2>6. Cardinality(two) = Cardinality(one) + 1
      BY <2>4, <2>5, FS_AddElement
    <2>7. Cardinality(two) <= Cardinality(signing)
      BY <2>3, <2>5, FS_Subset
    <2>8. Cardinality(signing) \in Nat
      BY <2>3, FS_CardinalityType
    <2>. HIDE DEF one, two
    <2>. QED  BY <2>4, <2>6, <2>7, <2>8
  <1>. QED  BY <1>1, <1>2, PoolInvInit, PoolInvStep, AuthoritiesStep, PTL DEF PoolOpenSpec

(***************************************************************************)
(* Claims.                                                                 *)
(***************************************************************************)

LEMMA ClaimsStep == PoolInv /\ [PoolOpenNext]_poolVars => [PoolOutflowStep /\ ManifestStep]_poolVars
  <1>. SUFFICES ASSUME PoolInv, PoolOpenNext
               PROVE  PoolOutflowStep /\ ManifestStep
    OBVIOUS
  <1>0. PoolTypeOK /\ Orderly /\ Self \in Holders
    BY PoolAssumption DEF PoolInv, Holders
  <1>a. /\ balance[Self] \in Nat /\ clawed[Self] \in Nat /\ now \in Nat
        /\ pool.manifests \in [ManifestIds -> Manifests]
    BY <1>0, HostAssumption DEF PoolTypeOK, LedgerTypeOK
  <1>1. ASSUME UNCHANGED ledgerVars
        PROVE  PoolOutflowStep
    BY <1>1, <1>a DEF PoolOutflowStep, ledgerVars
  <1>2. ASSUME pool'.manifests = pool.manifests
        PROVE  ManifestStep
    BY <1>2 DEF ManifestStep
  <1>3. ASSUME NEW gov, NEW elig, NEW escrow \in PoolEscrows, NEW deployer,
               pool_initialize(gov, elig, escrow, deployer)
        PROVE  PoolOutflowStep /\ ManifestStep
    BY <1>1, <1>2, <1>3, InitializeLemma
  <1>4. ASSUME NEW m \in ManifestIds, NEW expires_at \in Nat, NEW recipients \in Seq(Holders),
               NEW amounts \in Seq(Int), publish_manifest(m, expires_at, recipients, amounts)
        PROVE  PoolOutflowStep /\ ManifestStep
    <2>1. /\ UNCHANGED ledgerVars /\ m > pool.latest
          /\ pool.manifests[m].status = "Absent"
          /\ \A i \in DOMAIN pool'.manifests[m].allocations :
                ~pool'.manifests[m].allocations[i].claimed
          /\ \A n \in ManifestIds \ {m} : pool'.manifests[n] = pool.manifests[n]
      BY <1>4, PublishLemma
    <2>2. \A n \in ManifestIds : n >= m => pool.manifests[n].status = "Absent"
      <3>1. \A n \in ManifestIds : n \in Nat
        BY PoolAssumption
      <3>2. pool.latest \in Nat /\ \A n \in ManifestIds : pool.manifests[n].status # "Absent" => n <= pool.latest
        BY <1>0 DEF PoolTypeOK, Orderly
      <3>. QED  BY <2>1, <3>1, <3>2
    <2>3. ManifestStep
      BY <2>1, <2>2 DEF ManifestStep
    <2>. QED  BY <1>1, <2>1, <2>3
  <1>5. ASSUME NEW m \in ManifestIds, NEW i, claim(m, i)
        PROVE  PoolOutflowStep /\ ManifestStep
    <2>. DEFINE old == pool.manifests[m]
                new == AfterClaim(old, i)
                a == old.allocations[i].amount
                to == old.allocations[i].recipient
    <2>1. /\ i \in DOMAIN old.allocations /\ IsReserved(m, i) /\ ~ManifestExpired(m) /\ ~pool.paused
          /\ a \in Nat /\ a <= old.remaining /\ to \in signing /\ to \in Holders
          /\ pool'.manifests = [pool.manifests EXCEPT ![m] = new]
          /\ balance'[Self] = balance[Self] - a /\ balance'[to] = balance[to] + a
      BY <1>5, ClaimLemma
    <2>2. /\ new.total = old.total /\ new.expires_at = old.expires_at
          /\ DOMAIN new.allocations = DOMAIN old.allocations
          /\ new.allocations[i] = [old.allocations[i] EXCEPT !.claimed = TRUE]
          /\ new.allocations[i].claimed
          /\ \A j \in DOMAIN old.allocations \ {i} : new.allocations[j] = old.allocations[j]
      <3>1. old \in Manifests /\ i \in DOMAIN old.allocations /\ old.allocations[i].amount <= old.remaining
        BY <1>a, <2>1
      <3>. HIDE DEF old, a, to
      <3>. QED  BY <3>1, AfterClaimLemma
    <2>3. /\ pool'.manifests[m] = new
          /\ \A n \in ManifestIds \ {m} : pool'.manifests[n] = pool.manifests[n]
      BY <1>a, <2>1
    <2>. HIDE DEF new
    <2>4. PoolOutflowStep
      <3>1. now < old.expires_at
        <4>1. old.expires_at \in Nat
          BY <1>a DEF Manifests
        <4>. QED  BY <1>a, <2>1, <4>1 DEF ManifestExpired
      <3>2. balance[Self] - balance'[Self] = a
        BY <1>a, <2>1
      <3>3. pool'.manifests[m].allocations[i].claimed
        BY <2>2, <2>3
      <3>. QED  BY <2>1, <3>1, <3>2, <3>3 DEF PoolOutflowStep
    <2>5. ManifestStep
      <3>1. old.status = "Active"
        BY <2>1 DEF IsReserved
      <3>2. \A j \in DOMAIN old.allocations :
              \/ new.allocations[j] = old.allocations[j]
              \/ new.allocations[j] = [old.allocations[j] EXCEPT !.claimed = TRUE]
        BY <2>2
      <3>. QED  BY <2>2, <2>3, <3>1, <3>2 DEF ManifestStep
    <2>. QED  BY <2>4, <2>5
  <1>6. ASSUME NEW m \in ManifestIds, expire_manifest(m)
        PROVE  PoolOutflowStep /\ ManifestStep
    <2>1. /\ UNCHANGED ledgerVars /\ pool.manifests[m].status = "Active"
          /\ pool'.manifests =
               [pool.manifests EXCEPT ![m] = [@ EXCEPT !.remaining = 0, !.status = "Expired"]]
      BY <1>6, ExpireLemma
    <2>2. /\ \A n \in ManifestIds \ {m} : pool'.manifests[n] = pool.manifests[n]
          /\ pool'.manifests[m].total = pool.manifests[m].total
          /\ pool'.manifests[m].expires_at = pool.manifests[m].expires_at
          /\ pool'.manifests[m].allocations = pool.manifests[m].allocations
      BY <1>a, <2>1 DEF Manifests
    <2>3. ManifestStep
      BY <2>1, <2>2 DEF ManifestStep
    <2>. QED  BY <1>1, <2>1, <2>3
  <1>7. CASE RoleNext
    BY <1>0, <1>1, <1>2, <1>7, RoleLemma DEF SameBooks
  <1>8. ASSUME PoolEnvironment
        PROVE  PoolOutflowStep
    <2>1. balance[Self] + clawed[Self] <= balance'[Self] + clawed'[Self]
      BY <1>8 DEF PoolEnvironment
    <2>2. balance'[Self] \in Nat /\ clawed'[Self] \in Nat
      BY <1>0, <1>8 DEF PoolEnvironment, LedgerTypeOK
    <2>. QED  BY <1>a, <2>1, <2>2 DEF PoolOutflowStep
  <1>9. CASE PoolEnvironment /\ UNCHANGED pool
    BY <1>2, <1>8, <1>9
  <1>10. CASE CreditStep
    <2>1. PoolEnvironment
      BY <1>10 DEF CreditStep
    <2>. QED  BY <1>2, <1>8, <1>10, <2>1, CreditLemma
  <1>. QED  BY <1>3, <1>4, <1>5, <1>6, <1>7, <1>9, <1>10, PoolCases

\* Tokens leave the pool only as one reserved allocation, claimed in time and for
\* the first time by the recipient published for it; a published manifest changes
\* by nothing but claims and its end, and ids only grow.
THEOREM ClaimsCorrect == PoolOpenSpec => PoolOutflowIsOneClaim
  BY PoolInvInit, PoolInvStep, ClaimsStep, PTL DEF PoolOpenSpec, PoolOutflowIsOneClaim

LEMMA AllocatableGrows == PoolInv /\ [PoolOpenNext]_poolVars => [AllocatableStep]_poolVars
  <1>. SUFFICES ASSUME PoolInv, PoolOpenNext
               PROVE  AllocatableStep
    OBVIOUS
  <1>. USE DEF Available, Outstanding
  <1>0. PoolTypeOK
    BY DEF PoolInv
  <1>a. pool.liability \in Nat /\ pool.credited \in Nat /\ pool.paid \in Nat
    BY <1>0 DEF PoolTypeOK
  <1>1. ASSUME pool'.liability = pool.liability, pool'.credited = pool.credited, pool'.paid = pool.paid
        PROVE  AllocatableStep
    BY <1>1, <1>a DEF AllocatableStep
  <1>2. ASSUME NEW gov, NEW elig, NEW escrow \in PoolEscrows, NEW deployer,
               pool_initialize(gov, elig, escrow, deployer)
        PROVE  AllocatableStep
    BY <1>1, <1>2, InitializeLemma
  <1>3. ASSUME NEW m \in ManifestIds, NEW expires_at \in Nat, NEW recipients \in Seq(Holders),
               NEW amounts \in Seq(Int), publish_manifest(m, expires_at, recipients, amounts)
        PROVE  AllocatableStep
    <2>1. /\ Total(amounts) \in Nat /\ pool'.liability = pool.liability + Total(amounts)
          /\ pool'.credited = pool.credited /\ pool'.paid = pool.paid
      BY <1>3, PublishLemma
    <2>. QED  BY <1>a, <2>1 DEF AllocatableStep
  <1>4. ASSUME NEW m \in ManifestIds, NEW i, claim(m, i)
        PROVE  AllocatableStep
    <2>1. PICK a \in Nat : /\ pool'.liability = pool.liability - a /\ pool'.paid = pool.paid + a
                           /\ pool'.credited = pool.credited
      BY <1>4, ClaimLemma
    <2>. QED  BY <1>a, <2>1 DEF AllocatableStep
  <1>5. ASSUME NEW m \in ManifestIds, expire_manifest(m)
        PROVE  AllocatableStep
    BY <1>5, ExpireLemma DEF AllocatableStep
  <1>6. CASE RoleNext
    BY <1>0, <1>1, <1>6, RoleLemma DEF SameBooks
  <1>7. CASE PoolEnvironment /\ UNCHANGED pool
    BY <1>1, <1>7
  <1>8. CASE CreditStep
    BY <1>8, CreditLemma DEF AllocatableStep
  <1>. QED  BY <1>2, <1>3, <1>4, <1>5, <1>6, <1>7, <1>8, PoolCases

\* What may be allocated grows only by the first credit of a campaign or the expiry
\* of a manifest: no transfer to the pool and no claim adds to it.
THEOREM AllocatableCorrect == PoolOpenSpec => OnlyCreditsAreAllocatable
  BY PoolInvInit, PoolInvStep, AllocatableGrows, PTL DEF PoolOpenSpec, OnlyCreditsAreAllocatable

(***************************************************************************)
(* The closed system of the model-checking run.                            *)
(***************************************************************************)

\* No step of the ledger takes tokens out of the pool but a clawback.
LEMMA PoolLedgerStep ==
    ASSUME LedgerTypeOK, LedgerNext
    PROVE  PoolEnvironment
  <1>a. /\ Self \in Holders /\ Self \notin Accounts /\ authorized \subseteq Holders
        /\ balance \in [Holders -> Nat] /\ clawed \in [Holders -> Nat] /\ now \in Nat
    BY PoolAssumption, AddressAssumption, HostAssumption DEF Holders, LedgerTypeOK
  <1>1. CASE Tick
    <2>1. LedgerTypeOK'
      BY <1>1, HostAssumption DEF Tick, CloseLedger, LedgerTypeOK
    <2>. QED  BY <1>1, <1>a, <2>1 DEF Tick, CloseLedger, PoolEnvironment
  <1>2. ASSUME NEW from \in Payers, NEW to \in Payees, NEW a \in PaymentAmounts, Pay(from, to, a)
        PROVE  PoolEnvironment
    <2>1. a \in Int /\ from # Self
      BY <1>a, BoundAssumption, AddressAssumption
    <2>2. balance' \in [Holders -> Nat] /\ balance[Self] <= balance'[Self]
      BY <1>2, <1>a, <2>1, PoolTransferLemma DEF Pay
    <2>3. LedgerTypeOK'
      BY <1>2, <2>2 DEF Pay, LedgerTypeOK
    <2>. QED  BY <1>2, <1>a, <2>2, <2>3 DEF Pay, PoolEnvironment
  <1>3. ASSUME NEW h \in Holders, NEW a \in PaymentAmounts, Clawback(h, a)
        PROVE  PoolEnvironment
    <2>1. /\ a \in Nat /\ balance[h] >= a
          /\ balance' = [balance EXCEPT ![h] = balance[h] - a]
          /\ clawed' = [clawed EXCEPT ![h] = clawed[h] + a]
          /\ UNCHANGED <<now, signing, authorized>>
      BY <1>3, BoundAssumption DEF Clawback, SpendBalance
    <2>2. balance' \in [Holders -> Nat] /\ clawed' \in [Holders -> Nat]
      BY <1>a, <2>1
    <2>3. /\ \A g \in Holders : clawed[g] <= clawed'[g]
          /\ balance[Self] + clawed[Self] <= balance'[Self] + clawed'[Self]
      BY <1>a, <2>1
    <2>4. LedgerTypeOK'
      BY <2>1, <2>2 DEF LedgerTypeOK
    <2>. QED  BY <1>a, <2>1, <2>3, <2>4 DEF PoolEnvironment
  <1>4. ASSUME NEW h \in Holders, NEW authorize \in BOOLEAN, SetAuthorized(h, authorize)
        PROVE  PoolEnvironment
    <2>1. LedgerTypeOK'
      BY <1>4 DEF SetAuthorized, LedgerTypeOK
    <2>. QED  BY <1>4, <1>a, <2>1 DEF SetAuthorized, PoolEnvironment
  <1>. QED  BY <1>1, <1>2, <1>3, <1>4 DEF LedgerNext

\* What a credit changes, whoever makes the call.
LEMMA CreditEffect ==
    ASSUME PoolTypeOK, NEW c, NEW amount \in Int, NEW invoker, NEW held,
           record_credit(c, amount, invoker, held)
    PROVE  /\ pool'.credited = pool.credited + amount
           /\ pool'.campaigns = pool.campaigns \cup {c} /\ c \notin pool.campaigns
           /\ pool'.escrow = pool.escrow
           /\ poolInitialized /\ (invoker = pool.escrow \/ pool.escrow \in Accounts)
  <1>1. /\ pool' = [pool EXCEPT !.campaigns = pool.campaigns \cup {c},
                                !.credited = pool.credited + amount]
        /\ c \notin pool.campaigns /\ poolInitialized
        /\ invoker = pool.escrow \/ pool.escrow \in Accounts
    BY DEF record_credit, NotCredited, require_auth, PoolTypeOK, LedgerTypeOK
  <1>. QED  BY <1>1 DEF PoolTypeOK

\* A credit, by the escrow's invocation or by a direct call, is a credit in the
\* middle of an invocation that takes nothing from the pool.
LEMMA CreditInContext ==
    ASSUME PoolTypeOK, NEW c \in CreditIds, NEW amount \in Int, NEW invoker,
           PoolEnvironment, clawed' = clawed, NEW held \in balance[Self]..balance'[Self],
           record_credit(c, amount, invoker, held)
    PROVE  CreditStep
  <1>1. /\ pool'.credited = pool.credited + amount /\ pool.credited \in Nat /\ amount > 0
    BY CreditEffect DEF PoolTypeOK, record_credit
  <1>2. pool'.credited - pool.credited = amount /\ pool'.credited \in Nat
    BY <1>1
  <1>3. record_credit(c, amount, pool.escrow, held)
    BY DEF record_credit
  <1>4. record_credit(c, pool'.credited - pool.credited, pool.escrow, held)
    BY <1>2, <1>3
  <1>. QED  BY <1>2, <1>4 DEF CreditStep, CreditedBetween

\* A direct call of record_credit is such a credit too, and only an account that
\* was configured as the escrow can make it.
LEMMA DirectCreditLemma ==
    ASSUME PoolInv, NEW c \in CreditIds, NEW amount \in CreditAmounts, DirectCredit(c, amount)
    PROVE  /\ CreditStep /\ UNCHANGED ledgerVars
           /\ pool.escrow \in Accounts /\ pool'.escrow = pool.escrow
  <1>0. Self \in Holders /\ amount \in Int
    BY PoolAssumption DEF Holders
  <1>1. /\ PoolTypeOK /\ LedgerTypeOK /\ now \in Nat
        /\ balance \in [Holders -> Nat] /\ clawed \in [Holders -> Nat]
    BY HostAssumption DEF PoolInv, PoolTypeOK, LedgerTypeOK
  <1>2. UNCHANGED ledgerVars /\ LedgerTypeOK' /\ record_credit(c, amount, None, balance[Self])
    BY <1>1 DEF DirectCredit, ledgerVars, LedgerTypeOK
  <1>3. PoolEnvironment /\ clawed' = clawed
    BY <1>0, <1>1, <1>2 DEF PoolEnvironment, ledgerVars
  <1>4. balance[Self] \in balance[Self]..balance'[Self]
    BY <1>0, <1>1, <1>2 DEF ledgerVars
  <1>5. CreditStep
    BY <1>0, <1>1, <1>2, <1>3, <1>4, CreditInContext
  <1>6. pool'.escrow = pool.escrow /\ poolInitialized /\ (None = pool.escrow \/ pool.escrow \in Accounts)
    BY <1>0, <1>1, <1>2, CreditEffect
  <1>7. pool.escrow # None
    BY <1>6 DEF PoolInv, Orderly
  <1>. QED  BY <1>2, <1>5, <1>6, <1>7

\* The pool's own operations: they take tokens from nobody else, they credit
\* nothing, and initialize alone names the escrow.
LEMMA OwnStep ==
    ASSUME PoolInv, PoolNext
    PROVE  /\ UNCHANGED <<now, signing, authorized, clawed>> /\ LedgerTypeOK'
           /\ \A h \in Holders \ {Self} : balance[h] <= balance'[h]
           /\ pool'.campaigns = pool.campaigns /\ pool'.credited = pool.credited
           /\ \/ pool'.escrow = pool.escrow
              \/ pool.escrow = None /\ pool.campaigns = {} /\ pool.credited = 0
  <1>. DEFINE goal == /\ UNCHANGED <<now, signing, authorized, clawed>> /\ LedgerTypeOK'
                      /\ \A h \in Holders \ {Self} : balance[h] <= balance'[h]
                      /\ pool'.campaigns = pool.campaigns /\ pool'.credited = pool.credited
                      /\ \/ pool'.escrow = pool.escrow
                         \/ pool.escrow = None /\ pool.campaigns = {} /\ pool.credited = 0
  <1>0. PoolTypeOK /\ LedgerTypeOK /\ balance \in [Holders -> Nat] /\ PoolOpenNext
    BY DEF PoolInv, PoolTypeOK, LedgerTypeOK, PoolOpenNext
  <1>1. LedgerTypeOK'
    BY <1>0, PoolInvStep DEF PoolInv, PoolTypeOK
  <1>2. ASSUME UNCHANGED ledgerVars
        PROVE  /\ UNCHANGED <<now, signing, authorized, clawed>>
               /\ \A h \in Holders \ {Self} : balance[h] <= balance'[h]
    BY <1>0, <1>2 DEF ledgerVars
  <1>3. ASSUME NEW gov, NEW elig, NEW escrow \in PoolEscrows, NEW deployer,
               pool_initialize(gov, elig, escrow, deployer)
        PROVE  goal
    <2>1. /\ UNCHANGED ledgerVars /\ ~poolInitialized /\ pool'.campaigns = {}
          /\ pool'.credited = 0 /\ pool.credited = 0
      BY <1>3, InitializeLemma
    <2>2. pool.campaigns = {} /\ pool.escrow = None
      BY <2>1 DEF PoolInv, Orderly
    <2>. QED  BY <1>1, <1>2, <2>1, <2>2
  <1>4. ASSUME NEW m \in ManifestIds, NEW expires_at, NEW recipients, NEW amounts,
               publish_manifest(m, expires_at, recipients, amounts)
        PROVE  goal
    <2>1. /\ pool'.campaigns = pool.campaigns /\ pool'.credited = pool.credited
          /\ pool'.escrow = pool.escrow /\ UNCHANGED ledgerVars
      BY <1>0, <1>4 DEF publish_manifest, PoolTypeOK
    <2>. QED  BY <1>1, <1>2, <2>1
  <1>5. ASSUME NEW m \in ManifestIds, NEW i, claim(m, i)
        PROVE  goal
    <2>. DEFINE allocation == pool.manifests[m].allocations[i]
    <2>1. /\ pool'.campaigns = pool.campaigns /\ pool'.credited = pool.credited
          /\ pool'.escrow = pool.escrow
      BY <1>0, <1>5 DEF claim, PoolTypeOK
    <2>2. i \in DOMAIN pool.manifests[m].allocations
      BY <1>5 DEF claim, Claimable
    <2>3. allocation \in Allocations
      <3>1. pool.manifests[m] \in Manifests
        BY <1>0 DEF PoolTypeOK
      <3>2. pool.manifests[m].allocations \in Seq(Allocations)
        BY <3>1 DEF Manifests
      <3>. QED  BY <2>2, <3>2
    <2>4. allocation.amount \in Int
      BY <2>3 DEF Allocations
    <2>5. /\ CanTransfer(balance, Self, allocation.recipient, allocation.amount)
          /\ balance' = Transfer(balance, Self, allocation.recipient, allocation.amount)
          /\ UNCHANGED <<now, signing, authorized, clawed>>
      BY <1>5 DEF claim
    <2>. HIDE DEF allocation
    <2>6. \A h \in Holders \ {Self} :
             Transfer(balance, Self, allocation.recipient, allocation.amount)[h] >= balance[h]
      BY <1>0, <2>4, <2>5, PoolTransferLemma
    <2>7. \A h \in Holders : balance[h] \in Nat /\ balance'[h] \in Nat
      BY <1>0, <1>1 DEF LedgerTypeOK
    <2>8. \A h \in Holders \ {Self} : balance[h] <= balance'[h]
      BY <2>5, <2>6, <2>7
    <2>. QED  BY <1>1, <2>1, <2>5, <2>8
  <1>6. ASSUME NEW m \in ManifestIds, expire_manifest(m)
        PROVE  goal
    <2>1. /\ pool'.campaigns = pool.campaigns /\ pool'.credited = pool.credited
          /\ pool'.escrow = pool.escrow /\ UNCHANGED ledgerVars
      BY <1>0, <1>6 DEF expire_manifest, PoolTypeOK
    <2>. QED  BY <1>1, <1>2, <2>1
  <1>7. ASSUME RoleNext
        PROVE  goal
    <2>1. SameBooks /\ UNCHANGED ledgerVars
      BY <1>0, <1>7, RoleLemma
    <2>. QED  BY <1>1, <1>2, <2>1 DEF SameBooks
  <1>8. goal
    <2>. HIDE DEF goal
    <2>. QED  BY <1>3, <1>4, <1>5, <1>6, <1>7 DEF PoolNext, RoleNext
  <1>. QED  BY <1>8

LEMMA PoolClosedStep == PoolInv /\ [PoolSpecNext]_poolVars => [PoolOpenNext]_poolVars
  <1>. SUFFICES ASSUME PoolInv, PoolSpecNext
               PROVE  PoolOpenNext \/ UNCHANGED poolVars
    OBVIOUS
  <1>a. PoolTypeOK /\ LedgerTypeOK /\ Self \in Holders
    BY PoolAssumption DEF PoolInv, PoolTypeOK, Holders
  <1>0. /\ LedgerTypeOK /\ now \in Nat /\ Self \in Holders
        /\ balance \in [Holders -> Nat] /\ clawed \in [Holders -> Nat]
    BY <1>a, HostAssumption DEF LedgerTypeOK
  <1>1. ASSUME NEW c \in CreditIds, NEW amount \in CreditAmounts, EscrowCredits(c, amount)
        PROVE  PoolOpenNext
    <2>1. amount \in Int /\ pool.escrow # Self
      BY <1>a, <1>1, PoolAssumption DEF PoolTypeOK, Holders, EscrowCredits
    <2>2. balance' \in [Holders -> Nat] /\ balance'[Self] >= balance[Self]
      BY <1>0, <1>1, <2>1, PoolTransferLemma DEF EscrowCredits
    <2>3. LedgerTypeOK'
      BY <1>0, <1>1, <2>2 DEF EscrowCredits, LedgerTypeOK
    <2>4. PoolEnvironment /\ clawed' = clawed
      BY <1>0, <1>1, <2>2, <2>3 DEF EscrowCredits, PoolEnvironment
    <2>5. /\ record_credit(c, amount, pool.escrow, balance'[Self])
          /\ balance'[Self] \in balance[Self]..balance'[Self]
      BY <1>0, <1>1, <2>2 DEF EscrowCredits
    <2>6. CreditStep
      BY <1>a, <2>1, <2>4, <2>5, CreditInContext
    <2>. QED  BY <2>6 DEF PoolOpenNext, CreditStep
  <1>2. ASSUME NEW c \in CreditIds, NEW amount \in CreditAmounts, DirectCredit(c, amount)
        PROVE  PoolOpenNext
    BY <1>2, DirectCreditLemma DEF PoolOpenNext, CreditStep
  <1>3. CASE LedgerNext /\ UNCHANGED pool
    BY <1>0, <1>3, PoolLedgerStep DEF PoolOpenNext
  <1>. QED  BY <1>1, <1>2, <1>3 DEF PoolSpecNext, PoolOpenNext

\* Every behaviour of the closed specification is one of the open one.
THEOREM PoolClosedIsOpen == PoolSpec => PoolOpenSpec
  BY PoolInvInit, PoolInvStep, PoolClosedStep, PTL DEF PoolSpec, PoolOpenSpec

\* The pool with a minimal escrow and the ledger: all the results at once, for the
\* specification that the run checks.
COROLLARY PoolClosedCorrect ==
    PoolSpec => /\ [](PoolTypeOK /\ PoolBooks /\ PoolSolvency /\ NoSingleAuthority)
                /\ PoolOutflowIsOneClaim /\ OnlyCreditsAreAllocatable
  BY PoolClosedIsOpen, PoolTypeCorrect, PoolBooksCorrect, PoolSolvencyCorrect, AuthorityCorrect,
     ClaimsCorrect, AllocatableCorrect, PTL
=============================================================================
