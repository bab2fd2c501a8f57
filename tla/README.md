# TogetherFi on Stellar: TLA+ specification

This directory specifies the native Soroban contracts of TogetherFi
(`contracts/campaign_escrow`, `contracts/contributor_pool`,
`contracts/reputation_anchor`), the operator scripts that submit a completion
(`scripts/submit-testnet-completion.mjs`, `scripts/refresh-testnet-approval.mjs`),
and the parts of the patched Soroban host (`soroban-env-host-patch`) that the
contracts rely on: authorization, calls and rollback, storage, entry lives, the
Stellar Asset Contract, and values and budget. TLC checks them on small
instances; TLAPS proves, for every instance, the safety properties of the escrow,
the pools, their composition, the entry lives, the operator's script and the
token, and of the host that a signed authorization is used only in its context,
by its quorum and in one transaction, that a rollback returns exactly what was
used, and that a transaction hands the ledger exactly what its surviving frames
wrote.

## The system

| Component | State | Operations | Talks to |
|---|---|---|---|
| Campaign escrow | roles and pending roles, destinations, pause flag, total liability, campaigns, consumed operations | `initialize`, `fund`, `activate`, `complete`, `refund_expired`, `pause`/`unpause`, propose/accept of two roles | token (`transfer`, `balance`), both pools (`escrow_contract`, `token_contract`, `record_credit`) |
| Contributor pool (two instances) | roles and pending roles, escrow, pause flag, liability, credited, paid, latest manifest id, credited campaigns, manifests with allocations | `initialize`, `record_credit`, `publish_manifest`, `claim`, `expire_manifest`, `pause`/`unpause`, propose/accept of two roles | token; called by the escrow |
| Entry lives | the last ledger of every entry | `extend_ttl` calls of every operation, ledgers closing, archival, restoration | everything above |
| Reputation anchor | admin, one record per profile, events | `initialize`, `anchor_score`, `get_score`, `get_scores_batch` | nothing |
| Stellar Asset Contract | classic account entries and trustlines, contract balances, allowances, administrator, flags | `init_asset`, `approve`, `transfer`, `transfer_from`, `burn`, `burn_from`, `mint`, `clawback`, `set_authorized`, `set_admin` | called by everything |
| Host: authorization | trackers of signed entries and of invokers, match states per frame, nonces, recorded entries | `require_auth`, `authorize_as_curr_contract`, frame push/pop with snapshots, `__check_auth` | account contracts, nonce storage |
| Host: frames and storage | context stack, storage map and footprint, instance copies, events | call, `try_call`, data and instance storage, upload, create, upgrade, TTL extension, events, return, unwind | ledger, at commit |
| Host: values and budget | object table, one relative table per VM frame, consumed cpu and memory, fuel | constructors, readers, comparison, memory functions, conversion to and from `ScVal`, calls, traps | guests |
| Operator scripts (`scripts/*.mjs`) | a persisted manifest of signed envelopes | prepare, sign, submit, confirm, refresh, rotate signers | network RPC |

A sponsor funds a campaign and, by activating it, commits creator, referrer and
terms. The settlement authority completes it before it expires: one invocation
pays creator, service treasury, two pools and referrer in the fixed split
82/10/5/2/1 and records the pool legs as credits in the pools. After the expiry
anyone may send the whole amount back to the sponsor, even while paused. Each
pool pays credits out through manifests that governance and a separate
eligibility authority publish together; recipients claim, and after the window
anyone releases the rest for a later manifest.

What is hard here: settlement and refund race at the expiry second; every
campaign shares one balance and one running total; a completion spans three
contracts and seven calls and must take effect entirely or not at all; the
asset's issuer may freeze or claw back at any time; roles are handed over in two
steps that interleave; replays must be harmless; money must come back although
every privileged party may refuse to act and entries may be archived meanwhile.
Off chain, the operator's script must survive a crash or a lost answer at every
await. Inside the host, a frame that fails after it consumed authorizations,
wrote entries, emitted events and spent budget must undo the first three and not
the last, and arbitrary guests must not reach what belongs to others.
`PROJECT.json` lists each of these hazards at its line with the properties that
would catch it.

## Modules

| Module | Models |
|---|---|
| `Soroban` | the timestamp and who signs: the host as the contracts' specifications see it |
| `StellarLedger` | extends `Soroban` with the one configured token: balances, authorization, clawback |
| `CampaignEscrow` | the escrow on that ledger; the pools are environment |
| `ContributorPool` | one pool on that ledger; its storage is one record variable so that it can be instantiated twice |
| `TogetherFi` | the escrow and two instances of `ContributorPool`; completing a campaign is one action over all of them |
| `StorageLifetimes` | the lives of the entries of escrow, pools and their token balances |
| `ReputationAnchor` | the anchor, on `Soroban` alone |
| `SettlementOperator` | the submission and refresh scripts, their manifest file, and the network and RPC server as the scripts see them |
| `StellarAsset` | the whole Stellar Asset Contract; instantiates `StellarLedger` to show that the abstraction agrees |
| `HostAuth` | pure operators of the authorization manager and of account authentication (`auth.rs`, `account_contract.rs`, `invoker_contract_auth.rs`) |
| `HostCalls` | frames, calls and failures driving that manager (`host/frame.rs`, `auth.rs`, `host/lifecycle.rs`) |
| `HostStorage` | footprints, data and instance storage, code, events, commit (`storage.rs`, `host/data_helper.rs`, `e2e_invoke.rs`, ...) |
| `HostValues` | values as pure operators: representation, order, containers, conversion, wide integers |
| `HostObjects` | guests calling the functions of `HostValues`: object tables, relative handles, budget and fuel |
| `Totals` | sums of amounts, counted (`Units`, `Total`) |
| `ContributorPool_proofs`, `StorageLifetimes_proofs`, `SettlementOperator_proofs`, `StellarAsset_proofs`, `HostCalls_proofs`, `HostStorage_proofs` | the theorems about these modules |
| `TogetherFi_proofs` | the theorems about `CampaignEscrow`, in its first part, and about the composition |
| `Totals_proofs` | lemmas about sums, used by the pool's, the token's and the host's proofs |
| `MC*` | constants for TLC |

Three modules describe one invocation from three sides: `HostCalls` has its
authorizations, `HostStorage` its writes, `HostObjects` its values and cost. Each
has frames that are pushed, return, fail and unwind one at a time. The contracts'
specifications use what these three establish together: an invocation takes
effect as a whole or not at all, and only with the signatures it needs.

### How the code is read

* **An action is an invocation** in the contracts' modules. Soroban rolls a
  failed invocation back as a whole, so each early return (named in a comment
  next to the guard) and each trap is a conjunct of the guard, and all effects,
  transfers and nested calls included, are in one step. The transfers of
  `complete` are still evaluated one after the other (`AfterCreator`,
  `AfterService`, ...), because the destinations may coincide with each other,
  with a pool or with the escrow.
* **An action is a host function** in the host's modules. The code of a contract
  is left open: in any frame it may call any function with any argument of the
  instance's sets, return or fail. A failure sets `raised`, and `Unwind` pops one
  frame a step until a `try_call` recovers, as `with_frame` does.
* **Authorization.** In the contracts' modules `signing` is the set of accounts
  whose keys sign; it is chosen in the initial state and constant, so
  `a.require_auth()` is `a \in signing`. A contract address passes `require_auth`
  only as the invoker (`record_credit`). `HostCalls` models what stands behind:
  trees of signed calls, trackers with a match state per frame, thresholds and
  nonces. Trees are functions from paths to functions; the match state of a frame
  is the set that holds the path of the node it matched, empty if it matched none
  (the code has indices, which determine the path); a signature is the pair of a
  key and what was signed.
* **Optional results.** Functions of the token and the host that can fail return
  the set of their results: empty on failure, one element otherwise.
* **Numbers.** Amounts are integers; the code's overflow checks are guards against
  `I128Max`, `I64Max`, `PoolMax` and `MaxTimestamp`. `HostValues` keeps the width
  of words (`WordMax`), lengths (`U32Max`) and small values (`SmallMax`).
* **Pure data** (hashes, terms, names, event payloads of the escrow and the
  pools) is left out or is a model value. `funded_at` is not modelled: nothing
  reads it. One type stands for each kind of value: `U64` for unsigned numbers,
  `I256` for signed ones, `Bytes` also for strings and addresses.
* **The scripts** run one at a time, one action per await that something outside
  can observe. `saveManifest` replaces the file by a rename, so an assignment in
  memory and the save after it are one step (a crash in between is a crash
  before it), and no separate copy of the manifest in memory is needed. `Fail`
  is a crash or an exception nobody catches, at any point. The network queues
  only an envelope that is in sequence, in time and signed by two members;
  whatever it did, the answer may be lost. Signature sets are abstracted to the
  label: the one-signature and the fully signed envelope.
* **Lives.** In `StorageLifetimes` an operation is what it needs alive, what it
  extends and the status it changes. An instance stands for its code too.
* **Sums.** Totals that a property compares with the code's running totals
  (amounts of escrow, pool and token, weights of signatures in the host) are
  written as the number of units in a set of pairs (`OwedUnits` of the escrow;
  `Units` and `Total` elsewhere), which TLC enumerates and TLAPS can reason about
  without induction.
* **History variables**: `clawed` (what the issuer took from each address),
  `issued`, `granted` and `lapsing` of the token, `accessed`, `reentered` and
  `effects` in `HostStorage` (the values and events as if frames wrote them to
  the ledger directly, with a copy per frame to return to), the frames' `grants`
  and `trace` in `HostCalls`, `work` in `HostObjects`. No guard of code reads them.
* **Bounds** are the constants whose comment says "bound" (`MaxSteps`, `MaxTxs`,
  `MaxSeq`, `MaxOps`, `MaxFrames`, `MaxTouches`, `MaxRecorded`), `MaxTimestamp`
  (also the value at which timestamp arithmetic traps), `MaxClawed`, `MaxEvents`,
  and the sets of amounts, ids and addresses. In `SettlementOperator`:
  `MaxApprovals`, `MaxEntries`, `MaxFailures`, `MaxSequence`.

## Runs

| Run | Question | Instance |
|---|---|---|
| `escrow` | Are books, balance and split exact, are commitments final, do tokens leave only by settling one campaign, who may spend and take over roles, and is every funded campaign settled in the end? | 2 campaigns, 2 sponsors, amounts 99, 101, 102, expiry 1, timestamps to 2, a freeze, a clawback, two sets of signers; `FairSpec` |
| `escrow_governance` | README.md 104: can governance settle by itself? **It can**, see Findings | governance and a sponsor sign |
| `pool` | Do the pool's totals match its manifests, are claims paid once and in time, is nothing but credits allocatable, do the two authorities stay two, and does every reservation end? | 2 credits, 2 manifests, 8 lists of which 5 malformed, donations, a clawback, the escrow contract or an account as escrow; `PoolFairSpec` |
| `system` | Do the three contracts agree on what was completed, is every total backed, and does each contract behave as its open specification says? | 2 campaigns, pools bound to this or another escrow, a pool as creator, a donation, one manifest per pool |
| `anchor_records` | Do records, events and reads agree, with one writer? | 2 profiles, 3 anchors, scores 0, 1000, 1001 |
| `operator` | Does the manifest show everything that was broadcast, claim no success that is untrue, lose no confirmation, and does a completion on the ledger get confirmed? | 2 approvals, up to 4 entries, 1 crash besides lost, refused and late answers; `OperatorFairSpec` |
| `operator_resubmission` | submit-testnet-completion.mjs 40: is a confirmed completion never resubmitted? **It can be**, see Findings | 1 approval, 2 crashes, an RPC server that forgets |
| `host_auth` | Is a part of a signed tree used only in its context, by its quorum and once; does rollback return exactly what was used; do recorded entries suffice? | 2 contracts, an account contract, a 2-of-3 account, 4 sets of entries (one signed twice by one key, one with an undeclared nonce), 2 transactions in 3 ledgers, 6 steps each |
| `host_storage` | Does the ledger get exactly the writes and events of frames that survived, does life never shrink, does a recorded footprint suffice? | 2 contracts, one not deployed, 2 codes, one data key in each durability, 2 footprints, 2 transactions in 3 ledgers, 4 host functions |
| `token` | Is the supply what was issued, an allowance what was approved, and does `StellarLedger` agree with the token? | issuer, holder, contract; native and issued asset; three trustlines (liabilities, clawable, absent), two sets of issuer flags and no issuer account, 4 operations in 3 ledgers |
| `host_values` | Does a guest reach only its own objects, is the order that of the values, can what is built be stored and loaded back, is every instruction paid once? | two frames, 7 units of cpu and memory, words to 3, three small values (a word, a symbol and an I256 of -1), objects of numbers that also have a small value, malformed encodings, forged handles |
| `lifetimes` | Does what a refund, claim or expiry needs live until then untouched, and does archival never keep them from ending? | 1 campaign, 1 pool, a manifest of 2 allocations, 6 ledgers; `FairSpec` |

Why the bounds are enough. Two campaigns are what it takes for one to be paid
with the other's money, and the theorems below remove the bound for the books.
Amounts 99 and 102 are the first ones outside the accepted range for the
instance's `I128Max`, and 101 the largest inside, with a rounding remainder; the
theorem about the split covers every amount. Expiry and
timestamps give a second before, at and after each boundary. Two credits and two
manifests let a released reservation be published again and claims of one
manifest overlap with the expiry of another. One unit of donation, freezing and
clawback each separates `<` from `<=` in every deficit check. For the scripts,
two approvals let an envelope outlive its replacement, and four entries are one
interrupted and two further attempts. In `host_auth`, six steps reach a call
below a call below a `try_call` that fails after it consumed both levels of a
tree, and two transactions in three ledgers replay a nonce before and after its
temporary entry ends. In `host_storage`, four functions reach a nested call that
writes, deletes or upgrades and then fails, and a second transaction after the
entry's minimal life. Four token operations cover approve, a later ledger, spend
and re-approve. Seven units of budget are enough for a nested call that is
entered, builds values, traps and is resumed, and are exhausted in most
behaviours. The numbers of `lifetimes` keep the order of the code's: the life of a
balance is shorter than `TTL`, a balance above its threshold is not extended,
and `EXPIRY` fits into `TTL` at the fastest cadence. No deadlock is checked:
contracts at rest with a bound reached are a normal end.

**Fairness.** `FairSpec` of the escrow and `PoolFairSpec` assume that ledgers keep
closing and that `refund_expired` / `expire_manifest`, which need nobody's
authorization, are eventually called when they stay possible (the sponsor, or the
next recipient, has the interest). Nothing is assumed of governance, settlement,
eligibility, sponsors or recipients. `FundsAreReleased` is conditional where the
issuer's powers bite: a frozen sponsor or a clawed-back escrow does block
refunds, and `RefundAlwaysPossible` states exactly when. `FairSpec` of
`StorageLifetimes` adds that anyone who waits for money restores the entries it
needs; the refund itself gets strong fairness, because a restored entry may be
archived again before the refund is included, and somebody who keeps trying wins
in the end.

`OperatorFairSpec` assumes that a running script goes on (it has a single thread
and every await ends) and that the operator reruns the submission until the
manifest says confirmed; crashes are bounded. The confirmation is promised only
while the RPC server keeps its history, for an approval that was not overtaken,
and while no unrelated payment moves the compared balances. Each restriction is
needed: without the first, a rerun cannot learn of the success; a refresh that
overtakes a queued envelope leaves a new approval that can never complete; and
line 80 of the script insists on exact deltas.

**Mutants.** Next to some definitions stands a variant marked "Mutant": the
definition with a plausible mistake. Each property is paired with one under which
TLC finds it violated.

## The abstraction of the token

`StellarAsset` returns, for every operation, the set of states it can end in.
`LedgerAgrees` maps such a state to `StellarLedger` (balances, who is authorized,
how much each can hold) and requires, in every reachable state of an issued
asset, for every pair of plain holders and every amount, that a transfer succeeds
in one exactly when it does in the other and with the same balances. The run
`token` checks it on a small token, and `LedgerCorrect` proves it for every one.
So the contracts' specifications rest on a ledger that was compared with the token's code and not with its
documentation. Issuer and liabilities are outside the abstraction: the parties of
the escrow are neither the issuer nor accounts with open offers.

## Findings

* `escrow_governance`: README.md 104 says "Governance cannot authorize
  settlement by itself." The code lets governance propose itself as settlement
  authority, accept, and complete; the current settlement authority is not asked.
  README.md 145-146 and docs/testnet-acceptance.md describe that path as a
  custody requirement.
* `operator_resubmission`: the script refuses to resubmit a completion recorded as
  confirmed ("do not resubmit", submit-testnet-completion.mjs 40) but looks only
  at the first entry of the hash. After an interrupted first attempt it is the
  second entry that carries the confirmation; if the script then stops before
  closing the approval and the RPC server drops the transaction, the next run
  submits it again. The ledger refuses the duplicate.
* `lifetimes`: README.md 236-238 says "a scheduled TTL touch is required while a
  claim window remains active". The code needs none: `publish_manifest` gives the
  pool's instance, the manifest and its allocations 700000 ledgers, 40 days at the
  cadence named beside the constant, and a claim window has at most 30. So
  `LiveToTheEnd`, which allows no touch, holds, and `LivesCorrect` proves it under
  `LifetimeAssumption`. That assumption is the limit of the claim: with ledgers
  faster than 3.7 seconds a touch is needed. The pool's token balance, which a
  claim needs too, can end up to a day before the window, as in the first
  observation below, and `extend_manifest_ttl` does not extend it.

Observations made while modelling, which no property states as a violation:

* The comment at campaign_escrow/src/lib.rs 25-28 says a funded campaign stays
  alive "through its 30-day timestamp expiry even without a keeper touch". That
  holds of the record and the instance (`LiveToTheEnd`). It is not certain of the
  escrow's token balance, which the token extends to 30 days only when at most 29
  are left: the balance can be archived up to a day before a campaign funded
  later expires, and must be restored before the refund. `EndsDespiteArchival`
  shows that this only delays.
* A pool's instance is extended by calls to the pool alone, so it can be archived
  while a campaign is active, and `complete` then waits for its restoration. Nor
  does `extend_campaign_ttl` extend the instance of the escrow.
* The comment on `ScoreRecord` (reputation_anchor/src/lib.rs 41-42) says every
  field is preserved across re-anchors; `anchor_score` replaces the record, and
  an empty reference erases the stored one.
* A zero approval that names a later ledger stores that ledger in an existing
  allowance without extending the life of the entry; a following approval up to
  that ledger does not extend it either, and ends early. `AllowanceIsAsApproved`
  excludes those pairs (`lapsing`).
* `RecordedEntriesSuffice` holds when contracts use one object per address.
  Recording finds trackers by object handle: two objects of one address in
  sibling calls are recorded as separate entries. The run has one object per
  address.
* A contract that authorizes calls of its own and then fails before it makes any
  call leaves trackers that the rollback does not expect ("unexpected bad auth
  snapshot"): the failure becomes an internal error, from which `try_call` does
  not recover.
* A contract that is entered again through `__check_auth` keeps its own copy of
  the instance storage; the outer frame's copy overwrites it on return.
* The documentation of `LedgerEntryLiveUntilChange` (e2e_invoke.rs 116-117) says
  the new life is never below the old one; for a removed entry it is 0.
  Extensions of read-only entries are not among the rent changes.

## Proofs

The theorems hold for all values of the constants that satisfy the named
assumptions of the modules. None bounds the number of campaigns, manifests,
approvals, frames, entries or ledgers; the assumptions say that sets of addresses
and ids are finite, accounts and contracts disjoint, amounts and capacities
within their integer types, and:

| Assumption | What it adds | Why the code justifies it |
|---|---|---|
| `EscrowAssumption`, `PoolAssumption` | the deployer and sponsors are accounts, the contract is none of its own counterparties | construction, `require_auth` of a sponsor |
| `DeploymentAssumption` | two pools, neither of which is a pool's escrow | separate deployments |
| `OperatorAssumption` | only that the bounds are numbers | |
| `LifetimeAssumption` | `EXPIRY` fits into `TTL` ledgers at the fastest cadence, and so on | the constants at campaign_escrow/src/lib.rs 25-28 |
| `TokenAssumption`, `ClassicAssumption` | trustlines and balances within their limits | what the ledger guarantees of classic entries |
| `AuthAssumption`, `CallsAssumption` | entries are finite lists whose expiration is a ledger number, and those of classic accounts carry lists of signatures by keys; weights and thresholds fit a byte | the types of the transaction and of account entries |
| `StorageAssumption` | the shortest lives are positive and within the longest one, extensions are numbers, footprints name keys of the model | the network's settings, the types of the transaction |

### What is proved

| Module | Theorem | Statement |
|---|---|---|
| escrow | `TypeCorrect` | `OpenSpec => []TypeOK` |
| | `LiabilityCorrect` | `OpenSpec => []LiabilityIsOpenCampaigns` |
| | `SplitCorrect` | `OpenSpec => []SplitIsExact` |
| | `SolvencyCorrect` | `OpenSpec => []Solvency` |
| | `GovernanceCorrect` | `OpenSpec => []GovernanceCanSign` |
| | `ReplayCorrect` | `OpenSpec => []ConsumedIffCompleted` |
| | `CommitmentsCorrect` | `OpenSpec => CommitmentsAreFinal` |
| | `OutflowCorrect` | `OpenSpec => OutflowIsOneSettlement` |
| | `SpendCorrect` | `Spec => OnlySignersSpend` |
| | `ClosedIsOpen`, `ClosedCorrect` | `Spec => OpenSpec`, so `Spec` has all of the above |
| pool | `PoolTypeCorrect` | `PoolOpenSpec => []PoolTypeOK` |
| | `PoolBooksCorrect` | `PoolOpenSpec => []PoolBooks` |
| | `PoolSolvencyCorrect` | `PoolOpenSpec => []PoolSolvency` |
| | `AuthorityCorrect` | `PoolOpenSpec => []NoSingleAuthority` |
| | `ClaimsCorrect` | `PoolOpenSpec => PoolOutflowIsOneClaim` |
| | `AllocatableCorrect` | `PoolOpenSpec => OnlyCreditsAreAllocatable` |
| | `PoolClosedIsOpen`, `PoolClosedCorrect` | `PoolSpec => PoolOpenSpec`, so `PoolSpec` has all of the above |
| system | `EscrowRefined` | `SystemSpec => EscrowInContext` |
| | `PoolsRefined` | `SystemSpec => PoolsInContext` |
| | `SystemEscrowCorrect`, `SystemPoolsCorrect` | `SystemSpec` has the results about escrow and pools |
| | `SystemBooksCorrect` | `SystemSpec => []SystemBooks` |
| lives | `LivesCorrect` | `Spec => []LiveToTheEnd` |
| operator | `OperatorInvariant` | `OperatorSpec => []OperatorInv` |
| | `BroadcastsCorrect` | `OperatorSpec => []BroadcastIsRecorded` |
| | `RecordsCorrect` | `OperatorSpec => []RecordsAreTrue` |
| | `EvidenceCorrect` | `OperatorSpec => EvidenceIsFinal` |
| token | `AssetInvariant` | `Spec => []AssetInv` |
| | `SupplyCorrect` | `Spec => []SupplyIsIssued` |
| | `AllowanceCorrect` | `Spec => []AllowanceIsAsApproved` |
| | `LedgerCorrect` | `Spec => []LedgerAgrees` |
| host | `HostInvariant` | `Spec => []HostInv` |
| | `NoReplayCorrect` | `Spec => []NoReplay` |
| | `GrantInvariant` | `Spec => []GrantInv` |
| | `ContextCorrect` | `Spec => []GrantedInContext` |
| | `RollbackCorrect` | `Spec => []GrantsSurviveExactly` |
| storage | `StorageInvariant` | `Spec => []StorageInv` |
| | `FootprintCorrect` | `Spec => []RecordedFootprintSuffices` |
| | `LivesNeverShrink` | `Spec => LifeNeverReduced` |
| | `CommitCorrect` | `Spec => []CommitIsSurvivingWrites` |

### The arguments

**Escrow.** `OpenSpec` is the escrow in any context: between its operations the
environment may do anything to clock and token except take tokens out of the
escrow other than by clawback. So the theorems do not depend on which other
contracts exist. `TypeOK` is inductive by itself: the only delicate steps are the
five chained transfers of `complete`, for which `TransferLemma` and
`PayoutLemma` show that each intermediate ledger is well-typed whatever the
destinations are. `LiabilityIsOpenCampaigns` is not inductive: that settling a
campaign lowers the number of owed units by exactly its amount needs the amount
to be within `1..MaxAmount` and no campaign to exist before initialization
(which resets the liability to 0). The inductive invariant is

    BooksInv == TypeOK /\ AmountsInRange /\ NothingBeforeInit /\ LiabilityIsOpenCampaigns

and the change of the cardinality is proved by splitting `OwedUnits` into the
block of one campaign and the rest (`BlockLemma`, `OwedOnOpen`, `OwedOnSettle`).
`SplitIsExact` follows from `AmountsInRange` by arithmetic (`SplitLemma`).
`Solvency` is inductive relative to `BooksInv`: `PayoutLemma` bounds what
`complete` takes from the escrow by the campaign's amount, for coinciding
destinations too. `ConsumedIffCompleted` needs to know that an active campaign has
operation version 1, the only version whose marker `complete` can then write:

    ReplayInv == TypeOK /\ ActiveIsVersionOne /\ ConsumedIffCompleted

`OutflowIsOneSettlement` also needs `SponsorsSign`, that the sponsor of every
campaign signs and so is an account: a refund then pays somebody other than the
escrow itself, and the whole amount really leaves. `OnlySignersSpend` is a
property of `Spec` only, since the environment of `OpenSpec` may spend what
belongs to others.

**Pool.** The books are inductive once it is known that nothing exists before
initialization, that manifests are published in the order of their ids, and that
they have between 1 and `MAX_ALLOCATIONS` allocations (`Orderly`):

    PoolInv == PoolTypeOK /\ Orderly /\ PoolBooks

A claim moves one allocation's units from reserved to paid, an expiry drops all of
a manifest's; `Totals_proofs` has what one more, one less or one changed amount
does to a total. `NoSingleAuthority` needs `TwoAuthorities`, that the two roles
differ *and* both sign: the acceptance of one role checks the other's current
holder, so it is the interleaving of two pending proposals that the step proof
splits on.

**System.** `EscrowRefined` and `PoolsRefined` are refinements step by step: each
step of the composition is, for each contract, one of its own operations or a step
of its context. A completion is `complete` for the escrow and a `record_credit`
for each pool. The invariants of the parts (`Parts`) come along; what links them is

    LinkInv == Parts /\ Wired /\ CreditsMatchCompletions

where `Wired` says that an initialized escrow's pools point back to it, and that a
pool which points to it has no credits before.

**Lives.** An entry's life is in ledgers and the expiry in seconds. `LifeInv` says
that every open campaign and active manifest is *covered*: what is left of the
life, at the fastest cadence, reaches its expiry. `Covers` is kept by a ledger
that closes however long it takes, and by any extension; `TTL` covers `EXPIRY`.

**Operator.** `OperatorInv` adds to the two invariants what the script knows at
each await: while a submission is under way the last entry is its entry, every
fully signed submission is preceded by the refusal of its envelope, `verify` is
reached only with the completion on the ledger, and a refresh only while neither
the approval nor an entry says confirmed. A crash forgets the await and
keeps the file, which is why each part is about the file or guarded by `pc`.

**Token.** `AssetInv` is `TokenOK` (entries well formed, amounts within their
types, a trustline without liabilities within its limit), `SupplyIsIssued`
and `AllowancesMatch`: what is left of an allowance is in the entry, and the entry
lives at least until the ledger it names while something is left. That last part
is what fails for the pairs in `lapsing`. Each operation is reduced to spends and
receipts, which change one holder (`OnlyAt`), so that the supply changes by what
that holder's does. `LedgerAgrees` follows from `TokenOK` by comparing the
conditions of `transfer` case by case.

**Host.** `NoReplay` relates transactions that are ledgers apart, and whether a
node was used depends on rollbacks in between, so the invariant says what every
state a rollback could restore has in common. `HostInv` consists of

* `UsedConsumed`: the nonce of an entry that a committed transaction used is on
  the ledger at least until the signature expires;
* `GrantsOK`: what a frame was granted rests on a nonce that this transaction
  consumed, now and in the nonces saved by each frame above;
* `TrackersOK`: an entry that counts as verified has its nonce consumed; the
  borrowed entries are those with a `__check_auth` frame on the stack, one frame
  each, and none of them is verified;
* `SnapshotOK`, for each frame: what its snapshot restores as verified was backed
  by the nonces the frame saved, and the snapshot skipped exactly the entries that
  were borrowed when it was taken.

A rolled-back frame thus gives back entries and nonces of the same moment. After
an internal error, which no `try_call` recovers from, only `GrantsOK` is needed
(the mismatch of snapshots described under Findings may leave trackers behind,
but nothing commits). A nonce is consumed only if it is not on the ledger; so a
second transaction could use the same entry only after the nonce's entry ended,
and by then the signature has expired.

`GrantedInContext` and `GrantsSurviveExactly` are about what each frame was
granted. Neither is inductive: which node the next `require_auth` matches depends
on the match states below it. `GrantInv`, proved relative to `HostInv`, relates
the match states to the grants:

* `CallsFit`, `MatchesFit`: the manager's stack has the functions of the frames,
  and the match states of an entry belong to the frames, from the second one
  upward. What a frame matched is a node for its function, whose parent a frame
  below was granted (`InContext`), and the frame was granted it, except perhaps
  the last match, which is pending while the entry is being authenticated;
* `Settled`: the nodes an entry has used are those the frames hold. While its
  `__check_auth` runs they are those plus the pending one, and nothing above the
  check uses the entry (`CheckFits`);
* `RestoreFits`: what the snapshot of a frame restores are the nodes that the
  frames below hold, and every nonce that the frame would leave consumed is that
  of an entry restored as verified (`Consumed`, also of the present state);
* `EntrySigned`: a verified entry of a classic account, now or in any snapshot,
  carries the signatures of a quorum.

The code checks that each signer's key is greater than the one before. That all
keys are then distinct is an induction, done as a minimal counterexample
(`KeysIncrease`), and `TotalReindexed` turns the sum over signatures into the sum
over keys. After an internal error only `GrantsFit` is needed.

**Storage.** `StorageInv` says that every key has at most one entry, now and in
the map that each frame would restore, and that in enforcing mode all these maps
have an entry, or its absence, for every key of the footprint. The latter
is why a rollback cannot make an access fail that was allowed before; and since a
rollback restores the map and not the footprint, a recorded footprint keeps every
access. `LifeNeverReduced` follows at the commit, by what it makes of each key:
an entry's life is the greater of the old and the new one.

`CommitIsSurvivingWrites` compares the map with `effects`, in which frames write
to the ledger directly and a rollback returns to a copy. The two differ in between
because a frame keeps its own copy of its contract's instance storage and writes
it back when it returns:

    ValuesInv == PresentInv /\ FitsInv

`FitsInv` says that, now and at every rollback point, the map gives (`Held`) what
the frames wrote, except the instance of a frame that changed its copy; there
`effects` has the executable of the map and the store of the copy. An upgrade
writes the executable while the copy is modified, and the write on return reads
the executable again: so the two parts are tracked separately. It needs one frame
for each contract, and so is claimed while no contract was entered again.
`PresentInv`, that the contracts of all frames have an instance at every rollback
point, excludes that a creation replaces the contract of a running frame.
`EventsInv` does the same for events: those before a frame's mark that are not
marked failed are what the frame's copy of `effects` has, so marking the later
ones returns to it.

### Only model-checked

* Liveness (`FundsAreReleased` and its like): fairness is out of the prover's reach.
* `RefundAlwaysPossible`, which contains `ENABLED`.
* `RecordedEntriesSuffice`, which replays a simulated transaction's whole history
  of calls by a fold, and `RecordsAgree`, which compares with a batch read that
  selects from a list: both are inductions over data.
* `HostObjects`: the order and the conversion of nested values are RECURSIVE
  operators, about which the prover cannot reason.

## Not modelled

* Cryptography, pseudo-random numbers, fee formulas, calibrated cost parameters,
  the parsing and instantiation of Wasm: arithmetic on data outside TLC's reach,
  or single expressions.
* Division, shifts and powers of wide integers, their big-endian conversions,
  address strings, names and symbols of assets.
* Sizes, rent and fees of entries; `HostStorage` has their lives.
* Two operator scripts at once (nothing locks the manifest; the operator
  instructions run them one by one) and the file that members sign; both hazards
  are listed without a property. The rotation, deployment and fixture scripts are
  straight-line drivers whose effects on chain are the modelled actions.
* Source verification and review packaging, which are I/O without protocol state;
  test support.

## Plan

1. Done: the contracts, their composition, the lives of their entries, the
   operator's scripts, the token and the host.
2. Done: the proofs listed above; every safety property that the runs check is a
   theorem, except those under "Only model-checked".
3. Possible next steps: the two hazards without a property (the signing file of a
   refresh, and two scripts on one manifest), and division and shifts of wide
   integers in `HostValues`.
