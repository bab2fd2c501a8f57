-------------------------- MODULE ReputationAnchor --------------------------
(***************************************************************************)
(* The reputation anchor (contracts/reputation_anchor/src/lib.rs): an admin *)
(* fixed at initialization writes one score record per profile, each write *)
(* publishes an event, and anyone reads the records.                       *)
(***************************************************************************)
EXTENDS Soroban, Sequences, SequencesExt

CONSTANTS
    None,            \* a storage key without a value
    AnchorDeployer,  \* the address in the authenticated contract-ID preimage
    Admins,          \* addresses passed to initialize as admin
    Profiles,        \* profile ids
    Subjects,        \* addresses passed as creator_stellar_address
    Scores,          \* u32 scores passed to anchor_score
    Tiers,           \* symbols passed as tier: any symbol is accepted
    References,      \* values of the optional arbitrum_tx_hash
    Requests,        \* profile_ids lists passed to get_scores_batch
    MaxEvents        \* bound on the number of anchors in a behaviour

VARIABLES
    admin,    \* DataKey::Admin
    scores,   \* DataKey::Score(profile_id)
    events    \* the events published so far, in ledger order

anchorVars == <<now, signing, admin, scores, events>>

ASSUME AnchorAssumption ==
    /\ AnchorDeployer \in Accounts
    /\ Admins \subseteq Accounts
    /\ Scores \subseteq Nat
    /\ Requests \subseteq Seq(Profiles)
    /\ MaxEvents \in Nat

\* The event carries the record without its creator.
EventOf(r) == <<r.profile_id, r.score, r.tier, r.anchored_at, r.arbitrum_tx_hash>>

----------------------------------------------------------------------------
require_initialized == admin # None

get_score(p) == scores[p]

Found(p) == get_score(p) # None

get_scores_batch(ids) ==
    FoldLeft(LAMBDA results, p :
                 IF Found(p) THEN Append(results, get_score(p)) ELSE results,
             <<>>, ids)

ValidScore(score) == score <= 1000

\* Mutant: the first record of a profile is kept.
Upsert_insert_only(p, record) ==
    scores' = IF Found(p) THEN scores ELSE [scores EXCEPT ![p] = record]

Upsert(p, record) == scores' = [scores EXCEPT ![p] = record]

----------------------------------------------------------------------------
AnchorInit ==
    /\ HostInit
    /\ admin = None
    /\ scores = [p \in Profiles |-> None]
    /\ events = <<>>

anchor_initialize(newAdmin, deployer) ==
    /\ admin = None                                  \* AlreadyInitialized
    /\ deployer = AnchorDeployer                     \* InvalidDeployment
    /\ require_auth(deployer)
    /\ newAdmin # deployer => require_auth(newAdmin)
    /\ admin' = newAdmin
    /\ UNCHANGED <<now, signing, scores, events>>

anchor_score(p, creator, score, tier, reference) ==
    LET record == [profile_id |-> p, creator |-> creator, score |-> score, tier |-> tier,
                   arbitrum_tx_hash |-> reference, anchored_at |-> now]
    IN  /\ require_initialized                       \* NotInitialized
        /\ require_auth(admin)
        /\ ValidScore(score)                         \* InvalidScore
        /\ Len(events) < MaxEvents
        /\ Upsert(p, record)
        /\ events' = Append(events, EventOf(record))
        /\ UNCHANGED <<now, signing, admin>>

AnchorNext ==
    \/ \E newAdmin \in Admins, deployer \in Accounts : anchor_initialize(newAdmin, deployer)
    \/ \E p \in Profiles, creator \in Subjects, score \in Scores, tier \in Tiers,
          reference \in References : anchor_score(p, creator, score, tier, reference)
    \/ CloseLedger /\ UNCHANGED <<admin, scores, events>>

AnchorSpec == AnchorInit /\ [][AnchorNext]_anchorVars

----------------------------------------------------------------------------
(* Properties.                                                             *)

\* The positions of profile p's events.
EventsOf(p) == {i \in DOMAIN events : events[i][1] = p}

\* A listener that keeps the last event of every profile has what the contract
\* stores, the creator aside, through any interleaving of anchors: a profile has
\* a record exactly when it has an event, and the record is its latest event.
ScoresFollowEvents ==
    \A p \in Profiles :
        /\ Found(p) <=> EventsOf(p) # {}
        /\ Found(p) => \E i \in EventsOf(p) :
              /\ \A j \in EventsOf(p) : j <= i
              /\ events[i] = EventOf(scores[p])

\* A batch read returns, for every request with its repetitions and its missing
\* profiles, the records of the found ones in the order of the request, so that
\* each result carries the profile_id it was requested by.
BatchMatchesRequest ==
    \A ids \in Requests :
        get_scores_batch(ids) =
            LET found == SelectSeq(ids, Found) IN [i \in DOMAIN found |-> get_score(found[i])]

\* What the contract stores, what its events said and what a batch read returns
\* agree after any interleaving of anchors.
RecordsAgree == ScoresFollowEvents /\ BatchMatchesRequest
=============================================================================
