------------------------- MODULE SettlementOperator -------------------------
(***************************************************************************)
(* The operator's side of a completion: the scripts                        *)
(* submit-testnet-completion.mjs and refresh-testnet-approval.mjs with the *)
(* manifest file they share, the network they submit to, and the crashes   *)
(* they must survive.  One script runs at a time.  The manifest is         *)
(* replaced by an atomic rename (saveManifest), so a change made in memory *)
(* and the save that follows it are one step: a crash between the two is a *)
(* crash before the step.  An envelope is named by the number of the       *)
(* approval it was frozen for; the one-signature and the fully signed      *)
(* envelope of an approval have the same hash.                             *)
(***************************************************************************)
EXTENDS Integers, Sequences, SequencesExt, FiniteSets

CONSTANTS
    MaxApprovals,   \* bound on the number of approvals prepared
    MaxEntries,     \* bound on the manifest's transactions before a run starts
    MaxFailures,    \* bound on crashes and uncaught exceptions
    MaxSequence     \* bound on the sequence number of the settlement account

VARIABLES
    transactions,   \* manifest.transactions
    approval,       \* manifest.approval: hash and status
    pc,             \* where the running script waits, "idle" when none runs
    label,          \* the label that submitPrepared was called with
    sent,           \* what sendTransaction answered
    net,            \* what the network knows of each envelope
    sequence,       \* the sequence number of the settlement account
    sequenceOf,     \* the sequence number each envelope was built with
    late,           \* the envelopes past their time bounds
    forgotten,      \* the envelopes whose result the RPC server dropped
    campaign,       \* the status of the campaign on the ledger
    undisturbed,    \* no unrelated payment touched the balances to verify
    failures        \* crashes and uncaught exceptions so far

fileVars == <<transactions, approval>>
scriptVars == <<pc, label, sent, failures>>
networkVars == <<net, sequence, sequenceOf, late, forgotten, campaign, undisturbed>>
operatorVars == <<fileVars, scriptVars, networkVars>>

ASSUME OperatorAssumption ==
    /\ MaxApprovals \in Nat \ {0}
    /\ MaxEntries \in Nat
    /\ MaxFailures \in Nat
    /\ MaxSequence \in Nat

Approvals == 1..MaxApprovals

OneOfThree == "one_of_three_member_completion_rejected"
TwoOfThree == "two_of_three_completion_confirmed"

----------------------------------------------------------------------------
(* The network, as far as the scripts depend on it. *)

\* What getTransaction reports.
Reported(h) ==
    CASE h \in forgotten     -> "NOT_FOUND"
      [] net[h] = "success"  -> "SUCCESS"
      [] net[h] = "failed"   -> "FAILED"
      [] OTHER               -> "NOT_FOUND"

\* The ledger takes an envelope in sequence and within its time bounds.
Valid(h) == sequenceOf[h] = sequence + 1 /\ h \notin late

\* A queued envelope enters a ledger; the completion itself succeeds only on an
\* active campaign, and may fail there for other reasons (a pause, resource limits).
Include(h) ==
    /\ net[h] = "queued" /\ Valid(h)
    /\ sequence < MaxSequence
    /\ sequence' = sequence + 1
    /\ \/ /\ campaign = "Active"
          /\ campaign' = "Completed"
          /\ net' = [net EXCEPT ![h] = "success"]
       \/ /\ net' = [net EXCEPT ![h] = "failed"]
          /\ UNCHANGED campaign
    /\ UNCHANGED <<fileVars, scriptVars, sequenceOf, late, forgotten, undisturbed>>

\* A queued envelope is evicted, or banned because it became invalid.
Drop(h) ==
    /\ net[h] = "queued"
    /\ net' = [net EXCEPT ![h] = "absent"]
    /\ UNCHANGED <<fileVars, scriptVars, sequence, sequenceOf, late, forgotten, campaign,
                   undisturbed>>

\* The settlement account is used for something else.
UseAccount ==
    /\ sequence < MaxSequence
    /\ sequence' = sequence + 1
    /\ UNCHANGED <<fileVars, scriptVars, net, sequenceOf, late, forgotten, campaign, undisturbed>>

PassDeadline(h) ==
    /\ h <= approval.hash /\ h \notin late
    /\ late' = late \cup {h}
    /\ UNCHANGED <<fileVars, scriptVars, net, sequence, sequenceOf, forgotten, campaign,
                   undisturbed>>

\* The RPC server keeps the results of a limited number of ledgers.
Forget(h) ==
    /\ net[h] \in {"success", "failed"} /\ h \notin forgotten
    /\ forgotten' = forgotten \cup {h}
    /\ UNCHANGED <<fileVars, scriptVars, net, sequence, sequenceOf, late, campaign, undisturbed>>

\* The campaign expires and somebody refunds it.
Refund ==
    /\ campaign = "Active"
    /\ campaign' = "Refunded"
    /\ UNCHANGED <<fileVars, scriptVars, net, sequence, sequenceOf, late, forgotten, undisturbed>>

\* Somebody else's payment, funding or pool claim moves a balance or counter that
\* the verification compares with its value before the completion.
Disturb ==
    /\ undisturbed
    /\ undisturbed' = FALSE
    /\ UNCHANGED <<fileVars, scriptVars, net, sequence, sequenceOf, late, forgotten, campaign>>

NetworkNext ==
    \/ \E h \in Approvals : Include(h) \/ Drop(h) \/ PassDeadline(h) \/ Forget(h)
    \/ UseAccount \/ Refund \/ Disturb

----------------------------------------------------------------------------
(* submitPrepared and what it waits for. *)

\* The position of the first completion entry of the approval, 0 if there is none.
Prior ==
    SelectInSeq(transactions, LAMBDA e : e.label = TwoOfThree /\ e.hash = approval.hash)

\* The entry of the running submission, the last one, with its new status.
Mark(status, reason) ==
    [transactions EXCEPT ![Len(transactions)].status = status,
                         ![Len(transactions)].reason = reason]

\* Mutant: the entry is written only after the broadcast.
PersistLater ==
    /\ pc = "persist"
    /\ pc' = "send"
    /\ UNCHANGED <<fileVars, networkVars, label, sent, failures>>

\* The signed envelope is appended to the manifest and saved before it is sent.
Persist ==
    /\ pc = "persist"
    /\ transactions' = Append(transactions,
           [label |-> label, hash |-> approval.hash,
            status |-> "signed_not_broadcast", reason |-> "none"])
    /\ pc' = "send"
    /\ UNCHANGED <<approval, networkVars, label, sent, failures>>

\* sendTransaction: a valid envelope with a quorum of signatures is queued, whether
\* the answer (PENDING, or DUPLICATE when it is queued already) arrives or not ...
SendAccepted ==
    /\ pc = "send"
    /\ label = TwoOfThree /\ Valid(approval.hash)
    /\ net[approval.hash] \in {"absent", "queued"}
    /\ net' = [net EXCEPT ![approval.hash] = "queued"]
    /\ sent' \in {"PENDING", "UNKNOWN"}
    /\ pc' = "sent"
    /\ UNCHANGED <<fileVars, sequence, sequenceOf, late, forgotten, campaign, undisturbed,
                   label, failures>>

\* ... or it does not reach the queue ...
SendLost ==
    /\ pc = "send"
    /\ sent' \in {"TRY_AGAIN_LATER", "UNKNOWN"}
    /\ pc' = "sent"
    /\ UNCHANGED <<fileVars, networkVars, label, failures>>

\* ... or it is refused: for its signatures when there are too few of them and it is
\* valid otherwise, or for another reason.
SendRejected ==
    /\ pc = "send"
    /\ \/ label = OneOfThree /\ Valid(approval.hash) /\ sent' = "txBadAuth"
       \/ sent' = "other"
    /\ pc' = "sent"
    /\ UNCHANGED <<fileVars, networkVars, label, failures>>

\* What submitPrepared makes of the answer.  Only the one-signature envelope
\* expects to be refused, for its signatures: then its caller goes on to the fully
\* signed one.  Every throw ends the script.
HandleReply ==
    /\ pc = "sent"
    /\ CASE sent = "UNKNOWN" ->
              /\ transactions' = Mark("broadcast_outcome_unknown", "none")
              /\ pc' = IF label = OneOfThree THEN "idle" ELSE "wait"
              /\ UNCHANGED label
         [] sent \in {"txBadAuth", "other"} ->
              /\ transactions' = Mark("rejected_before_ledger", sent)
              /\ IF label = OneOfThree /\ sent = "txBadAuth"
                 THEN pc' = "persist" /\ label' = TwoOfThree
                 ELSE pc' = "idle" /\ UNCHANGED label
         [] OTHER ->
              /\ pc' = IF label = OneOfThree THEN "idle" ELSE "wait"
              /\ UNCHANGED <<transactions, label>>
    /\ UNCHANGED <<approval, networkVars, sent, failures>>

\* Mutant: a transaction that is still pending after 90 polls counts as confirmed.
WaitConfirmedTimeout ==
    /\ pc = "wait"
    /\ IF Reported(approval.hash) # "FAILED"
       THEN transactions' = Mark("confirmed_success", "none") /\ pc' = "verify"
       ELSE UNCHANGED transactions /\ pc' = "idle"
    /\ UNCHANGED <<approval, networkVars, label, sent, failures>>

\* The transaction is polled until it has succeeded, which is recorded, or failed,
\* or 90 polls have not found it.
WaitConfirmed ==
    /\ pc = "wait"
    /\ IF Reported(approval.hash) = "SUCCESS"
       THEN transactions' = Mark("confirmed_success", "none") /\ pc' = "verify"
       ELSE UNCHANGED transactions /\ pc' = "idle"
    /\ UNCHANGED <<approval, networkVars, label, sent, failures>>

----------------------------------------------------------------------------
(* submit-testnet-completion.mjs *)

\* The bound on entries: a run that will find its completion on the ledger adds none.
Room ==
    \/ Len(transactions) + 2 <= MaxEntries
    \/ Prior # 0 /\ Reported(approval.hash) = "SUCCESS"

\* The operator runs the script on the envelope that two members signed.
SubmitStart ==
    /\ pc = "idle" /\ Room
    /\ approval.status # "confirmed"
    /\ IF Prior # 0
       THEN pc' = "check_prior" /\ UNCHANGED label
       ELSE pc' = "persist" /\ label' = OneOfThree
    /\ UNCHANGED <<fileVars, networkVars, sent, failures>>

\* Mutant: a completion found on the ledger ends the script as already done.
CheckPriorDone ==
    /\ pc = "check_prior"
    /\ IF Reported(approval.hash) = "NOT_FOUND"
             /\ transactions[Prior].status # "confirmed_success"
       THEN pc' = "persist" /\ label' = TwoOfThree
       ELSE pc' = "idle" /\ UNCHANGED label
    /\ UNCHANGED <<fileVars, networkVars, sent, failures>>

\* An earlier run left a completion entry: its success is taken over, and if the
\* network does not know it the saved envelope is sent again.
CheckPrior ==
    /\ pc = "check_prior"
    /\ CASE Reported(approval.hash) = "SUCCESS" -> pc' = "verify" /\ UNCHANGED label
         [] Reported(approval.hash) = "NOT_FOUND"
              /\ transactions[Prior].status # "confirmed_success" ->
              pc' = "persist" /\ label' = TwoOfThree
         [] OTHER -> pc' = "idle" /\ UNCHANGED label
    /\ UNCHANGED <<fileVars, networkVars, sent, failures>>

\* The balances, the campaign and the counters on the ledger are compared with
\* what the completion must have done to them, then the approval is closed.
Verify ==
    /\ pc = "verify"
    /\ approval' = IF campaign = "Completed" /\ undisturbed
                   THEN [approval EXCEPT !.status = "confirmed"]
                   ELSE approval
    /\ pc' = "idle"
    /\ UNCHANGED <<transactions, networkVars, label, sent, failures>>

----------------------------------------------------------------------------
(* refresh-testnet-approval.mjs *)

\* No completion is recorded as confirmed and the campaign is active: a new
\* envelope is built on the account's current sequence number.
RefreshBuild ==
    /\ pc = "idle" /\ approval.hash < MaxApprovals
    /\ approval.status # "confirmed"
    /\ \A i \in 1..Len(transactions) :
          ~(transactions[i].label = TwoOfThree /\ transactions[i].status = "confirmed_success")
    /\ campaign = "Active"
    /\ sequenceOf' = [sequenceOf EXCEPT ![approval.hash + 1] = sequence + 1]
    /\ pc' = "refresh"
    /\ UNCHANGED <<fileVars, label, sent, failures, net, sequence, late, forgotten, campaign,
                   undisturbed>>

\* Mutant: the refreshed manifest starts without transactions.
RefreshSaveReset ==
    /\ pc = "refresh"
    /\ approval' = [hash |-> approval.hash + 1, status |-> "requires_signatures"]
    /\ transactions' = <<>>
    /\ pc' = "idle"
    /\ UNCHANGED <<networkVars, label, sent, failures>>

\* The simulation of the new envelope passed: it replaces the approval.
RefreshSave ==
    /\ pc = "refresh"
    /\ approval' = [hash |-> approval.hash + 1, status |-> "requires_signatures"]
    /\ pc' = "idle"
    /\ UNCHANGED <<transactions, networkVars, label, sent, failures>>

----------------------------------------------------------------------------
\* A crash, or an exception that no handler catches (a read of the RPC or Horizon
\* server that fails): what was in memory is lost.
Fail ==
    /\ pc # "idle" /\ failures < MaxFailures
    /\ failures' = failures + 1
    /\ pc' = "idle"
    /\ UNCHANGED <<fileVars, networkVars, label, sent>>

OperatorInit ==
    /\ transactions = <<>>
    /\ approval = [hash |-> 1, status |-> "requires_signatures"]
    /\ pc = "idle" /\ label = OneOfThree /\ sent = "UNKNOWN"
    /\ net = [h \in Approvals |-> "absent"]
    /\ sequence = 0 /\ sequenceOf = [h \in Approvals |-> IF h = 1 THEN 1 ELSE 0]
    /\ late = {} /\ forgotten = {}
    /\ campaign = "Active" /\ undisturbed = TRUE
    /\ failures = 0

ScriptStep ==
    \/ Persist \/ SendAccepted \/ SendLost \/ SendRejected \/ HandleReply \/ WaitConfirmed
    \/ CheckPrior \/ Verify \/ RefreshSave

OperatorNext == SubmitStart \/ RefreshBuild \/ ScriptStep \/ Fail \/ NetworkNext

OperatorSpec == OperatorInit /\ [][OperatorNext]_operatorVars

\* A running script runs on, and the operator reruns the submission.
OperatorFairSpec ==
    OperatorSpec /\ WF_operatorVars(ScriptStep) /\ WF_operatorVars(SubmitStart)

----------------------------------------------------------------------------
Confirmed(i) ==
    transactions[i].label = TwoOfThree /\ transactions[i].status = "confirmed_success"

\* Nothing reaches the network that the manifest would not show after a crash: an
\* envelope in the queue or on the ledger has its entry (submitPrepared: "Persist
\* before broadcasting"), made after the network was seen to refuse the same
\* envelope with one signature for its signatures.
BroadcastIsRecorded ==
    \A h \in Approvals : net[h] # "absent" =>
        \E i, j \in 1..Len(transactions) :
            /\ i < j
            /\ transactions[i].label = OneOfThree /\ transactions[i].hash = h
            /\ transactions[i].reason = "txBadAuth"
            /\ transactions[j].label = TwoOfThree /\ transactions[j].hash = h

\* The manifest claims no success that the ledger does not show, whatever answers
\* were lost and whichever envelopes were replaced in between.
RecordsAreTrue ==
    /\ \A i \in 1..Len(transactions) : Confirmed(i) => net[transactions[i].hash] = "success"
    /\ approval.status = "confirmed" =>
          campaign = "Completed" /\ net[approval.hash] = "success"

EvidenceStep ==
    /\ Len(transactions') >= Len(transactions)
    /\ \A i \in 1..Len(transactions) :
          /\ transactions'[i].hash = transactions[i].hash
          /\ transactions[i].status \in {"rejected_before_ledger", "confirmed_success"}
                => transactions'[i] = transactions[i]
    /\ approval.status = "confirmed" => approval' = approval
    /\ approval'.hash # approval.hash => \A i \in 1..Len(transactions) : ~Confirmed(i)

\* No rerun, recovery or refresh rewrites evidence: entries are never removed, a
\* final result stays, a confirmed approval stays, and an approval is replaced
\* only while no completion is recorded as confirmed.
EvidenceIsFinal == [][EvidenceStep]_operatorVars

ResubmitStep ==
    Len(transactions') > Len(transactions) =>
        ~\E i \in 1..Len(transactions) :
            Confirmed(i) /\ transactions[i].hash = Last(transactions').hash

\* "Previously confirmed completion unavailable; do not resubmit"
\* (submit-testnet-completion.mjs 40): an envelope whose confirmation is recorded
\* is not submitted again.
NoResubmission == [][ResubmitStep]_operatorVars

\* A completion by the current approval gets confirmed in the manifest, however many
\* answers were lost and wherever the script crashed, provided that the operator
\* reruns the script, no unrelated payment disturbs the balances it compares, and the
\* RPC server does not forget the transaction before.  (A refresh that was already
\* under way when the completion was included replaces the approval.)
CompletionGetsConfirmed ==
    net[approval.hash] = "success" /\ pc # "refresh" ~>
        \/ approval.status = "confirmed"
        \/ ~undisturbed
        \/ approval.hash \in forgotten
=============================================================================
