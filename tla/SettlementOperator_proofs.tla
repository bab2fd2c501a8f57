---------------------- MODULE SettlementOperator_proofs ----------------------
(***************************************************************************)
(* What the manifest says is true, for any number of approvals, runs,      *)
(* crashes and lost answers.  The inductive invariant relates the manifest *)
(* to where the script stands: from the save before the broadcast until    *)
(* the outcome is known the last entry is the submission under way, and a  *)
(* fully signed envelope is under way only after the refusal of its        *)
(* one-signature form was recorded.                                        *)
(***************************************************************************)
EXTENDS SettlementOperator, SequenceTheorems, TLAPS

Labels == {OneOfThree, TwoOfThree}
OpenStatuses == {"signed_not_broadcast", "broadcast_outcome_unknown"}
FinalStatuses == {"rejected_before_ledger", "confirmed_success"}
Answers == {"PENDING", "UNKNOWN", "TRY_AGAIN_LATER", "txBadAuth", "other"}

Entry ==
    [label : Labels, hash : Approvals, status : OpenStatuses \cup FinalStatuses,
     reason : {"none", "txBadAuth", "other"}]

OperatorTypeOK ==
    /\ transactions \in Seq(Entry)
    /\ approval \in [hash : Approvals, status : {"requires_signatures", "confirmed"}]
    /\ pc \in {"idle", "persist", "send", "sent", "wait", "check_prior", "verify", "refresh"}
    /\ label \in Labels
    /\ sent \in Answers
    /\ net \in [Approvals -> {"absent", "queued", "success", "failed"}]
    /\ campaign \in {"Active", "Completed", "Refunded"}

\* Entry i records that envelope h was refused for having one signature.
Refusal(i, h) ==
    /\ transactions[i].label = OneOfThree /\ transactions[i].hash = h
    /\ transactions[i].reason = "txBadAuth"

\* Entry j was written before envelope h was sent with both signatures.
Submission(j, h) == transactions[j].label = TwoOfThree /\ transactions[j].hash = h

Entries == 1..Len(transactions)

\* A refusal is recorded with its final status.
RefusalsAreFinal ==
    \A i \in Entries :
        transactions[i].reason = "txBadAuth" => transactions[i].status \in FinalStatuses

\* Every fully signed submission was preceded by the refusal of its envelope.
RefusedFirst ==
    \A j \in Entries : transactions[j].label = TwoOfThree =>
        \E i \in Entries : i < j /\ Refusal(i, transactions[j].hash)

\* While a submission is under way the last entry is its entry.
LastIsUnderWay ==
    /\ pc \in {"send", "sent", "wait"} =>
          LET n == Len(transactions)
          IN  /\ n > 0
              /\ transactions[n].label = label /\ transactions[n].hash = approval.hash
              /\ transactions[n].status \in OpenStatuses
    /\ pc = "wait" => label = TwoOfThree
    /\ pc = "persist" /\ label = TwoOfThree => \E i \in Entries : Refusal(i, approval.hash)

\* What the script has learnt stays true while it stands there.
ScriptKnows ==
    /\ pc = "check_prior" => \E j \in Entries : Submission(j, approval.hash)
    /\ pc = "verify" => net[approval.hash] = "success"
    /\ pc = "refresh" =>
          /\ approval.hash < MaxApprovals /\ approval.status # "confirmed"
          /\ \A i \in Entries : ~Confirmed(i)

BroadcastHasEntry ==
    \A h \in Approvals : net[h] # "absent" => \E j \in Entries : Submission(j, h)

OperatorInv ==
    /\ OperatorTypeOK
    /\ RefusalsAreFinal
    /\ RefusedFirst
    /\ LastIsUnderWay
    /\ ScriptKnows
    /\ BroadcastHasEntry
    /\ RecordsAreTrue

(***************************************************************************)
(* The operators on the manifest.                                          *)
(***************************************************************************)

\* A completion entry is found only if there is one.
LEMMA PriorLemma ==
    ASSUME Prior # 0
    PROVE  \E j \in Entries : Submission(j, approval.hash)
  BY DEF Prior, SelectInSeq, Entries, Submission

LEMMA EntryLemma ==
    ASSUME transactions \in Seq(Entry)
    PROVE  \A i \in Entries : transactions[i] \in Entry /\ transactions[i].hash \in Approvals
  <1>1. \A i \in Entries : transactions[i] \in Entry
    BY DEF Entries
  <1>. QED  BY <1>1 DEF Entry

\* Mark replaces the status and the reason of the last entry, nothing else.
LEMMA MarkLemma ==
    ASSUME transactions \in Seq(Entry), Len(transactions) > 0,
           NEW status \in OpenStatuses \cup FinalStatuses,
           NEW reason \in {"none", "txBadAuth", "other"}
    PROVE  LET n == Len(transactions)
               m == Mark(status, reason)
           IN  /\ m \in Seq(Entry)
               /\ Len(m) = n
               /\ \A i \in Entries : i # n => m[i] = transactions[i]
               /\ m[n].label = transactions[n].label
               /\ m[n].hash = transactions[n].hash
               /\ m[n].status = status
               /\ m[n].reason = reason
  <1>. DEFINE n == Len(transactions)
              e == [transactions[n] EXCEPT !.status = status, !.reason = reason]
              m == [transactions EXCEPT ![n] = e]
  <1>1. n \in 1..n /\ transactions[n] \in Entry
    OBVIOUS
  <1>2. e \in Entry /\ e.label = transactions[n].label /\ e.hash = transactions[n].hash
           /\ e.status = status /\ e.reason = reason
    BY <1>1 DEF Entry
  <1>3. Mark(status, reason) = m
    BY <1>1 DEF Mark, Entry
  <1>. HIDE DEF e
  <1>4. /\ m \in Seq(Entry) /\ Len(m) = n
        /\ \A i \in 1..n : m[i] = IF i = n THEN e ELSE transactions[i]
    BY <1>1, <1>2
  <1>. HIDE DEF m
  <1>. QED  BY <1>1, <1>2, <1>3, <1>4 DEF Entries

(***************************************************************************)
(* The invariant is inductive.                                             *)
(***************************************************************************)

LEMMA OperatorInitLemma ==
    ASSUME OperatorInit
    PROVE  OperatorInv
  BY OperatorAssumption
  DEF OperatorInit, OperatorInv, OperatorTypeOK, RefusalsAreFinal, RefusedFirst, LastIsUnderWay,
      ScriptKnows, BroadcastHasEntry, RecordsAreTrue, Entries, Approvals, Labels, Answers,
      OneOfThree, TwoOfThree, Entry

\* What happens on the network keeps the invariant: nobody but the script puts an
\* envelope in the queue, a success is final, and so is a completed campaign.
LEMMA NetworkLemma ==
    ASSUME OperatorInv, NetworkNext
    PROVE  OperatorInv' /\ EvidenceStep
  <1>. USE DEF OperatorInv, OperatorTypeOK
  <1>1. /\ UNCHANGED <<transactions, approval, pc, label, sent>>
        /\ net' \in [Approvals -> {"absent", "queued", "success", "failed"}]
        /\ \A h \in Approvals : /\ net[h] = "success" => net'[h] = "success"
                                /\ net'[h] # "absent" => net[h] # "absent"
        /\ campaign' \in {"Active", "Completed", "Refunded"}
        /\ campaign = "Completed" => campaign' = "Completed"
    <2>1. ASSUME NEW h \in Approvals, Include(h)
          PROVE  <1>1
      BY <2>1 DEF Include, fileVars, scriptVars
    <2>2. ASSUME NEW h \in Approvals, Drop(h)
          PROVE  <1>1
      BY <2>2 DEF Drop, fileVars, scriptVars
    <2>3. ASSUME \E h \in Approvals : PassDeadline(h) \/ Forget(h)
          PROVE  <1>1
      BY <2>3 DEF PassDeadline, Forget, fileVars, scriptVars
    <2>4. CASE UseAccount \/ Refund \/ Disturb
      BY <2>4 DEF UseAccount, Refund, Disturb, fileVars, scriptVars
    <2>. QED  BY <2>1, <2>2, <2>3, <2>4 DEF NetworkNext
  <1>2. OperatorTypeOK' /\ RefusalsAreFinal' /\ RefusedFirst' /\ LastIsUnderWay'
    BY <1>1 DEF RefusalsAreFinal, RefusedFirst, LastIsUnderWay, Entries, Refusal
  <1>3. ScriptKnows' /\ BroadcastHasEntry'
    BY <1>1 DEF ScriptKnows, BroadcastHasEntry, Entries, Submission, Confirmed
  <1>4. RecordsAreTrue'
    <2>1. \A i \in Entries : transactions[i].hash \in Approvals
      BY EntryLemma
    <2>. QED  BY <1>1, <2>1 DEF RecordsAreTrue, Entries, Confirmed
  <1>5. EvidenceStep
    BY <1>1 DEF EvidenceStep
  <1>. QED  BY <1>2, <1>3, <1>4, <1>5

\* So does a step that leaves the manifest's entries and the network's results alone.
LEMMA QuietLemma ==
    ASSUME OperatorInv,
           SubmitStart \/ RefreshBuild \/ SendLost \/ SendRejected \/ CheckPrior \/ Fail
    PROVE  OperatorInv' /\ EvidenceStep
  <1>. USE DEF OperatorInv, OperatorTypeOK
  <1>1. UNCHANGED <<transactions, approval, net, campaign>>
    BY DEF SubmitStart, RefreshBuild, SendLost, SendRejected, CheckPrior, Fail, fileVars, networkVars
  <1>2. RefusalsAreFinal' /\ RefusedFirst' /\ BroadcastHasEntry' /\ RecordsAreTrue' /\ EvidenceStep
    BY <1>1 DEF RefusalsAreFinal, RefusedFirst, Entries, Refusal, BroadcastHasEntry, Submission,
                RecordsAreTrue, Confirmed, EvidenceStep
  <1>3. OperatorTypeOK' /\ LastIsUnderWay' /\ ScriptKnows'
    <2>1. CASE SubmitStart
      BY <1>1, <2>1, PriorLemma
      DEF SubmitStart, LastIsUnderWay, ScriptKnows, Entries, Submission, Labels, OneOfThree, TwoOfThree
    <2>2. CASE RefreshBuild
      BY <1>1, <2>2 DEF RefreshBuild, LastIsUnderWay, ScriptKnows, Entries, Confirmed
    <2>3. CASE SendLost \/ SendRejected
      BY <1>1, <2>3 DEF SendLost, SendRejected, LastIsUnderWay, ScriptKnows, Entries, Answers
    <2>4. CASE CheckPrior
      <3>1. \E i \in Entries : Refusal(i, approval.hash)
        BY <2>4 DEF CheckPrior, ScriptKnows, RefusedFirst, Submission
      <3>2. Reported(approval.hash) = "SUCCESS" => net[approval.hash] = "success"
        BY DEF Reported
      <3>. QED  BY <1>1, <2>4, <3>1, <3>2
                DEF CheckPrior, LastIsUnderWay, ScriptKnows, Entries, Refusal, Labels
    <2>5. CASE Fail
      BY <1>1, <2>5 DEF Fail, LastIsUnderWay, ScriptKnows
    <2>. QED  BY <2>1, <2>2, <2>3, <2>4, <2>5
  <1>. QED  BY <1>2, <1>3

\* Only an envelope whose entry is the last one enters the queue.
LEMMA SendAcceptedLemma ==
    ASSUME OperatorInv, SendAccepted
    PROVE  OperatorInv' /\ EvidenceStep
  <1>. USE DEF OperatorInv, OperatorTypeOK
  <1>1. /\ UNCHANGED <<transactions, approval, label, campaign>>
        /\ pc = "send" /\ pc' = "sent" /\ sent' \in Answers /\ label = TwoOfThree
        /\ net' \in [Approvals -> {"absent", "queued", "success", "failed"}]
        /\ \A h \in Approvals : h # approval.hash => net'[h] = net[h]
        /\ net[approval.hash] \in {"absent", "queued"}
    BY DEF SendAccepted, fileVars, Answers
  <1>2. OperatorTypeOK' /\ RefusalsAreFinal' /\ RefusedFirst' /\ LastIsUnderWay' /\ ScriptKnows'
    BY <1>1 DEF RefusalsAreFinal, RefusedFirst, LastIsUnderWay, ScriptKnows, Entries, Refusal
  <1>3. BroadcastHasEntry'
    <2>1. Len(transactions) \in Entries /\ Submission(Len(transactions), approval.hash)
      BY <1>1 DEF LastIsUnderWay, Entries, Submission
    <2>. QED  BY <1>1, <2>1 DEF BroadcastHasEntry, Entries, Submission
  <1>4. RecordsAreTrue'
    <2>1. \A i \in Entries : transactions[i].hash \in Approvals
      BY EntryLemma
    <2>. QED  BY <1>1, <2>1 DEF RecordsAreTrue, Entries, Confirmed
  <1>5. EvidenceStep
    BY <1>1 DEF EvidenceStep
  <1>. QED  BY <1>2, <1>3, <1>4, <1>5

\* The approval is closed or replaced: the entries stay.
LEMMA ApprovalLemma ==
    ASSUME OperatorInv, Verify \/ RefreshSave
    PROVE  OperatorInv' /\ EvidenceStep
  <1>. USE DEF OperatorInv, OperatorTypeOK
  <1>1. UNCHANGED <<transactions, label, sent, net, campaign>> /\ pc' = "idle"
    BY DEF Verify, RefreshSave, networkVars
  <1>2. RefusalsAreFinal' /\ RefusedFirst' /\ LastIsUnderWay' /\ ScriptKnows' /\ BroadcastHasEntry'
    BY <1>1 DEF RefusalsAreFinal, RefusedFirst, LastIsUnderWay, ScriptKnows, BroadcastHasEntry,
                Entries, Refusal, Submission
  <1>3. CASE Verify
    <2>1. /\ approval'.hash = approval.hash
          /\ approval' \in [hash : Approvals, status : {"requires_signatures", "confirmed"}]
          /\ approval.status = "confirmed" => approval' = approval
          /\ approval'.status = "confirmed" => approval.status = "confirmed" \/ campaign = "Completed"
      BY <1>3 DEF Verify
    <2>2. OperatorTypeOK' /\ EvidenceStep
      BY <1>1, <2>1 DEF EvidenceStep
    <2>3. net[approval.hash] = "success"
      BY <1>3 DEF Verify, ScriptKnows
    <2>4. RecordsAreTrue'
      BY <1>1, <2>1, <2>3 DEF RecordsAreTrue, Confirmed
    <2>. QED  BY <1>2, <2>2, <2>4
  <1>4. CASE RefreshSave
    <2>1. /\ approval.hash < MaxApprovals /\ approval.status # "confirmed"
          /\ \A i \in Entries : ~Confirmed(i)
      BY <1>4 DEF RefreshSave, ScriptKnows
    <2>2. /\ approval' = [hash |-> approval.hash + 1, status |-> "requires_signatures"]
          /\ approval.hash + 1 \in Approvals
      BY <1>4, <2>1, OperatorAssumption DEF RefreshSave, Approvals
    <2>3. OperatorTypeOK' /\ EvidenceStep
      BY <1>1, <2>1, <2>2 DEF EvidenceStep, Entries
    <2>4. RecordsAreTrue'
      BY <1>1, <2>2 DEF RecordsAreTrue, Confirmed
    <2>. QED  BY <1>2, <2>3, <2>4
  <1>. QED  BY <1>3, <1>4

\* The entry is written before the broadcast.
LEMMA PersistLemma ==
    ASSUME OperatorInv, Persist
    PROVE  OperatorInv' /\ EvidenceStep
  <1>. USE DEF OperatorInv, OperatorTypeOK
  <1>. DEFINE n == Len(transactions)
              e == [label |-> label, hash |-> approval.hash,
                    status |-> "signed_not_broadcast", reason |-> "none"]
  <1>1. /\ UNCHANGED <<approval, label, sent, net, campaign>> /\ pc = "persist" /\ pc' = "send"
        /\ transactions' = Append(transactions, e)
    BY DEF Persist, networkVars
  <1>2. e \in Entry
    BY DEF Entry, OpenStatuses, FinalStatuses
  <1>3. e.label = label /\ e.hash = approval.hash /\ e.status = "signed_not_broadcast"
           /\ e.reason = "none"
    OBVIOUS
  <1>. HIDE DEF e
  <1>4. /\ transactions' \in Seq(Entry) /\ Len(transactions') = n + 1 /\ n \in Nat
        /\ \A i \in Entries : transactions'[i] = transactions[i]
        /\ transactions'[n + 1] = e
        /\ Entries \subseteq Entries' /\ Entries' = Entries \cup {n + 1} /\ n + 1 \notin Entries
    BY <1>1, <1>2 DEF Entries
  <1>. HIDE DEF n
  <1>5. OperatorTypeOK'
    BY <1>1, <1>4
  <1>6. RefusalsAreFinal'
    BY <1>3, <1>4 DEF RefusalsAreFinal
  <1>7. RefusedFirst'
    <2>. SUFFICES ASSUME NEW j \in Entries', transactions'[j].label = TwoOfThree
                 PROVE  \E i \in Entries :
                            /\ i < j
                            /\ transactions'[i].label = OneOfThree
                            /\ transactions'[i].hash = transactions'[j].hash
                            /\ transactions'[i].reason = "txBadAuth"
      BY <1>4 DEF RefusedFirst, Refusal
    <2>1. CASE j \in Entries
      BY <1>4, <2>1 DEF RefusedFirst, Refusal
    <2>2. CASE j = n + 1
      <3>1. PICK i \in Entries : Refusal(i, approval.hash)
        BY <1>1, <1>3, <1>4, <2>2 DEF LastIsUnderWay
      <3>2. i < j /\ transactions'[j].hash = approval.hash
        BY <1>3, <1>4, <2>2 DEF Entries, n
      <3>. QED  BY <1>4, <3>1, <3>2 DEF Refusal
    <2>. QED  BY <1>4, <2>1, <2>2
  <1>8. BroadcastHasEntry'
    <2>. SUFFICES ASSUME NEW h \in Approvals, net'[h] # "absent"
                 PROVE  \E j \in Entries' : transactions'[j].label = TwoOfThree
                                              /\ transactions'[j].hash = h
      BY DEF BroadcastHasEntry, Submission
    <2>1. PICK j \in Entries : Submission(j, h)
      BY <1>1 DEF BroadcastHasEntry
    <2>. QED  BY <1>4, <2>1 DEF Submission
  <1>9. LastIsUnderWay' /\ ScriptKnows'
    BY <1>1, <1>3, <1>4 DEF LastIsUnderWay, ScriptKnows, OpenStatuses
  <1>10. RecordsAreTrue'
    <2>1. \A i \in Entries' : Confirmed(i)' => i \in Entries /\ Confirmed(i)
      BY <1>3, <1>4 DEF Confirmed
    <2>. QED  BY <1>1, <1>4, <2>1 DEF RecordsAreTrue, Entries
  <1>11. EvidenceStep
    BY <1>1, <1>4 DEF EvidenceStep, Entries, n
  <1>. QED  BY <1>5, <1>6, <1>7, <1>8, <1>9, <1>10, <1>11

\* The outcome of the submission under way is recorded in its own entry, which had
\* none yet: what the other entries say, refusals and confirmations, stays.
LEMMA OutcomeLemma ==
    ASSUME OperatorInv, pc \in {"sent", "wait"},
           NEW status \in OpenStatuses \cup FinalStatuses,
           NEW reason \in {"none", "txBadAuth", "other"},
           transactions' = Mark(status, reason),
           UNCHANGED <<approval, net, campaign>>,
           reason = "txBadAuth" => status \in FinalStatuses,
           status = "confirmed_success" => net[approval.hash] = "success"
    PROVE  /\ transactions' \in Seq(Entry) /\ Len(transactions') = Len(transactions)
           /\ LET n == Len(transactions)
              IN  /\ n \in Entries
                  /\ transactions'[n].label = label /\ transactions'[n].hash = approval.hash
                  /\ transactions'[n].status = status /\ transactions'[n].reason = reason
           /\ \A i \in Entries : i # Len(transactions) => transactions'[i] = transactions[i]
           /\ RefusalsAreFinal' /\ RefusedFirst' /\ BroadcastHasEntry' /\ RecordsAreTrue'
           /\ EvidenceStep
  <1>. USE DEF OperatorInv, OperatorTypeOK
  <1>. DEFINE n == Len(transactions)
  <1>1. /\ n > 0 /\ transactions[n].label = label /\ transactions[n].hash = approval.hash
        /\ transactions[n].status \in OpenStatuses
    BY DEF LastIsUnderWay
  <1>2. n \in Entries /\ n \in Nat
    BY <1>1 DEF Entries
  <1>3. /\ transactions' \in Seq(Entry) /\ Len(transactions') = n
        /\ \A i \in Entries : i # n => transactions'[i] = transactions[i]
        /\ transactions'[n].label = label /\ transactions'[n].hash = approval.hash
        /\ transactions'[n].status = status /\ transactions'[n].reason = reason
    BY <1>1, MarkLemma
  <1>4. Entries' = Entries /\ 1..Len(transactions') = Entries /\ 1..Len(transactions) = Entries
    BY <1>3 DEF Entries
  <1>. HIDE DEF n
  <1>5. transactions[n].status \notin FinalStatuses /\ transactions[n].reason # "txBadAuth"
    <2>1. transactions[n].status \notin FinalStatuses
      BY <1>1 DEF OpenStatuses, FinalStatuses
    <2>. QED  BY <1>2, <2>1 DEF RefusalsAreFinal
  <1>6. \A i \in Entries :
           /\ transactions'[i].label = transactions[i].label
           /\ transactions'[i].hash = transactions[i].hash
           /\ transactions[i].reason = "txBadAuth" => transactions'[i] = transactions[i]
           /\ transactions[i].status \in FinalStatuses => transactions'[i] = transactions[i]
    BY <1>1, <1>3, <1>5
  <1>7. RefusalsAreFinal'
    BY <1>3, <1>4 DEF RefusalsAreFinal
  <1>8. RefusedFirst'
    <2>. SUFFICES ASSUME NEW j \in Entries, transactions[j].label = TwoOfThree
                 PROVE  \E i \in Entries :
                            /\ i < j
                            /\ transactions'[i].label = OneOfThree
                            /\ transactions'[i].hash = transactions[j].hash
                            /\ transactions'[i].reason = "txBadAuth"
      BY <1>4, <1>6 DEF RefusedFirst, Refusal
    <2>1. PICK i \in Entries : i < j /\ Refusal(i, transactions[j].hash)
      BY DEF RefusedFirst
    <2>. QED  BY <1>6, <2>1 DEF Refusal
  <1>9. BroadcastHasEntry'
    <2>. SUFFICES ASSUME NEW h \in Approvals, net[h] # "absent"
                 PROVE  \E j \in Entries : transactions'[j].label = TwoOfThree
                                             /\ transactions'[j].hash = h
      BY <1>4 DEF BroadcastHasEntry, Submission
    <2>1. PICK j \in Entries : Submission(j, h)
      BY DEF BroadcastHasEntry
    <2>. QED  BY <1>6, <2>1 DEF Submission
  <1>10. RecordsAreTrue'
    <2>1. ASSUME NEW i \in Entries, Confirmed(i)'
          PROVE  net[transactions[i].hash] = "success"
      <3>1. CASE i = n
        BY <1>1, <1>3, <2>1, <3>1 DEF Confirmed
      <3>2. CASE i # n
        BY <1>3, <1>4, <2>1, <3>2 DEF Confirmed, RecordsAreTrue
      <3>. QED  BY <3>1, <3>2
    <2>. QED  BY <1>4, <1>6, <2>1 DEF RecordsAreTrue
  <1>11. EvidenceStep
    BY <1>2, <1>3, <1>4, <1>6 DEF EvidenceStep, FinalStatuses, n
  <1>. QED  BY <1>2, <1>3, <1>7, <1>8, <1>9, <1>10, <1>11 DEF n

LEMMA HandleReplyLemma ==
    ASSUME OperatorInv, HandleReply
    PROVE  OperatorInv' /\ EvidenceStep
  <1>. USE DEF OperatorInv, OperatorTypeOK
  <1>0. pc = "sent" /\ UNCHANGED <<approval, net, campaign, sent>>
    BY DEF HandleReply, networkVars
  <1>1. CASE sent = "UNKNOWN"
    <2>1. /\ transactions' = Mark("broadcast_outcome_unknown", "none")
          /\ pc' = (IF label = OneOfThree THEN "idle" ELSE "wait")
          /\ label' = label
      BY <1>1 DEF HandleReply
    <2>2. "broadcast_outcome_unknown" \in OpenStatuses
      BY DEF OpenStatuses
    <2>3. /\ transactions' \in Seq(Entry) /\ Len(transactions') = Len(transactions)
          /\ Len(transactions) \in Entries
          /\ transactions'[Len(transactions)].label = label
          /\ transactions'[Len(transactions)].hash = approval.hash
          /\ transactions'[Len(transactions)].status = "broadcast_outcome_unknown"
          /\ RefusalsAreFinal' /\ RefusedFirst' /\ BroadcastHasEntry' /\ RecordsAreTrue'
          /\ EvidenceStep
      BY <1>0, <2>1, <2>2, OutcomeLemma
    <2>4. OperatorTypeOK' /\ ScriptKnows'
      BY <1>0, <2>1, <2>3 DEF ScriptKnows
    <2>5. LastIsUnderWay'
      BY <1>0, <2>1, <2>2, <2>3 DEF LastIsUnderWay, Entries, Labels
    <2>. QED  BY <2>3, <2>4, <2>5
  <1>2. CASE sent \in {"txBadAuth", "other"}
    <2>1. /\ transactions' = Mark("rejected_before_ledger", sent)
          /\ \/ /\ label = OneOfThree /\ sent = "txBadAuth"
                /\ pc' = "persist" /\ label' = TwoOfThree
             \/ pc' = "idle" /\ label' = label
      BY <1>2 DEF HandleReply
    <2>2. "rejected_before_ledger" \in FinalStatuses
      BY DEF FinalStatuses
    <2>3. /\ transactions' \in Seq(Entry) /\ Len(transactions') = Len(transactions)
          /\ Len(transactions) \in Entries
          /\ transactions'[Len(transactions)].label = label
          /\ transactions'[Len(transactions)].hash = approval.hash
          /\ transactions'[Len(transactions)].reason = sent
          /\ RefusalsAreFinal' /\ RefusedFirst' /\ BroadcastHasEntry' /\ RecordsAreTrue'
          /\ EvidenceStep
      BY <1>0, <1>2, <2>1, <2>2, OutcomeLemma
    <2>4. OperatorTypeOK' /\ ScriptKnows'
      BY <1>0, <2>1, <2>3 DEF ScriptKnows, Labels
    <2>5. LastIsUnderWay'
      BY <1>0, <2>1, <2>3 DEF LastIsUnderWay, Entries, Refusal
    <2>. QED  BY <2>3, <2>4, <2>5
  <1>3. CASE sent \notin {"UNKNOWN", "txBadAuth", "other"}
    <2>1. UNCHANGED <<transactions, label>> /\ pc' = (IF label = OneOfThree THEN "idle" ELSE "wait")
      BY <1>3 DEF HandleReply
    <2>2. OperatorTypeOK' /\ RefusalsAreFinal' /\ RefusedFirst' /\ BroadcastHasEntry'
             /\ RecordsAreTrue' /\ EvidenceStep
      BY <1>0, <2>1 DEF RefusalsAreFinal, RefusedFirst, Entries, Refusal, BroadcastHasEntry,
                        Submission, RecordsAreTrue, Confirmed, EvidenceStep
    <2>3. LastIsUnderWay' /\ ScriptKnows'
      BY <1>0, <2>1 DEF LastIsUnderWay, ScriptKnows, Labels
    <2>. QED  BY <2>2, <2>3
  <1>. QED  BY <1>1, <1>2, <1>3

LEMMA WaitConfirmedLemma ==
    ASSUME OperatorInv, WaitConfirmed
    PROVE  OperatorInv' /\ EvidenceStep
  <1>. USE DEF OperatorInv, OperatorTypeOK
  <1>0. pc = "wait" /\ UNCHANGED <<approval, net, campaign, label, sent>>
    BY DEF WaitConfirmed, networkVars
  <1>1. CASE Reported(approval.hash) = "SUCCESS"
    <2>1. transactions' = Mark("confirmed_success", "none") /\ pc' = "verify"
      BY <1>1 DEF WaitConfirmed
    <2>2. "confirmed_success" \in FinalStatuses /\ net[approval.hash] = "success"
      BY <1>1 DEF FinalStatuses, Reported
    <2>3. /\ transactions' \in Seq(Entry)
          /\ RefusalsAreFinal' /\ RefusedFirst' /\ BroadcastHasEntry' /\ RecordsAreTrue'
          /\ EvidenceStep
      BY <1>0, <2>1, <2>2, OutcomeLemma
    <2>4. OperatorTypeOK' /\ LastIsUnderWay' /\ ScriptKnows'
      BY <1>0, <2>1, <2>2, <2>3 DEF LastIsUnderWay, ScriptKnows
    <2>. QED  BY <2>3, <2>4
  <1>2. CASE Reported(approval.hash) # "SUCCESS"
    <2>1. UNCHANGED transactions /\ pc' = "idle"
      BY <1>2 DEF WaitConfirmed
    <2>2. OperatorTypeOK' /\ RefusalsAreFinal' /\ RefusedFirst' /\ BroadcastHasEntry'
             /\ RecordsAreTrue' /\ EvidenceStep
      BY <1>0, <2>1 DEF RefusalsAreFinal, RefusedFirst, Entries, Refusal, BroadcastHasEntry,
                        Submission, RecordsAreTrue, Confirmed, EvidenceStep
    <2>3. LastIsUnderWay' /\ ScriptKnows'
      BY <1>0, <2>1 DEF LastIsUnderWay, ScriptKnows
    <2>. QED  BY <2>2, <2>3
  <1>. QED  BY <1>1, <1>2

LEMMA OperatorStep ==
    ASSUME OperatorInv, [OperatorNext]_operatorVars
    PROVE  OperatorInv' /\ [EvidenceStep]_operatorVars
  <1>1. CASE OperatorNext
    BY <1>1, NetworkLemma, QuietLemma, SendAcceptedLemma, ApprovalLemma, PersistLemma,
       HandleReplyLemma, WaitConfirmedLemma
    DEF OperatorNext, ScriptStep
  <1>2. CASE UNCHANGED operatorVars
    <2>1. UNCHANGED <<transactions, approval, pc, label, sent, net, campaign>>
      BY <1>2 DEF operatorVars, fileVars, scriptVars, networkVars
    <2>. QED  BY <1>2, <2>1
              DEF OperatorInv, OperatorTypeOK, RefusalsAreFinal, RefusedFirst, LastIsUnderWay,
                  ScriptKnows, BroadcastHasEntry, RecordsAreTrue, Entries, Refusal, Submission,
                  Confirmed
  <1>. QED  BY <1>1, <1>2

(***************************************************************************)
(* The theorems.                                                           *)
(***************************************************************************)

\* The invariant holds throughout: the manifest's last entry is the submission
\* under way, and the script acts on nothing that has become false meanwhile.
THEOREM OperatorInvariant == OperatorSpec => []OperatorInv
  <1>1. OperatorInit => OperatorInv
    BY OperatorInitLemma
  <1>2. OperatorInv /\ [OperatorNext]_operatorVars => OperatorInv'
    BY OperatorStep
  <1>. QED  BY <1>1, <1>2, PTL DEF OperatorSpec

\* Whatever crashes and lost answers interrupt submitPrepared: an envelope in the
\* queue or on the ledger has its entry in the manifest, made after the refusal of
\* its one-signature form ("Persist before broadcasting").
THEOREM BroadcastsCorrect == OperatorSpec => []BroadcastIsRecorded
  <1>1. OperatorInv => BroadcastIsRecorded
    <2>. SUFFICES ASSUME OperatorInv, NEW h \in Approvals, net[h] # "absent"
                 PROVE  \E i, j \in 1..Len(transactions) :
                            /\ i < j
                            /\ transactions[i].label = OneOfThree /\ transactions[i].hash = h
                            /\ transactions[i].reason = "txBadAuth"
                            /\ transactions[j].label = TwoOfThree /\ transactions[j].hash = h
      BY DEF BroadcastIsRecorded
    <2>1. PICK j \in Entries : Submission(j, h)
      BY DEF OperatorInv, BroadcastHasEntry
    <2>2. PICK i \in Entries : i < j /\ Refusal(i, h)
      BY <2>1 DEF OperatorInv, RefusedFirst, Submission
    <2>. QED  BY <2>1, <2>2 DEF Entries, Submission, Refusal
  <1>. QED  BY <1>1, OperatorInvariant, PTL

\* The manifest shows a completion or an approval as confirmed only if the ledger
\* has it: through lost answers, reruns, refreshes and forgotten results.
THEOREM RecordsCorrect == OperatorSpec => []RecordsAreTrue
  <1>1. OperatorInv => RecordsAreTrue
    BY DEF OperatorInv
  <1>. QED  BY <1>1, OperatorInvariant, PTL

\* No rerun, recovery or refresh of the scripts rewrites evidence.
THEOREM EvidenceCorrect == OperatorSpec => EvidenceIsFinal
  <1>1. OperatorInv /\ [OperatorNext]_operatorVars => [EvidenceStep]_operatorVars
    BY OperatorStep
  <1>. QED  BY <1>1, OperatorInvariant, PTL DEF OperatorSpec, EvidenceIsFinal
=============================================================================
