------------------------------ MODULE HostAuth ------------------------------
(***************************************************************************)
(* The authorization manager of the patched Soroban host                   *)
(* (soroban-env-host-patch/src/auth.rs) and the accounts' authentication.   *)
(*                                                                         *)
(* An authorization entry is a tree of functions that an address allows to  *)
(* be invoked on its behalf.  A tracker matches the tree against the calls  *)
(* really made, keeping one match state for every frame of the call stack. *)
(*                                                                         *)
(* Trees are functions from paths (sequences of child indices, <<>> is the *)
(* root) to functions; the flags is_exhausted of its nodes are the set      *)
(* `exhausted' of paths.  This module has no state: its operators map a    *)
(* manager to the manager after one operation.                             *)
(***************************************************************************)
EXTENDS Integers, Sequences, FiniteSets, SequencesExt, Totals

CONSTANTS
    Keys,             \* public keys, numbered: the host compares them
    SignerWeight,     \* [classic account -> [Keys -> Nat]]: master key and signers, 0 if none
    MediumThreshold,  \* [classic account -> Nat]
    MinTempTtl,       \* shortest life in ledgers of a temporary entry
    MaxTtl            \* longest life in ledgers of any entry

ClassicAccounts == DOMAIN SignerWeight

ASSUME AuthAssumption ==
    /\ Keys \subseteq Nat
    /\ \A a \in ClassicAccounts : SignerWeight[a] \in [Keys -> 0..255]
    /\ MediumThreshold \in [ClassicAccounts -> 0..255]
    /\ MaxTtl \in Nat /\ MinTempTtl \in 1..MaxTtl

----------------------------------------------------------------------------
(* InvocationTracker.                                                      *)

\* MatchState of a frame: the node that it matched, if any.  SubMatch has the index
\* in the parent, which with the matches below it determines the path kept here.
Unmatched == {}
RootMatch == {<<>>}

NoFrame == 0            \* root_exhausted_frame = None

NewTracker(address, tree) ==
    [address |-> address, tree |-> tree, exhausted |-> {}, match_stack |-> <<>>,
     root_frame |-> NoFrame, processed |-> FALSE]

HasRootMatch(t) == \E i \in DOMAIN t.match_stack : t.match_stack[i] = RootMatch

\* The node that the calls in progress have reached (both functions of this name).
last_authorized_invocation(t) ==
    LET matched == {i \in DOMAIN t.match_stack : t.match_stack[i] # Unmatched}
        last == CHOOSE i \in matched : \A j \in matched : j <= i
    IN  IF matched = {} THEN <<>> ELSE CHOOSE path \in t.match_stack[last] : TRUE

current_frame_is_already_matched(t) ==
    t.match_stack # <<>> /\ Last(t.match_stack) # Unmatched

is_active(t) == <<>> \in t.exhausted /\ ~t.processed

push_frame(t) == [t EXCEPT !.match_stack = Append(@, Unmatched)]

\* Mutant: a tracker whose root frame is left stays active.
pop_frame_unprocessed(t) ==
    IF t.match_stack = <<>> THEN t ELSE [t EXCEPT !.match_stack = Front(@)]

pop_frame(t) ==
    LET left == IF t.match_stack = <<>> THEN <<>> ELSE Front(t.match_stack)
    IN  [t EXCEPT !.match_stack = left,
                  !.processed = @ \/ (t.root_frame # NoFrame /\ t.root_frame > Len(left))]

FreeChildren(t, path, fn) ==
    {i \in 1..Cardinality(DOMAIN t.tree) :
        /\ Append(path, i) \in DOMAIN t.tree \ t.exhausted
        /\ t.tree[Append(path, i)] = fn}

Lowest(S) == CHOOSE i \in S : \A j \in S : i <= j

MatchFrame(t, path) ==
    [t EXCEPT !.exhausted = @ \cup {path}, !.match_stack[Len(t.match_stack)] = {path}]

\* Mutant: children are matched wherever the calls are.
maybe_extend_invocation_match_anywhere(t, fn, allow_root) ==
    LET nodes == {p \in DOMAIN t.tree \ t.exhausted : t.tree[p] = fn}
    IN  IF current_frame_is_already_matched(t) \/ nodes = {} THEN t
        ELSE LET p == CHOOSE p \in nodes : \A q \in nodes : Len(p) <= Len(q)
             IN  [MatchFrame(t, p) EXCEPT
                    !.root_frame = IF p = <<>> THEN Len(t.match_stack) ELSE @]

\* Matches fn as a child of the node reached, or as the root; the tracker is
\* returned as it was when there is no match.
maybe_extend_invocation_match(t, fn, allow_root) ==
    LET path == last_authorized_invocation(t)
        free == FreeChildren(t, path, fn)
    IN  CASE current_frame_is_already_matched(t) -> t
          [] HasRootMatch(t) /\ ~current_frame_is_already_matched(t) ->
               IF free = {} THEN t
               ELSE MatchFrame(t, Append(path, Lowest(free)))
          [] OTHER ->
               IF allow_root /\ <<>> \notin t.exhausted /\ t.tree[<<>>] = fn
               THEN [MatchFrame(t, <<>>) EXCEPT !.root_frame = Len(t.match_stack)]
               ELSE t

rollback_invocation(t, exhausted) ==
    [t EXCEPT !.exhausted = exhausted,
              !.root_frame = IF <<>> \in exhausted THEN @ ELSE NoFrame,
              !.processed = @ /\ <<>> \in exhausted]

----------------------------------------------------------------------------
(* AccountAuthorizationTracker.  `borrowed' is the RefCell's flag: the      *)
(* tracker is in the middle of its account contract's __check_auth.         *)

NoNonce == [nonce |-> 0, expiration |-> 0]

\* An entry with source account credentials has no nonce and no signature.
from_authorization_entry(e) ==
    [invocation |-> NewTracker(e.address, e.tree), verified |-> FALSE, borrowed |-> FALSE,
     source |-> e.source, nonce |-> e.nonce, expiration |-> e.expiration,
     signatures |-> e.signatures]

\* What the signers sign: the nonce, the expiration and the whole tree.
get_signature_payload(t) == <<t.nonce, t.expiration, t.invocation.tree>>

MAX_ACCOUNT_SIGNATURES == 20

\* Sum of the weights of the signing keys.
SignedWeight(a, sigs) == Total([i \in DOMAIN sigs |-> SignerWeight[a][sigs[i].key]])

check_account_authentication(a, payload, sigs) ==
    /\ Len(sigs) \in 1..MAX_ACCOUNT_SIGNATURES
    /\ \A i \in 1..Len(sigs) - 1 : sigs[i].key < sigs[i + 1].key
    /\ \A i \in DOMAIN sigs : sigs[i].over = payload /\ SignerWeight[a][sigs[i].key] > 0
    /\ SignedWeight(a, sigs) >= MediumThreshold[a]

max_live_until_ledger(seq) == seq + MaxTtl - 1

min_live_until_ledger(seq) == seq + MinTempTtl - 1

NonceKey(t) == <<t.invocation.address, t.nonce>>

\* consume_nonce is possible: not expired, not too late, and not consumed before.
CanConsumeNonce(t, nonces, seq) ==
    \/ t.source
    \/ /\ seq <= t.expiration
       /\ t.expiration <= max_live_until_ledger(seq)
       /\ NonceKey(t) \notin DOMAIN nonces

\* Mutant: the nonce is kept for the shortest life only.
consume_nonce_short(key, expiration, nonces, seq) ==
    [k \in DOMAIN nonces \cup {key} |->
        IF k = key THEN min_live_until_ledger(seq) ELSE nonces[k]]

\* The nonce is a temporary entry that lives at least as long as the signature.
consume_nonce(key, expiration, nonces, seq) ==
    [k \in DOMAIN nonces \cup {key} |->
        IF k # key THEN nonces[k]
        ELSE IF expiration > min_live_until_ledger(seq) THEN expiration
        ELSE min_live_until_ledger(seq)]

\* Storage after verify_and_consume_nonce succeeded.
verify_and_consume_nonce(t, nonces, seq) ==
    IF t.source THEN nonces ELSE consume_nonce(NonceKey(t), t.expiration, nonces, seq)

----------------------------------------------------------------------------
(* AuthorizationManager: the call stack of functions, the trackers of the   *)
(* entries, the trackers contracts made for their own calls, and what       *)
(* recording mode remembers of address objects.                            *)

new_enforcing(entries) ==
    [recording |-> FALSE, call_stack |-> <<>>, invoker |-> <<>>, by_handle |-> <<>>,
     account |-> [i \in DOMAIN entries |-> from_authorization_entry(entries[i])]]

new_recording ==
    [recording |-> TRUE, call_stack |-> <<>>, invoker |-> <<>>, by_handle |-> <<>>,
     account |-> <<>>]

\* Trackers in the middle of authentication are skipped.
OnFree(F(_), trackers) ==
    [i \in DOMAIN trackers |->
        IF trackers[i].borrowed THEN trackers[i]
        ELSE [trackers[i] EXCEPT !.invocation = F(@)]]

push_tracker_frame(am) ==
    [am EXCEPT !.account = OnFree(push_frame, @),
               !.invoker = [i \in DOMAIN @ |-> push_frame(@[i])]]

\* push_frame of a contract and push_create_contract_host_fn_frame.
PushCall(am, fn) == push_tracker_frame([am EXCEPT !.call_stack = Append(@, fn)])

\* A snapshot is taken after the push; borrowed trackers are left out of it.
snapshot(am) ==
    [account |-> [i \in DOMAIN am.account |->
        [taken |-> ~am.account[i].borrowed, exhausted |-> am.account[i].invocation.exhausted,
         verified |-> am.account[i].verified]],
     invoker |-> [i \in DOMAIN am.invoker |-> am.invoker[i].exhausted],
     trackers |-> IF am.recording THEN am.account ELSE <<>>,
     by_handle |-> am.by_handle]

\* The trackers a failing contract made for itself and did not use make the
\* rollback fail with an internal error, "unexpected bad auth snapshot", once the
\* entries' trackers are rolled back.
CanRollback(am, snap) == Len(am.invoker) = Len(snap.invoker)

\* Mutant: the verification status is not rolled back.
rollback_tracker_keeps_verified(t, snap) ==
    [t EXCEPT !.invocation = rollback_invocation(@, snap.exhausted)]

\* rollback of one entry's tracker.
rollback_tracker(t, snap) ==
    [t EXCEPT !.invocation = rollback_invocation(@, snap.exhausted), !.verified = snap.verified]

rollback_accounts(am, snap) ==
    [am EXCEPT
        !.account = IF am.recording THEN snap.trackers
            ELSE [i \in DOMAIN @ |->
                IF snap.account[i].taken THEN rollback_tracker(@[i], snap.account[i]) ELSE @[i]]]

rollback(am, snap) ==
    [rollback_accounts(am, snap) EXCEPT
        !.invoker = [i \in DOMAIN @ |-> rollback_invocation(@[i], snap.invoker[i])],
        !.by_handle = snap.by_handle]

\* Trackers at the end of the list with an empty match stack are out of scope.
InScope(trackers) ==
    LET live == {i \in DOMAIN trackers : trackers[i].match_stack # <<>>}
        size == CHOOSE n \in 0..Len(trackers) :
                    (n = 0 /\ live = {}) \/ (n \in live /\ \A i \in live : i <= n)
    IN  SubSeq(trackers, 1, size)

\* pop_frame of the manager, after the rollback if there is one.
PopCall(am) ==
    IF am.call_stack = <<>> THEN am
    ELSE [am EXCEPT !.call_stack = Front(@),
                    !.account = OnFree(pop_frame, @),
                    !.invoker = InScope([i \in DOMAIN @ |-> pop_frame(@[i])])]

\* authorize_as_curr_contract.
add_invoker_contract_auth_with_curr_contract_as_invoker(am, contract, tree) ==
    [am EXCEPT !.invoker = Append(@, NewTracker(contract, tree))]

----------------------------------------------------------------------------
(* require_auth.  A result is the manager, and what happened: the call is   *)
(* authorized ("ok"), by the entry at index `tracker' if one was used; it is *)
(* authorized if that entry authenticates ("authenticate"); it is denied;   *)
(* or the host fails with an internal error.                               *)

Result(am, out, i) == [am |-> am, out |-> out, tracker |-> i]

DirectInvoker(am, address) ==
    /\ Len(am.call_stack) >= 2
    /\ am.call_stack[Len(am.call_stack) - 1].contract = address

\* The invoker trackers of this address that would match the call.
InvokerMatches(am, address, fn) ==
    {i \in DOMAIN am.invoker :
        /\ Len(am.call_stack) >= 2
        /\ am.invoker[i].address = address
        /\ \/ am.invoker[i].match_stack = <<>> /\ am.invoker[i].tree[<<>>] = fn
           \/ /\ am.invoker[i].match_stack # <<>>
              /\ maybe_extend_invocation_match(am.invoker[i], fn, TRUE) # am.invoker[i]}

\* Matching a tracker in the very frame that made it is an internal error: its
\* match stack is still empty.
maybe_check_invoker_contract_auth(am, i, fn) ==
    IF am.invoker[i].match_stack = <<>> THEN Result(am, "internal", 0)
    ELSE Result([am EXCEPT !.invoker[i] = maybe_extend_invocation_match(@, fn, TRUE)], "ok", 0)

HasActiveTracker(am, address) ==
    \E i \in DOMAIN am.account :
        /\ ~am.account[i].borrowed
        /\ am.account[i].invocation.address = address
        /\ is_active(am.account[i].invocation)
        /\ ~current_frame_is_already_matched(am.account[i].invocation)

require_auth_enforcing(am, address, fn) ==
    LET allow_root == ~HasActiveTracker(am, address)
        extended(i) == maybe_extend_invocation_match(am.account[i].invocation, fn, allow_root)
        matches == {i \in DOMAIN am.account :
            /\ ~am.account[i].borrowed
            /\ am.account[i].invocation.address = address
            /\ extended(i) # am.account[i].invocation}
        i == Lowest(matches)
    IN  IF matches = {} THEN Result(am, "denied", 0)
        ELSE Result([am EXCEPT !.account[i].invocation = extended(i)],
                    IF am.account[i].verified THEN "ok" ELSE "authenticate", i)

----------------------------------------------------------------------------
(* Recording mode: the simulation that a wallet runs before it signs.       *)

HasMatchInStack(t) == \E i \in DOMAIN t.match_stack : t.match_stack[i] # Unmatched

new_recording_tracker(am, address, fn, source) ==
    [invocation |->
        [NewTracker(address, <<>> :> fn) EXCEPT
            !.exhausted = {<<>>},
            !.match_stack = [i \in 1..Len(am.call_stack) |->
                IF i = Len(am.call_stack) THEN RootMatch ELSE Unmatched],
            !.root_frame = Len(am.call_stack)],
     verified |-> TRUE, borrowed |-> FALSE, source |-> source,
     nonce |-> IF source THEN 0 ELSE Len(am.account) + 1, expiration |-> 0, signatures |-> <<>>]

\* The call becomes a new last child of the node reached.
record_invocation(t, fn) ==
    LET path == last_authorized_invocation(t)
        n == 1 + Cardinality({p \in DOMAIN t.tree : p # <<>> /\ Front(p) = path})
    IN  MatchFrame([t EXCEPT !.tree = @ @@ (Append(path, n) :> fn)], Append(path, n))

\* The tracker that recording uses: the one of this very address object while
\* its root is on the stack, else the first one of the address that is on the
\* stack and not matched in this frame.
RecordingTracker(am, object, address) ==
    LET known == object \in DOMAIN am.by_handle
                 /\ HasMatchInStack(am.account[am.by_handle[object]].invocation)
        others == {i \in DOMAIN am.account :
            /\ am.account[i].invocation.address = address
            /\ HasMatchInStack(am.account[i].invocation)
            /\ ~current_frame_is_already_matched(am.account[i].invocation)}
    IN  IF known THEN {am.by_handle[object]}
        ELSE IF others # {} THEN {Lowest(others)} ELSE {}

require_auth_recording(am, object, address, fn, source, disable_non_root_auth) ==
    LET use == RecordingTracker(am, object, address)
        i == Lowest(use)
        cleared == [am EXCEPT !.by_handle =
            IF object \in DOMAIN @ /\ use # {@[object]}
            THEN [o \in DOMAIN @ \ {object} |-> @[o]] ELSE @]
    IN  CASE use # {} ->
               IF current_frame_is_already_matched(am.account[i].invocation)
               THEN Result(cleared, "denied", 0)
               ELSE Result([cleared EXCEPT !.account[i].invocation = record_invocation(@, fn)],
                           "ok", 0)
          [] use = {} /\ disable_non_root_auth /\ Len(am.call_stack) # 1 ->
               Result(cleared, "denied", 0)
          [] OTHER ->
               Result([cleared EXCEPT
                          !.account = Append(@, new_recording_tracker(am, address, fn, source)),
                          !.by_handle = @ @@ (object :> Len(am.account) + 1)], "recorded", 0)

\* The entries a wallet is asked to sign, in the order of the trackers.
get_recorded_auth_payloads(am) ==
    [i \in DOMAIN am.account |->
        [address |-> am.account[i].invocation.address, tree |-> am.account[i].invocation.tree,
         source |-> am.account[i].source, nonce |-> am.account[i].nonce]]
=============================================================================
