----------------------------- MODULE HostCalls -----------------------------
(***************************************************************************)
(* Invocations of contracts as the host runs them: frames, their rollback,  *)
(* and the authorization manager driven by them (host/frame.rs, auth.rs,    *)
(* host/lifecycle.rs, builtin_contracts/account_contract.rs).               *)
(*                                                                         *)
(* What a contract does is left open: in any frame it may call, require an  *)
(* authorization, authorize calls of its own, return or fail.  A failure   *)
(* unwinds one frame a step until a try_call recovers from it.              *)
(*                                                                         *)
(* Of the ledger only the nonces are modelled here; HostStorage has the     *)
(* rest of a frame's rollback.                                             *)
(***************************************************************************)
EXTENDS HostAuth

CONSTANTS
    Functions,      \* the contract functions: [contract, name]
    Objects,        \* address objects that contracts hold
    AddressOf,      \* [Objects -> addresses]
    Source,         \* the transaction's source account
    Declared,       \* the nonces that transactions declare in their footprint
    EntrySets,      \* the sequences of authorization entries transactions carry
    InvokerTrees,   \* trees that contracts authorize for their own calls
    Recording,      \* may a behaviour be a simulation in recording mode
    DisableNonRoot, \* simulations refuse entries that do not start at the root
    DepthLimit,     \* most frames on the stack (DEFAULT_HOST_DEPTH_LIMIT)
    MaxSteps,       \* bound: calls and requirements of one transaction
    MaxRecorded,    \* bound: the same, of a simulation
    MaxTxs,         \* bound: transactions
    MaxSeq          \* bound: ledgers

VARIABLES
    am,        \* the authorization manager
    frames,    \* the context stack
    raised,    \* the error in flight
    nonces,    \* [consumed nonces -> live until], as this transaction sees it
    ledger,    \* the nonces on the ledger
    seq,       \* ledger sequence number
    steps,     \* steps of this transaction
    txs,       \* transactions so far
    used,      \* history: entry nodes that committed transactions used
    trace      \* history, in simulations: the calls that were not rolled back

vars == <<am, frames, raised, nonces, ledger, seq, steps, txs, used, trace>>

ASSUME CallsAssumption ==
    /\ AddressOf \in [Objects -> {AddressOf[o] : o \in Objects}]
    /\ DepthLimit \in Nat \ {0}
    /\ MaxSteps \in Nat /\ MaxRecorded \in Nat /\ MaxTxs \in Nat /\ MaxSeq \in Nat
    /\ \A entries \in EntrySets :
          /\ Len(entries) \in Nat /\ DOMAIN entries = 1..Len(entries)
          /\ \A i \in DOMAIN entries : entries[i].source \in BOOLEAN /\ entries[i].expiration \in Nat
          /\ \A i \in DOMAIN entries : entries[i].address \in ClassicAccounts =>
                LET signatures == entries[i].signatures
                IN  /\ DOMAIN signatures = 1..Len(signatures)
                    /\ \A j \in DOMAIN signatures : signatures[j].key \in Keys

\* The host function that creates a contract, with its deployer.
CreateFn(deployer) == [contract |-> "host", name |-> deployer]

CheckAuthFn(a) == [contract |-> a, name |-> "__check_auth"]

Top == Last(frames)

Idle == frames = <<>>

\* A contract runs; a transaction has at most MaxSteps steps.
ContractKinds == {"call", "try", "check_auth"}

Running == ~Idle /\ raised = "none" /\ Top.kind \in ContractKinds

Step ==
    /\ Running
    /\ steps < IF am.recording THEN MaxRecorded ELSE MaxSteps
    /\ steps' = steps + 1

----------------------------------------------------------------------------
(* push_context and pop_context.                                           *)

Frame(kind, fn, m, tracker) ==
    [kind |-> kind, fn |-> fn, tracker |-> tracker, snap |-> snapshot(m),
     nonces |-> nonces, trace |-> trace, grants |-> {}]

Pushed(m, kind, fn, tracker) == Append(frames, Frame(kind, fn, m, tracker))

Record(op, x) == IF am.recording THEN Append(trace, <<op, x>>) ELSE trace

\* call_n_internal: no re-entry; __check_auth may re-enter the contract that runs.
ContractFrames == SelectSeq(frames, LAMBDA f : f.kind \in ContractKinds)

MayEnter(contract, self_allowed) ==
    /\ Len(ContractFrames) + 1 < DepthLimit
    /\ \/ \A i \in DOMAIN ContractFrames : ContractFrames[i].fn.contract # contract
       \/ self_allowed /\ Last(ContractFrames).fn.contract = contract

\* The frame below gets what a frame that returned was granted.
Popped ==
    IF Len(frames) = 1 THEN <<>>
    ELSE [Front(frames) EXCEPT ![Len(frames) - 1].grants = @ \cup Top.grants]

----------------------------------------------------------------------------
(* Transactions and ledgers.                                               *)

Init ==
    /\ am = new_enforcing(<<>>) /\ frames = <<>> /\ raised = "none"
    /\ nonces = <<>> /\ ledger = <<>> /\ seq = 1 /\ steps = 0 /\ txs = 0
    /\ used = {} /\ trace = <<>>

HostFunctionFrame(m) ==
    [kind |-> "host_fn", fn |-> CreateFn(Source), tracker |-> 0, snap |-> snapshot(m),
     nonces |-> ledger, trace |-> <<>>, grants |-> {}]

NewManagers ==
    {new_enforcing(entries) : entries \in EntrySets} \cup (IF Recording /\ txs = 0 THEN {new_recording} ELSE {})

\* invoke_function with InvokeContract: the host function's frame and the contract's.
InvokeContract(m, fn) ==
    /\ Idle /\ raised = "none" /\ txs < MaxTxs /\ ~am.recording
    /\ am' = PushCall(m, fn)
    /\ frames' = <<HostFunctionFrame(m),
                   [Frame("call", fn, PushCall(m, fn), 0) EXCEPT !.nonces = ledger, !.trace = <<>>]>>
    /\ trace' = IF m.recording THEN <<<<"push", fn>>>> ELSE <<>>
    /\ txs' = txs + 1 /\ steps' = 0 /\ nonces' = ledger
    /\ UNCHANGED <<raised, ledger, seq, used>>

\* The transaction succeeds: its changes become the ledger's.  What a simulation
\* recorded is kept to look at, and its changes are dropped.
Commit ==
    /\ ~Idle /\ raised = "none" /\ Top.kind = "host_fn"
    /\ frames' = <<>>
    /\ ledger' = IF am.recording THEN ledger ELSE nonces
    /\ nonces' = ledger'
    /\ used' = used \cup {[tx |-> txs, address |-> g.address, payload |-> g.payload,
                           path |-> g.path, keys |-> g.keys] : g \in {x \in Top.grants : ~x.source}}
    /\ am' = IF am.recording THEN am ELSE new_enforcing(<<>>)
    /\ steps' = 0
    /\ UNCHANGED <<raised, seq, txs, trace>>

\* The next ledger: temporary entries past their life are gone.
CloseLedger ==
    /\ Idle /\ seq < MaxSeq /\ ~am.recording
    /\ seq' = seq + 1
    /\ ledger' = [k \in {n \in DOMAIN ledger : ledger[n] >= seq + 1} |-> ledger[k]]
    /\ nonces' = ledger'
    /\ UNCHANGED <<am, frames, raised, steps, txs, used, trace>>

----------------------------------------------------------------------------
(* What contracts do.                                                      *)

Call(fn, kind) ==
    /\ Step
    /\ MayEnter(fn.contract, FALSE)
    /\ am' = PushCall(am, fn)
    /\ frames' = Pushed(PushCall(am, fn), kind, fn, 0)
    /\ trace' = Record("push", fn)
    /\ UNCHANGED <<raised, nonces, ledger, seq, txs, used>>

\* A call that cannot be made fails its caller; try_call only returns the error.
CallRefused(fn) ==
    /\ Step
    /\ ~MayEnter(fn.contract, FALSE)
    /\ raised' = "recoverable"
    /\ UNCHANGED <<am, frames, nonces, ledger, seq, txs, used, trace>>

AuthorizeAsCurrContract(tree) ==
    /\ Step
    /\ am' = add_invoker_contract_auth_with_curr_contract_as_invoker(am, Top.fn.contract, tree)
    /\ trace' = Record("authorize", <<Top.fn.contract, tree>>)
    /\ UNCHANGED <<frames, raised, nonces, ledger, seq, txs, used>>

\* require_auth_internal.
AuthResult(m, object, fn) ==
    LET address == AddressOf[object]
        invokers == InvokerMatches(m, address, fn)
    IN  CASE DirectInvoker(m, address) -> Result(m, "ok", 0)
          [] ~DirectInvoker(m, address) /\ invokers # {} ->
               maybe_check_invoker_contract_auth(m, Lowest(invokers), fn)
          [] OTHER ->
               IF m.recording
               THEN require_auth_recording(m, object, address, fn, address = Source, DisableNonRoot)
               ELSE require_auth_enforcing(m, address, fn)

\* History: what the frame was granted, by which node of which entry.
Grant(m, i, d) ==
    [tracker |-> i, address |-> m.account[i].invocation.address,
     path |-> last_authorized_invocation(m.account[i].invocation),
     payload |-> get_signature_payload(m.account[i]), source |-> m.account[i].source,
     depth |-> d, keys |-> {m.account[i].signatures[k].key : k \in DOMAIN m.account[i].signatures}]

Granted(stack, m, i) ==
    IF i = 0 THEN stack ELSE [stack EXCEPT ![Len(stack)].grants = @ \cup {Grant(m, i, Len(stack))}]

Verified(m, i) == [m EXCEPT !.account[i].verified = TRUE, !.account[i].borrowed = FALSE]

\* Nonces outside the declared footprint cannot be looked at: not recoverable.
NonceError(t) ==
    IF ~t.source /\ seq <= t.expiration /\ t.expiration <= max_live_until_ledger(seq)
       /\ NonceKey(t) \notin Declared
    THEN "fatal" ELSE "recoverable"

NonceOK(t) == (t.source \/ NonceKey(t) \in Declared) /\ CanConsumeNonce(t, nonces, seq)

\* authenticate of a source account or a classic account, and its nonce.
Authenticates(t) ==
    \/ t.source
    \/ /\ t.invocation.address \in ClassicAccounts
       /\ check_account_authentication(t.invocation.address, get_signature_payload(t), t.signatures)

\* require_auth in the frame that runs (or in create_contract's frame, top of m).
Require(m, stack, object) ==
    LET r == AuthResult(m, object, Last(m.call_stack))
        t == r.am.account[r.tracker]
        a == AddressOf[object]
        borrowed == [r.am EXCEPT !.account[r.tracker].borrowed = TRUE]
    IN  \/ /\ r.out = "ok"
           /\ am' = r.am /\ frames' = Granted(stack, r.am, r.tracker)
           /\ UNCHANGED <<raised, nonces>>
        \/ /\ r.out = "recorded"
           /\ am' = r.am /\ frames' = stack
           /\ nonces' = IF a = Source THEN nonces
                        ELSE consume_nonce(<<a, Last(r.am.account).nonce>>,
                                           max_live_until_ledger(seq), nonces, seq)
           /\ UNCHANGED raised
        \/ /\ r.out \in {"denied", "internal"}
           /\ raised' = IF r.out = "denied" THEN "recoverable" ELSE "internal"
           /\ am' = m /\ frames' = stack
           /\ UNCHANGED nonces
        \/ /\ r.out = "authenticate"
           /\ t.source \/ a \in ClassicAccounts
           /\ IF Authenticates(t) /\ NonceOK(t)
              THEN /\ am' = Verified(r.am, r.tracker)
                   /\ frames' = Granted(stack, r.am, r.tracker)
                   /\ nonces' = verify_and_consume_nonce(t, nonces, seq)
                   /\ UNCHANGED raised
              ELSE /\ raised' = IF Authenticates(t) THEN NonceError(t) ELSE "recoverable"
                   /\ am' = r.am /\ frames' = stack
                   /\ UNCHANGED nonces
        \/ /\ r.out = "authenticate"
           /\ ~t.source /\ a \notin ClassicAccounts
           /\ UNCHANGED nonces
           /\ IF MayEnter(a, TRUE)
              THEN /\ am' = PushCall(borrowed, CheckAuthFn(a))
                   /\ frames' = Append(stack, Frame("check_auth", CheckAuthFn(a), am', r.tracker))
                   /\ UNCHANGED raised
              ELSE raised' = "recoverable" /\ am' = r.am /\ frames' = stack

RequireAuth(object) ==
    /\ Step
    /\ Require(am, frames, object)
    /\ trace' = Record("require", object)
    /\ UNCHANGED <<ledger, seq, txs, used>>

\* create_contract with a deployer: an auth frame of its own, without a rollback
\* point, in which the deployer's authorization is required.
CreateContract(object) ==
    LET fn == CreateFn(AddressOf[object])
    IN  /\ Step
        /\ Require(PushCall(am, fn), Pushed(PushCall(am, fn), "create", fn, 0), object)
        /\ trace' = IF am.recording THEN trace \o <<<<"push", fn>>, <<"require", object>>>> ELSE trace
        /\ UNCHANGED <<ledger, seq, txs, used>>

\* A contract that fails, by an error of its own or of a host function.
Fail ==
    /\ Running
    /\ raised' = "recoverable"
    /\ UNCHANGED <<am, frames, nonces, ledger, seq, steps, txs, used, trace>>

Return ==
    /\ ~Idle /\ raised = "none" /\ Top.kind \in {"call", "try", "create"}
    /\ am' = PopCall(am)
    /\ frames' = Popped
    /\ trace' = Record("pop", 0)
    /\ UNCHANGED <<raised, nonces, ledger, seq, steps, txs, used>>

\* __check_auth accepts: the entry's nonce is consumed and the entry is verified.
CheckAuthReturn ==
    LET i == Top.tracker
        m == PopCall(am)
        t == m.account[i]
    IN  /\ Running /\ Top.kind = "check_auth"
        /\ IF NonceOK(t)
           THEN /\ am' = Verified(m, i)
                /\ frames' = Granted(Popped, m, i)
                /\ nonces' = verify_and_consume_nonce(t, nonces, seq)
                /\ UNCHANGED raised
           ELSE /\ am' = [m EXCEPT !.account[i].borrowed = FALSE]
                /\ frames' = Popped
                /\ raised' = NonceError(t)
                /\ UNCHANGED nonces
        /\ UNCHANGED <<ledger, seq, steps, txs, used, trace>>

----------------------------------------------------------------------------
(* An error pops the frame that it is in.                                  *)

Unborrow(m, f) ==
    IF f.kind = "check_auth" THEN [m EXCEPT !.account[f.tracker].borrowed = FALSE] ELSE m

Unwind ==
    LET snap == Top.snap
        bad == Top.kind # "create" /\ ~CanRollback(am, snap)
    IN  /\ ~Idle /\ raised # "none"
        /\ frames' = Front(frames)
        /\ IF Top.kind = "create"
           THEN am' = PopCall(am) /\ UNCHANGED <<raised, nonces, trace>>
           ELSE /\ nonces' = Top.nonces
                /\ trace' = Top.trace
                /\ am' = IF Len(frames) = 1 THEN new_enforcing(<<>>)
                         ELSE IF bad THEN Unborrow(rollback_accounts(am, snap), Top)
                         ELSE Unborrow(PopCall(rollback(am, snap)), Top)
                /\ raised' = CASE bad /\ Len(frames) > 1 -> "internal"
                               [] Len(frames) = 1 -> "none"
                               [] ~bad /\ Top.kind = "try" /\ raised = "recoverable" -> "none"
                               [] OTHER -> raised
        /\ steps' = IF Len(frames) = 1 THEN 0 ELSE steps
        /\ UNCHANGED <<ledger, seq, txs, used>>

Next ==
    \/ \E m \in NewManagers, fn \in Functions : InvokeContract(m, fn)
    \/ \E fn \in Functions, kind \in {"call", "try"} : Call(fn, kind)
    \/ \E fn \in Functions : CallRefused(fn)
    \/ \E tree \in InvokerTrees : AuthorizeAsCurrContract(tree)
    \/ \E object \in Objects : RequireAuth(object)
    \/ \E object \in Objects : CreateContract(object)
    \/ Fail
    \/ Return
    \/ CheckAuthReturn
    \/ Unwind
    \/ Commit
    \/ CloseLedger

Spec == Init /\ [][Next]_vars

----------------------------------------------------------------------------
(* Properties.                                                             *)

\* What frame i itself was granted.
OwnGrants(i) == {g \in frames[i].grants : g.depth = i}

\* What is done in a classic account's name was signed by different keys of the
\* account whose weights reach its medium threshold (2 of 3 for the role accounts).
QuorumSigned ==
    \A u \in used : u.address \in ClassicAccounts =>
        Total([k \in u.keys |-> SignerWeight[u.address][k]]) >= MediumThreshold[u.address]

\* A node of an entry authorizes the function it names, and only below the call
\* that its parent node authorized: a part of a signed tree is never usable on
\* its own (match stacks across calls, __check_auth, try_call and rollback), and
\* an account's part is usable only with the signatures of its quorum.
GrantedInContext ==
    /\ QuorumSigned
    /\ \A i \in DOMAIN frames : \A g \in OwnGrants(i) :
        /\ am.account[g.tracker].invocation.tree[g.path] = frames[i].fn
        /\ g.path # <<>> => \E j \in 1..i - 1 : \E h \in OwnGrants(j) :
                               h.tracker = g.tracker /\ h.path = Front(g.path)

GrantsOf(k) == {g.path : g \in {x \in UNION {frames[i].grants : i \in DOMAIN frames} : x.tracker = k}}

\* Rolling a frame back gives back exactly the nodes it used, and an entry counts
\* as verified exactly while its nonce is consumed by this transaction: a retry
\* after a failed try_call is authenticated again.
GrantsSurviveExactly ==
    raised = "none" /\ ~Idle /\ ~am.recording =>
        \A k \in DOMAIN am.account :
            LET t == am.account[k]
            IN  /\ ~t.borrowed => t.invocation.exhausted = GrantsOf(k)
                /\ t.verified => t.source \/ NonceKey(t) \in DOMAIN nonces \ DOMAIN ledger
                /\ ~t.source /\ NonceKey(t) \in DOMAIN nonces \ DOMAIN ledger =>
                        \E l \in DOMAIN am.account :
                            am.account[l].verified /\ NonceKey(am.account[l]) = NonceKey(t)

\* A node of a signed entry serves one transaction at most, however often the
\* entry is submitted and however many ledgers close in between: the nonce
\* outlives the signature.
NoReplay ==
    \A u, v \in used :
        u.tx # v.tx => <<u.address, u.payload>> # <<v.address, v.payload>>

\* The authorized calls of a simulation, replayed against what it recorded.
ReplayStep(s, op) ==
    IF ~s.ok THEN s
    ELSE CASE op[1] = "push" -> [s EXCEPT !.m = PushCall(@, op[2])]
           [] op[1] = "pop" -> [s EXCEPT !.m = PopCall(@)]
           [] op[1] = "authorize" ->
                [s EXCEPT !.m = add_invoker_contract_auth_with_curr_contract_as_invoker(
                                    @, op[2][1], op[2][2])]
           [] op[1] = "require" ->
                LET r == AuthResult(s.m, op[2], Last(s.m.call_stack))
                IN  [m |-> r.am, ok |-> r.out = "ok"]

SignedManager(payloads) ==
    LET entry(p) == [address |-> p.address, tree |-> p.tree, source |-> p.source,
                     nonce |-> p.nonce, expiration |-> MaxSeq, signatures |-> <<>>]
        m == new_enforcing([i \in DOMAIN payloads |-> entry(payloads[i])])
    IN  [m EXCEPT !.account = [i \in DOMAIN @ |-> [@[i] EXCEPT !.verified = TRUE]]]

OneObjectPerAddress ==
    \A i, j \in DOMAIN trace :
        trace[i][1] = "require" /\ trace[j][1] = "require"
        /\ AddressOf[trace[i][2]] = AddressOf[trace[j][2]] => trace[i][2] = trace[j][2]

\* The entries a simulation asks a wallet to sign authorize the simulated calls
\* when they are enforced, where contracts use one object for each address (with
\* several the host calls its own choice a best-effort heuristic).
RecordedEntriesSuffice ==
    Idle /\ am.recording /\ OneObjectPerAddress =>
        FoldLeft(ReplayStep, [m |-> SignedManager(get_recorded_auth_payloads(am)), ok |-> TRUE], trace).ok
=============================================================================
