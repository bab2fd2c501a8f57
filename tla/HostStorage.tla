---------------------------- MODULE HostStorage ----------------------------
(***************************************************************************)
(* What contracts keep on the ledger, as the patched host runs them:        *)
(* storage and its footprint (storage.rs), instance storage cached in the    *)
(* frame that runs, frames that commit or roll back (host/frame.rs), the    *)
(* lives of entries (ledger_info.rs), contract creation and upgrade         *)
(* (host/lifecycle.rs, host/data_helper.rs), events, and the changes a       *)
(* transaction leaves on the ledger (e2e_invoke.rs).                        *)
(*                                                                         *)
(* An optional entry is a set: {} or {entry}.  Keys are tuples: an instance, *)
(* a code, or a contract's data key with its durability.                    *)
(***************************************************************************)
EXTENDS Integers, Sequences, FiniteSets, SequencesExt

CONSTANTS
    Contracts,      \* contract addresses
    Deployed,       \* the contracts that exist at the start
    Hashes,         \* hashes of contract code
    Uploaded,       \* the code that is on the ledger at the start
    DataKeys,       \* keys of a contract's data
    Values,         \* values that contracts store
    MinTempTtl, MinPersistentTtl, MaxTtl,   \* lives in ledgers, of the network
    ExtendTo,       \* pairs <<threshold, extend_to>> that contracts extend with
    Footprints,     \* the footprints that transactions declare
    Modes,          \* {"enforcing"}, {"recording"} or both
    Durabilities,   \* which of "temporary", "persistent", "instance" data is used
    DepthLimit,     \* most frames on the stack
    MaxSteps,       \* bound: host functions called, over all transactions
    MaxTxs,         \* bound: transactions
    MaxSeq          \* bound: ledgers

VARIABLES
    ledger,     \* [existing keys -> entry]
    seq,        \* ledger sequence number
    mode,       \* "idle", or how the footprint of the running transaction is used
    storage,    \* [map, footprint] of the running transaction
    stack,      \* its frames
    events,     \* its events buffer
    raised,     \* the error in flight
    steps, txs,
    effects,    \* history: values and events as if frames wrote them to the ledger directly
    accessed,   \* history: every access to storage, rolled back or not
    reentered   \* history: a frame was entered again by its own contract

vars == <<ledger, seq, mode, storage, stack, events, raised, steps, txs, effects, accessed, reentered>>

InstKey(c) == <<"inst", c>>
CodeKey(h) == <<"code", h>>
DataKey(c, k, d) == <<"data", c, k, d>>

AllKeys ==
    {InstKey(c) : c \in Contracts} \cup {CodeKey(h) : h \in Hashes}
    \cup {DataKey(c, k, d) : c \in Contracts, k \in DataKeys, d \in {"temporary", "persistent"}}

ASSUME StorageAssumption ==
    /\ Deployed \subseteq Contracts /\ Uploaded \subseteq Hashes
    /\ MaxTtl \in Nat /\ MinTempTtl \in 1..MaxTtl /\ MinPersistentTtl \in 1..MaxTtl
    /\ \A t \in ExtendTo : t[1] \in Nat /\ t[2] \in Nat
    /\ \A fp \in Footprints : DOMAIN fp \subseteq AllKeys
    /\ Modes \subseteq {"enforcing", "recording"}

get_key_durability(k) == IF k[1] = "data" THEN k[4] ELSE "persistent"

get_min_live_until_ledger(d) ==
    seq + (IF d = "temporary" THEN MinTempTtl ELSE MinPersistentTtl) - 1

max_live_until_ledger == seq + MaxTtl - 1

\* A map with one key set, or removed.
With(m, k, v) == [x \in DOMAIN m \cup {k} |-> IF x = k THEN v ELSE m[x]]
Without(m, k) == [x \in DOMAIN m \ {k} |-> m[x]]

----------------------------------------------------------------------------
(* Storage: the map of the entries and the footprint.                      *)

\* Mutant: the last access decides.
record_access_last(fp, keys, ty) ==
    [k \in DOMAIN fp \cup keys |-> IF k \in keys THEN ty ELSE fp[k]]

record_access(fp, keys, ty) ==
    [k \in DOMAIN fp \cup keys |->
        IF k \in DOMAIN fp /\ (k \notin keys \/ fp[k] = "rw") THEN fp[k] ELSE ty]

enforce_access(fp, k, ty) == k \in DOMAIN fp /\ (ty = "rw" => fp[k] = "rw")

MayAccess(k, ty) == mode = "enforcing" => enforce_access(storage.footprint, k, ty)

Snapshot(k) == IF k \in DOMAIN ledger THEN {ledger[k]} ELSE {}

\* Recording reads through to the ledger what the map does not hold yet.
ReadAll(st, keys) ==
    IF mode = "enforcing" THEN st
    ELSE [map |-> [k \in DOMAIN st.map \cup keys |->
                       IF k \in DOMAIN st.map THEN st.map[k] ELSE Snapshot(k)],
          footprint |-> record_access(st.footprint, keys, "ro")]

prepare_read_only_access(st, k) == ReadAll(st, {k})

put_opt(st, k, e) ==
    [map |-> With(st.map, k, e),
     footprint |-> IF mode = "enforcing" THEN st.footprint ELSE record_access(st.footprint, {k}, "rw")]

Peek(st, k) == LET m == prepare_read_only_access(st, k).map IN IF k \in DOMAIN m THEN m[k] ELSE {}

\* put_contract_data_into_ledger and store_contract_instance: an existing entry
\* keeps its life, a new one gets the shortest.
PutValue(st, k, v) ==
    LET r == prepare_read_only_access(st, k)
        live == IF r.map[k] # {} THEN (CHOOSE e \in r.map[k] : TRUE).live
                ELSE get_min_live_until_ledger(get_key_durability(k))
    IN  put_opt(r, k, {[val |-> v, live |-> live]})

\* extend_ttl succeeds.
CanExtend(st, k, threshold, extend_to) ==
    /\ threshold <= extend_to
    /\ Peek(st, k) # {}
    /\ get_key_durability(k) = "temporary" => seq + extend_to <= max_live_until_ledger

extend_ttl(st, k, threshold, extend_to) ==
    LET r == prepare_read_only_access(st, k)
        e == CHOOSE x \in r.map[k] : TRUE
        new == IF seq + extend_to > max_live_until_ledger THEN max_live_until_ledger
               ELSE seq + extend_to
    IN  IF new > e.live /\ e.live - seq <= threshold
        THEN [r EXCEPT !.map[k] = {[e EXCEPT !.live = new]}] ELSE r

----------------------------------------------------------------------------
(* Frames.  A frame holds the contract's instance as it was read when the    *)
(* frame was pushed, and instance storage once it was used: {} or {map}.    *)

Top == Last(stack)

Running == mode # "idle" /\ raised = "none" /\ Len(stack) > 1

Step == Running /\ steps < MaxSteps /\ steps' = steps + 1

Me == Top.contract

Instance(st, c) == (CHOOSE e \in Peek(st, InstKey(c)) : TRUE).val

NewFrame(c, kind, st) ==
    [contract |-> c, kind |-> kind, instance |-> Instance(st, c), cache |-> {}, modified |-> FALSE,
     map |-> st.map, events |-> Len(events), effects |-> effects]

\* The values on the ledger, without frames, caches or footprints.
ValuesOf(entries) == [k \in DOMAIN entries |-> entries[k].val]

FirstEffects == [vals |-> ValuesOf(ledger), events |-> {}]

HostFunctionFrame(st) ==
    [contract |-> "host", kind |-> "host_fn", instance |-> <<>>, cache |-> {}, modified |-> FALSE,
     map |-> st.map, events |-> 0, effects |-> FirstEffects]

\* maybe_init_instance_storage
InstanceStorage == IF Top.cache = {} THEN Top.instance.store ELSE CHOOSE m \in Top.cache : TRUE

\* Mutant: the frame writes back the executable it started with, too.
store_contract_instance_stale(st, f) ==
    PutValue(st, InstKey(f.contract), [f.instance EXCEPT !.store = CHOOSE m \in f.cache : TRUE])

\* The part that is not given is the one that storage has now.
store_contract_instance(st, f) ==
    PutValue(st, InstKey(f.contract),
             [Instance(st, f.contract) EXCEPT !.store = CHOOSE m \in f.cache : TRUE])

\* persist_instance_storage, at the end of a frame that succeeded.
Persisted(st, f) == IF f.modified THEN store_contract_instance(st, f) ELSE st

\* A host function that fails makes its contract fail.
Raise(kind) ==
    /\ raised' = kind
    /\ UNCHANGED <<ledger, seq, mode, stack, events, txs, effects, reentered>>

\* What a step that succeeds leaves alone.
Quiet == UNCHANGED <<ledger, seq, mode, raised, txs>>

Uses(ro, rw) == accessed' = accessed \cup (ro \X {"ro"}) \cup (rw \X {"rw"})

\* The event that a host function emits: {} or {topic}.
Emit(topics) ==
    IF topics = {} THEN UNCHANGED events
    ELSE \E t \in topics : events' = Append(events, [topic |-> t, failed |-> FALSE])

\* History: the values vals, and the event at its position in the buffer.
Affect(vals, topics) ==
    effects' = [vals |-> vals, events |-> effects.events \cup ({Len(events) + 1} \X topics)]

\* A host function that looks at the keys ro, then fails unless ok, then writes
\* the keys rw.  Leaving the footprint is not recoverable.
Using(ro, rw, ok, st, vals, topics) ==
    /\ Step
    /\ IF \E k \in ro : ~MayAccess(k, "ro")
       THEN Raise("fatal") /\ UNCHANGED <<storage, accessed>>
       ELSE IF ~ok
       THEN Raise("recoverable") /\ storage' = ReadAll(storage, ro) /\ Uses(ro, {})
       ELSE IF \E k \in rw : ~MayAccess(k, "rw")
       THEN Raise("fatal") /\ storage' = ReadAll(storage, ro) /\ Uses(ro, {})
       ELSE /\ storage' = st
            /\ Uses(ro, rw)
            /\ Emit(topics) /\ Affect(vals, topics)
            /\ Quiet /\ UNCHANGED <<stack, reentered>>

----------------------------------------------------------------------------
(* Transactions: invoke_host_function.                                     *)

Init ==
    /\ ledger = [k \in {InstKey(c) : c \in Deployed} \cup {CodeKey(h) : h \in Uploaded} |->
            IF k[1] = "inst"
            THEN [val |-> [exec |-> CHOOSE h \in Uploaded : TRUE, store |-> <<>>],
                  live |-> MinPersistentTtl]
            ELSE [val |-> 0, live |-> MinPersistentTtl]]
    /\ seq = 1 /\ mode = "idle" /\ storage = [map |-> <<>>, footprint |-> <<>>]
    /\ stack = <<>> /\ events = <<>> /\ raised = "none" /\ steps = 0 /\ txs = 0
    /\ effects = [vals |-> <<>>, events |-> {}] /\ accessed = {} /\ reentered = FALSE

Live(k) == k \in DOMAIN ledger => ledger[k].live >= seq

\* build_storage_map_from_xdr_ledger_entries: entries must be live, and a key
\* without an entry is known to have none.
EnforcingStorage(fp) == [map |-> [k \in DOMAIN fp |-> Snapshot(k)], footprint |-> fp]

\* What the invocation of a contract loads: its instance and its code.
Loaded(c) == {InstKey(c), CodeKey(ledger[InstKey(c)].val.exec)}

RecordingStorage(c) ==
    [map |-> [k \in Loaded(c) |-> Snapshot(k)], footprint |-> [k \in Loaded(c) |-> "ro"]]

\* What a call reads: the instance and its code.
CallKeys(c, st) ==
    {InstKey(c)} \cup (IF Peek(st, InstKey(c)) = {} THEN {} ELSE {CodeKey(Instance(st, c).exec)})

Invoke(m, fp, c) ==
    LET st == IF m = "enforcing" THEN EnforcingStorage(fp) ELSE RecordingStorage(c)
    IN  /\ mode = "idle" /\ txs < MaxTxs
        /\ InstKey(c) \in DOMAIN ledger
        /\ m = "enforcing" => /\ \A k \in DOMAIN fp : Live(k)
                              /\ Loaded(c) \subseteq DOMAIN fp
        /\ m = "recording" => fp = <<>> /\ \A k \in AllKeys : Live(k)
        /\ mode' = m
        /\ storage' = st
        /\ stack' = <<HostFunctionFrame(st),
                      [contract |-> c, kind |-> "call", instance |-> ledger[InstKey(c)].val,
                       cache |-> {}, modified |-> FALSE, map |-> st.map, events |-> 0,
                       effects |-> FirstEffects]>>
        /\ events' = <<>> /\ txs' = txs + 1 /\ effects' = FirstEffects /\ reentered' = FALSE
        /\ accessed' = Loaded(c) \X {"ro"}
        /\ UNCHANGED <<ledger, seq, raised, steps>>

\* Mutant: a life that became shorter is written.
NewLive_reduced(k, e) == e.live

\* get_ledger_changes never reduces the life of an entry.
NewLive(k, e) == IF k \in DOMAIN ledger /\ ledger[k].live > e.live THEN ledger[k].live ELSE e.live

\* The entry that a key has once the changes are applied: a read-only key can
\* only have its life extended.
Changed(k) ==
    IF k \notin DOMAIN storage.map THEN Snapshot(k)
    ELSE {[e EXCEPT !.live = NewLive(k, e)] : e \in storage.map[k]}

Reset ==
    /\ mode' = "idle" /\ storage' = [map |-> <<>>, footprint |-> <<>>] /\ stack' = <<>>
    /\ events' = <<>> /\ effects' = [vals |-> <<>>, events |-> {}] /\ accessed' = {} /\ reentered' = FALSE

Finished == mode # "idle" /\ raised = "none" /\ Len(stack) = 1

\* A simulation changes nothing on the ledger.
Commit ==
    /\ Finished
    /\ ledger' = IF mode = "recording" THEN ledger
                 ELSE [k \in {x \in AllKeys : Changed(x) # {}} |-> CHOOSE e \in Changed(k) : TRUE]
    /\ Reset
    /\ UNCHANGED <<seq, raised, steps, txs>>

\* The next ledger: temporary entries past their life are gone, persistent ones
\* are archived: no transaction can use them.
CloseLedger ==
    /\ mode = "idle" /\ seq < MaxSeq
    /\ seq' = seq + 1
    /\ ledger' = [k \in {x \in DOMAIN ledger :
                            get_key_durability(x) = "temporary" => ledger[x].live >= seq + 1} |-> ledger[k]]
    /\ UNCHANGED <<mode, storage, stack, events, raised, steps, txs, effects, accessed, reentered>>

\* RestoreFootprint, an operation of the network, not of the host.
Restore(k) ==
    /\ mode = "idle" /\ k \in DOMAIN ledger /\ ~Live(k)
    /\ ledger' = [ledger EXCEPT ![k].live = get_min_live_until_ledger("persistent")]
    /\ UNCHANGED <<seq, mode, storage, stack, events, raised, steps, txs, effects, accessed, reentered>>

----------------------------------------------------------------------------
(* Host functions that contracts call.                                     *)

PutContractData(k, v, d) ==
    LET key == DataKey(Me, k, d)
    IN  Using({key}, {key}, TRUE, PutValue(storage, key, v), With(effects.vals, key, v), {})

GetContractData(k, d) ==
    LET key == DataKey(Me, k, d)
    IN  Using({key}, {}, Peek(storage, key) # {}, prepare_read_only_access(storage, key),
              effects.vals, {})

DelContractData(k, d) ==
    LET key == DataKey(Me, k, d)
    IN  Using({}, {key}, TRUE, put_opt(storage, key, {}), Without(effects.vals, key), {})

ExtendContractDataTtl(k, d, t) ==
    LET key == DataKey(Me, k, d)
    IN  Using({key}, {}, CanExtend(storage, key, t[1], t[2]),
              extend_ttl(storage, key, t[1], t[2]), effects.vals, {})

\* extend_current_contract_instance_and_code_ttl
ExtendInstanceAndCodeTtl(t) ==
    LET inst == InstKey(Me)
        one == extend_ttl(storage, inst, t[1], t[2])
        code == CodeKey(Instance(storage, Me).exec)
    IN  Using({inst, code}, {}, CanExtend(storage, inst, t[1], t[2]) /\ CanExtend(one, code, t[1], t[2]),
              extend_ttl(one, code, t[1], t[2]), effects.vals, {})

\* put_contract_data and del_contract_data of instance storage: only the frame
\* changes; the first access initializes its copy.
InstanceChange(new, store) ==
    LET key == InstKey(Me)
    IN  /\ Step
        /\ "instance" \in Durabilities
        /\ stack' = [stack EXCEPT ![Len(stack)].cache = {new}, ![Len(stack)].modified = TRUE]
        /\ Affect(With(effects.vals, key, [effects.vals[key] EXCEPT !.store = store]), {})
        /\ Quiet /\ UNCHANGED <<storage, events, accessed, reentered>>

\* History: the instance storage as the ledger would have it.
StoreNow == effects.vals[InstKey(Me)].store

PutInstanceData(k, v) == InstanceChange(With(InstanceStorage, k, v), With(StoreNow, k, v))

DelInstanceData(k) == InstanceChange(Without(InstanceStorage, k), Without(StoreNow, k))

\* Code entries hold the version of their cost inputs: 0 for entries of older
\* protocols, which an upload replaces by a new entry with the shortest life.
UploadContractWasm(h) ==
    LET key == CodeKey(h)
        new == ~ \E e \in Peek(storage, key) : e.val = 1
    IN  Using({key}, IF new THEN {key} ELSE {}, TRUE,
              IF new THEN put_opt(prepare_read_only_access(storage, key), key,
                                  {[val |-> 1, live |-> get_min_live_until_ledger("persistent")]})
              ELSE prepare_read_only_access(storage, key),
              IF new THEN With(effects.vals, key, 1) ELSE effects.vals, {})

\* create_contract_with_id; its authorization is in HostCalls.
CreateContract(c, h) ==
    LET key == InstKey(c)
        free == Peek(storage, key) = {}
        inst == [exec |-> h, store |-> <<>>]
    IN  Using({key} \cup (IF free THEN {CodeKey(h)} ELSE {}), {key},
              free /\ Peek(storage, CodeKey(h)) # {},
              PutValue(prepare_read_only_access(storage, CodeKey(h)), key, inst),
              With(effects.vals, key, inst), {})

\* The executable changes; the contract's instance storage stays what it is.
UpdateCurrentContractWasm(h) ==
    LET key == InstKey(Me)
        st == ReadAll(storage, {CodeKey(h), key})
    IN  Using({CodeKey(h), key}, {key}, Peek(storage, CodeKey(h)) # {},
              PutValue(st, key, [Instance(st, Me) EXCEPT !.exec = h]),
              With(effects.vals, key, [effects.vals[key] EXCEPT !.exec = h]), {<<Me, h>>})

ContractEvent(v) == Using({}, {}, TRUE, storage, effects.vals, {<<Me, v>>})

----------------------------------------------------------------------------
(* Calls.  A contract cannot be entered again, except that an account        *)
(* contract's __check_auth may be from the contract itself ("self").        *)

Callers == {stack[i].contract : i \in 2..Len(stack)}

Call(c, kind) ==
    LET keys == CallKeys(c, storage)
        refused == \/ kind = "self" /\ c # Me
                   \/ kind # "self" /\ c \in Callers
                   \/ Len(stack) >= DepthLimit
    IN  /\ Step
        /\ ~refused
        /\ IF \E k \in keys : ~MayAccess(k, "ro")
           THEN Raise("fatal") /\ UNCHANGED <<storage, accessed>>
           ELSE /\ Uses(keys, {})
                /\ storage' = ReadAll(storage, keys)
                /\ IF Peek(storage, InstKey(c)) # {}
                   THEN /\ stack' = Append(stack, NewFrame(c, kind, storage'))
                        /\ reentered' = (reentered \/ kind = "self")
                        /\ Quiet /\ UNCHANGED <<events, effects>>
                   ELSE IF kind = "try"
                   THEN Quiet /\ UNCHANGED <<stack, events, effects, reentered>>
                   ELSE Raise("recoverable")

Fail ==
    Running /\ Raise("recoverable") /\ UNCHANGED <<storage, steps, accessed>>

\* The end of a frame that succeeded: its instance storage is written, which
\* fails the frame if the instance is not writable.
Return ==
    /\ Running
    /\ Uses({}, IF Top.modified THEN {InstKey(Me)} ELSE {})
    /\ UNCHANGED steps
    /\ IF Top.modified /\ ~MayAccess(InstKey(Me), "rw") THEN Raise("fatal") /\ UNCHANGED storage
       ELSE /\ storage' = Persisted(storage, Top)
            /\ stack' = Front(stack)
            /\ Quiet /\ UNCHANGED <<events, effects, reentered>>

RolledBackEvents(f) ==
    [i \in DOMAIN events |-> IF i > f.events THEN [events[i] EXCEPT !.failed = TRUE] ELSE events[i]]

\* pop_context with a rollback point: storage's map and the events; the
\* footprint stays.  try_call recovers, and the host function's frame ends it.
Unwind ==
    /\ raised # "none"
    /\ IF Len(stack) = 1
       THEN Reset /\ raised' = "none"
       ELSE /\ storage' = [storage EXCEPT !.map = Top.map]
            /\ events' = RolledBackEvents(Top)
            /\ effects' = Top.effects
            /\ stack' = Front(stack)
            /\ raised' = IF Top.kind = "try" /\ raised = "recoverable" THEN "none" ELSE raised
            /\ UNCHANGED <<mode, accessed, reentered>>
    /\ UNCHANGED <<ledger, seq, steps, txs>>

LedgerDurabilities == Durabilities \ {"instance"}

Next ==
    \/ \E fp \in Footprints, c \in Contracts : "enforcing" \in Modes /\ Invoke("enforcing", fp, c)
    \/ \E c \in Contracts : "recording" \in Modes /\ Invoke("recording", <<>>, c)
    \/ \E k \in DataKeys, v \in Values, d \in LedgerDurabilities : Running /\ PutContractData(k, v, d)
    \/ \E k \in DataKeys, d \in LedgerDurabilities : Running /\ GetContractData(k, d)
    \/ \E k \in DataKeys, d \in LedgerDurabilities : Running /\ DelContractData(k, d)
    \/ \E k \in DataKeys, d \in LedgerDurabilities, t \in ExtendTo :
            Running /\ ExtendContractDataTtl(k, d, t)
    \/ \E t \in ExtendTo : Running /\ ExtendInstanceAndCodeTtl(t)
    \/ \E k \in DataKeys, v \in Values : Running /\ PutInstanceData(k, v)
    \/ \E k \in DataKeys : Running /\ DelInstanceData(k)
    \/ \E h \in Hashes : Running /\ UploadContractWasm(h)
    \/ \E c \in Contracts, h \in Hashes : Running /\ CreateContract(c, h)
    \/ \E h \in Hashes : Running /\ UpdateCurrentContractWasm(h)
    \/ \E v \in Values : Running /\ ContractEvent(v)
    \/ \E c \in Contracts, kind \in {"call", "try", "self"} : Running /\ Call(c, kind)
    \/ Fail
    \/ Return
    \/ Unwind
    \/ Commit
    \/ CloseLedger
    \/ \E k \in AllKeys : Restore(k)

Spec == Init /\ [][Next]_vars

----------------------------------------------------------------------------
(* Properties.                                                             *)

\* The events that are reported, with their positions.
Externalized == {<<i, events[i].topic>> : i \in {j \in DOMAIN events : ~events[j].failed}}

\* What a transaction is about to change on the ledger, and the events it reports,
\* are exactly the writes and events of the frames that were not rolled back, in
\* their order.  Where a contract re-enters itself the outer frame's copy of the
\* instance storage wins over what the inner one wrote.
CommitIsSurvivingWrites ==
    Finished =>
        /\ ~reentered => \A k \in AllKeys :
              {e.val : e \in Changed(k)} =
                  {effects.vals[x] : x \in {k} \cap DOMAIN effects.vals}
        /\ Externalized = effects.events

\* No transaction shortens the life of an entry it leaves on the ledger, not even
\* by deleting the entry and creating it again, or by replacing old code.
LifeNeverReduced ==
    [][\A k \in DOMAIN ledger \cap DOMAIN ledger' : ledger'[k].live >= ledger[k].live]_vars

\* The footprint that a simulation records allows every access it made, those of
\* calls that were rolled back too: enforced, the same calls stay inside it.
RecordedFootprintSuffices ==
    mode = "recording" => \A a \in accessed : enforce_access(storage.footprint, a[1], a[2])
=============================================================================
