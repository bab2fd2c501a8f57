-------------------------- MODULE HostStorage_proofs --------------------------
(***************************************************************************)
(* Theorems about HostStorage, for every number of contracts, keys, frames, *)
(* transactions and ledgers, and for every footprint a transaction declares. *)
(***************************************************************************)
EXTENDS HostStorage, TLAPS

(***************************************************************************)
(* The inductive invariant.                                                *)
(***************************************************************************)

EntryOK(e) == e = [val |-> e.val, live |-> e.live] /\ e.live \in Nat

EntriesOK(es) == \A e \in es : EntryOK(e) /\ es = {e}

MapOK(m) == \A k \in DOMAIN m : EntriesOK(m[k])

\* An enforced footprint has an entry, or its absence, for every key it names:
\* this is what makes a write to a key without a life impossible.
Complete(m) == mode = "enforcing" => DOMAIN storage.footprint \subseteq DOMAIN m

LedgerOK == seq \in Nat /\ \A k \in DOMAIN ledger : EntryOK(ledger[k])

StoreOK(st) == st = [map |-> st.map, footprint |-> st.footprint] /\ MapOK(st.map)

\* What a rollback restores is as good as what storage has now.
FrameOK(f) == "map" \in DOMAIN f /\ MapOK(f.map) /\ Complete(f.map)

IsSequence(s) == s \in Seq(Range(s))

StackOK ==
    /\ IsSequence(stack)
    /\ \A i \in 1..Len(stack) : FrameOK(stack[i])
    /\ raised # "none" => Len(stack) > 0

StorageInv ==
    /\ mode \in {"idle", "enforcing", "recording"}
    /\ LedgerOK
    /\ StoreOK(storage) /\ Complete(storage.map)
    /\ StackOK
    /\ RecordedFootprintSuffices

(***************************************************************************)
(* Values: what storage and the frames' copies of instance storage hold,   *)
(* against the history of what the frames wrote.                           *)
(***************************************************************************)

Vals(es) == {e.val : e \in es}

\* The values that a storage map m over the entries l gives for a key.
Held(l, m, k) ==
    Vals(IF k \in DOMAIN m THEN m[k] ELSE IF k \in DOMAIN l THEN {l[k]} ELSE {})

ValAt(vals, k) == {vals[x] : x \in {k} \cap DOMAIN vals}

IsInst(v) == v = [exec |-> v.exec, store |-> v.store]

\* The instance storage as a frame sees it.
OwnStore(f) == IF f.modified THEN CHOOSE m \in f.cache : TRUE ELSE f.instance.store

ShapeOK(f) ==
    /\ f = [contract |-> f.contract, kind |-> f.kind, instance |-> f.instance, cache |-> f.cache,
            modified |-> f.modified, map |-> f.map, events |-> f.events, effects |-> f.effects]
    /\ f.contract \in Contracts
    /\ f.modified \in BOOLEAN
    /\ f.cache = IF f.modified THEN {OwnStore(f)} ELSE {}

FrameKey(f) == InstKey(f.contract)

\* The contracts of frames 2 to n of s have an instance, and instances are instances.
Present(l, s, n, m) ==
    /\ \A i \in 2..n : Held(l, m, FrameKey(s[i])) # {}
    /\ \A c \in Contracts : \A v \in Held(l, m, InstKey(c)) : IsInst(v)

\* The instance of a frame's contract is in vals with the store that the frame
\* sees, and in the map with its executable.
FrameFits(l, f, m, vals) ==
    /\ FrameKey(f) \in DOMAIN vals /\ IsInst(vals[FrameKey(f)])
    /\ vals[FrameKey(f)].store = OwnStore(f)
    /\ \A v \in Held(l, m, FrameKey(f)) : v.exec = vals[FrameKey(f)].exec

\* With frames 2 to n of s on the stack the map holds vals, except that a frame
\* which changed its instance storage has still to write it.
Fits(l, s, n, m, vals) ==
    /\ \A k \in AllKeys :
          (\A i \in 2..n : s[i].modified => FrameKey(s[i]) # k) => Held(l, m, k) = ValAt(vals, k)
    /\ \A i \in 2..n : FrameFits(l, s[i], m, vals)

OneFrameEach(s) == \A i, j \in 2..Len(s) : s[i].contract = s[j].contract => i = j

\* Now and at every rollback point.
PresentInv ==
    /\ mode = "idle" => stack = <<>>
    /\ Present(ledger, stack, 0, <<>>)
    /\ Len(stack) > 0 => Present(ledger, stack, Len(stack), storage.map)
    /\ \A i \in 2..Len(stack) :
          ShapeOK(stack[i]) /\ Present(ledger, stack, i - 1, stack[i].map)

FitsInv ==
    Len(stack) > 0 /\ ~reentered =>
        /\ OneFrameEach(stack)
        /\ Fits(ledger, stack, Len(stack), storage.map, effects.vals)
        /\ \A i \in 2..Len(stack) : Fits(ledger, stack, i - 1, stack[i].map, stack[i].effects.vals)

ValuesInv == PresentInv /\ FitsInv

\* The events among the first n that are not marked as rolled back.
Shown(evs, n) == {<<i, evs[i].topic>> : i \in {j \in 1..n : ~evs[j].failed}}

IsEvent(e) == e = [topic |-> e.topic, failed |-> e.failed] /\ e.failed \in BOOLEAN

EventsInv ==
    /\ IsSequence(events)
    /\ \A i \in 1..Len(events) : IsEvent(events[i])
    /\ Len(stack) > 0 => effects.events = Shown(events, Len(events))
    /\ \A i \in 2..Len(stack) :
          /\ stack[i].events \in 0..Len(events)
          /\ stack[i].effects.events = Shown(events, stack[i].events)
          /\ \A j \in 2..i : stack[j].events <= stack[i].events

(***************************************************************************)
(* Sequences of frames.                                                    *)
(***************************************************************************)

LEMMA IsSequenceLemma ==
    ASSUME NEW T, NEW s \in Seq(T)
    PROVE  IsSequence(s) /\ Len(s) \in Nat /\ DOMAIN s = 1..Len(s)
  <1>1. \A i \in 1..Len(s) : s[i] \in Range(s)
    BY DEF Range
  <1>. QED  BY <1>1 DEF IsSequence

LEMMA FunctionLemma ==
    ASSUME NEW e, NEW l \in Nat, DOMAIN e = 1..l, e = [i \in 1..l |-> e[i]]
    PROVE  IsSequence(e) /\ Len(e) = l
  <1>1. \A i \in 1..l : e[i] \in Range(e)
    BY DEF Range
  <1>2. e \in Seq(Range(e)) /\ Len(e) = l
    BY <1>1
  <1>. QED  BY <1>2 DEF IsSequence

\* A sequence keeps being one when a frame is pushed, popped or replaced.
LEMMA PushLemma ==
    ASSUME NEW s, IsSequence(s), NEW f
    PROVE  /\ IsSequence(Append(s, f)) /\ Len(Append(s, f)) = Len(s) + 1
           /\ \A i \in 1..Len(s) + 1 :
                (i \in 1..Len(s) /\ Append(s, f)[i] = s[i]) \/ Append(s, f)[i] = f
  <1>1. s \in Seq(Range(s) \cup {f}) /\ Len(s) \in Nat
    BY DEF IsSequence
  <1>2. Append(s, f) \in Seq(Range(s) \cup {f}) /\ Len(Append(s, f)) = Len(s) + 1
    BY <1>1
  <1>3. \A i \in 1..Len(s) + 1 : Append(s, f)[i] = IF i = Len(s) + 1 THEN f ELSE s[i]
    BY <1>1
  <1>4. \A i \in 1..Len(s) + 1 :
            (i \in 1..Len(s) /\ Append(s, f)[i] = s[i]) \/ Append(s, f)[i] = f
    BY <1>1, <1>3
  <1>5. IsSequence(Append(s, f))
    BY <1>2, IsSequenceLemma, Zenon
  <1>. QED  BY <1>2, <1>4, <1>5, Zenon

LEMMA PopLemma ==
    ASSUME NEW s, IsSequence(s), Len(s) > 0
    PROVE  /\ IsSequence(Front(s)) /\ Len(Front(s)) = Len(s) - 1
           /\ \A i \in 1..Len(s) - 1 : i \in 1..Len(s) /\ Front(s)[i] = s[i]
  <1>1. Len(s) \in Nat /\ DOMAIN s = 1..Len(s)
    BY DEF IsSequence
  <1>2. Front(s) \in Seq(Range(s)) /\ Len(Front(s)) = Len(s) - 1
    BY <1>1 DEF Front, IsSequence
  <1>3. \A i \in 1..Len(s) - 1 : i \in 1..Len(s) /\ Front(s)[i] = s[i]
    BY <1>1 DEF Front, IsSequence
  <1>. QED  BY <1>2, <1>3, IsSequenceLemma, Zenon

LEMMA ReplaceLemma ==
    ASSUME NEW s, IsSequence(s), Len(s) > 0, NEW f
    PROVE  LET u == [s EXCEPT ![Len(s)] = f] IN
           /\ IsSequence(u) /\ Len(u) = Len(s)
           /\ \A i \in 1..Len(s) : u[i] = IF i = Len(s) THEN f ELSE s[i]
  <1>1. s \in Seq(Range(s) \cup {f}) /\ Len(s) \in Nat /\ DOMAIN s = 1..Len(s)
    BY DEF IsSequence
  <1>. DEFINE u == [s EXCEPT ![Len(s)] = f]
  <1>2. u \in Seq(Range(s) \cup {f}) /\ Len(u) = Len(s)
    BY <1>1
  <1>3. \A i \in 1..Len(s) : u[i] = IF i = Len(s) THEN f ELSE s[i]
    BY <1>1
  <1>. HIDE DEF u
  <1>4. IsSequence(u)
    BY <1>2, IsSequenceLemma, Zenon
  <1>5. IsSequence(u) /\ Len(u) = Len(s)
        /\ \A i \in 1..Len(s) : u[i] = IF i = Len(s) THEN f ELSE s[i]
    BY <1>2, <1>3, <1>4, Zenon
  <1>. QED  BY <1>5 DEF u

(***************************************************************************)
(* Storage.                                                                *)
(***************************************************************************)

\* From st to new the footprint keeps what it allows, and if it is recorded it
\* allows the keys ro to be read and rw to be written.
Grows(st, new, ro, rw) ==
    /\ mode = "enforcing" => new.footprint = st.footprint
    /\ mode = "recording" =>
        /\ \A k, ty : enforce_access(st.footprint, k, ty) => enforce_access(new.footprint, k, ty)
        /\ \A k \in ro : enforce_access(new.footprint, k, "ro")
        /\ \A k \in rw : enforce_access(new.footprint, k, "rw")

\* A transaction that runs, and a storage as it may be during a host function.
Ready(st) ==
    /\ mode \in {"enforcing", "recording"} /\ LedgerOK /\ StorageAssumption
    /\ StoreOK(st)
    /\ mode = "enforcing" => DOMAIN st.footprint \subseteq DOMAIN st.map

\* A key that storage gives an answer for.
Known(st, k) == mode = "enforcing" => k \in DOMAIN st.footprint

\* What a host function may leave in storage.
Good(st, new, ro, rw) == Ready(new) /\ Grows(st, new, ro, rw)

LEMMA GrowsTwice ==
    ASSUME NEW a, NEW b, NEW c, NEW ro1, NEW rw1, NEW ro2, NEW rw2,
           Grows(a, b, ro1, rw1), Grows(b, c, ro2, rw2)
    PROVE  Grows(a, c, ro1 \cup ro2, rw1 \cup rw2)
  BY DEF Grows

LEMMA EmptyGrows == ASSUME NEW st PROVE Grows(st, st, {}, {})
  BY DEF Grows

LEMMA SnapshotLemma == ASSUME LedgerOK, NEW k PROVE EntriesOK(Snapshot(k))
  BY DEF LedgerOK, Snapshot, EntriesOK

\* Recording an access.
LEMMA RecordLemma ==
    ASSUME NEW fp, NEW keys, NEW ty, ty \in {"ro", "rw"}
    PROVE  LET new == record_access(fp, keys, ty) IN
           /\ DOMAIN new = DOMAIN fp \cup keys
           /\ \A k, t : enforce_access(fp, k, t) => enforce_access(new, k, t)
           /\ \A k \in keys : enforce_access(new, k, ty)
  BY DEF record_access, enforce_access

LEMMA ReadLemma ==
    ASSUME NEW st, Ready(st), NEW keys
    PROVE  /\ Good(st, ReadAll(st, keys), keys, {})
           /\ \A k \in keys : Known(st, k) => k \in DOMAIN ReadAll(st, keys).map
           /\ \A k : Known(st, k) => Known(ReadAll(st, keys), k)
  <1>1. CASE mode = "enforcing"
    BY <1>1 DEF Ready, Good, Grows, ReadAll, Known
  <1>2. CASE mode = "recording"
    <2>. DEFINE m == [k \in DOMAIN st.map \cup keys |-> IF k \in DOMAIN st.map THEN st.map[k] ELSE Snapshot(k)]
                fp == record_access(st.footprint, keys, "ro")
    <2>1. ReadAll(st, keys) = [map |-> m, footprint |-> fp]
      BY <1>2 DEF ReadAll
    <2>2. /\ DOMAIN m = DOMAIN st.map \cup keys
          /\ \A k \in DOMAIN m : m[k] = IF k \in DOMAIN st.map THEN st.map[k] ELSE Snapshot(k)
      OBVIOUS
    <2>. HIDE DEF m
    <2>3. MapOK(m)
      BY <2>2, SnapshotLemma DEF MapOK, Ready, StoreOK
    <2>. HIDE DEF fp
    <2>4. /\ \A k, t : enforce_access(st.footprint, k, t) => enforce_access(fp, k, t)
          /\ \A k \in keys : enforce_access(fp, k, "ro")
      BY RecordLemma DEF fp
    <2>5. Ready(ReadAll(st, keys))
      BY <1>2, <2>1, <2>3 DEF Ready, StoreOK
    <2>6. Grows(st, ReadAll(st, keys), keys, {})
      BY <1>2, <2>1, <2>4 DEF Grows
    <2>. QED  BY <1>2, <2>1, <2>2, <2>5, <2>6 DEF Good, Known
  <1>. QED  BY <1>1, <1>2 DEF Ready

LEMMA PutOptLemma ==
    ASSUME NEW st, Ready(st), NEW k, NEW es, EntriesOK(es)
    PROVE  Good(st, put_opt(st, k, es), {}, {k})
  <1>. DEFINE m == [x \in DOMAIN st.map \cup {k} |-> IF x = k THEN es ELSE st.map[x]]
              fp == IF mode = "enforcing" THEN st.footprint ELSE record_access(st.footprint, {k}, "rw")
  <1>1. put_opt(st, k, es) = [map |-> m, footprint |-> fp]
    BY DEF put_opt, With
  <1>2. /\ DOMAIN m = DOMAIN st.map \cup {k}
        /\ \A x \in DOMAIN m : m[x] = IF x = k THEN es ELSE st.map[x]
    OBVIOUS
  <1>. HIDE DEF m
  <1>3. MapOK(m)
    BY <1>2 DEF MapOK, Ready, StoreOK
  <1>4. mode = "recording" =>
            /\ \A x, t : enforce_access(st.footprint, x, t) => enforce_access(fp, x, t)
            /\ enforce_access(fp, k, "rw")
    BY RecordLemma
  <1>5. mode = "enforcing" => fp = st.footprint
    OBVIOUS
  <1>. HIDE DEF fp
  <1>6. Ready(put_opt(st, k, es))
    BY <1>1, <1>2, <1>3, <1>5 DEF Ready, StoreOK
  <1>7. Grows(st, put_opt(st, k, es), {}, {k})
    BY <1>1, <1>4, <1>5 DEF Grows
  <1>. QED  BY <1>6, <1>7 DEF Good

\* The shortest life of a new entry is a life.
LEMMA MinLiveLemma ==
    ASSUME LedgerOK, StorageAssumption, NEW d
    PROVE  get_min_live_until_ledger(d) \in Nat /\ get_min_live_until_ledger(d) >= seq
  BY DEF LedgerOK, StorageAssumption, get_min_live_until_ledger

LEMMA PutValueLemma ==
    ASSUME NEW st, Ready(st), NEW k, Known(st, k), NEW v
    PROVE  Good(st, PutValue(st, k, v), {k}, {k})
  <1>. DEFINE r == prepare_read_only_access(st, k)
              live == IF r.map[k] # {} THEN (CHOOSE e \in r.map[k] : TRUE).live
                      ELSE get_min_live_until_ledger(get_key_durability(k))
              es == {[val |-> v, live |-> live]}
  <1>1. Good(st, r, {k}, {}) /\ k \in DOMAIN r.map
    BY ReadLemma DEF prepare_read_only_access
  <1>2. PutValue(st, k, v) = put_opt(r, k, es)
    BY DEF PutValue
  <1>. HIDE DEF r
  <1>3. live \in Nat
    <2>1. CASE r.map[k] # {}
      <3>1. (CHOOSE e \in r.map[k] : TRUE) \in r.map[k]
        BY <2>1
      <3>. QED  BY <1>1, <2>1, <3>1 DEF Good, Ready, StoreOK, MapOK, EntryOK, EntriesOK
    <2>2. CASE r.map[k] = {}
      BY <2>2, MinLiveLemma DEF Ready
    <2>. QED  BY <2>1, <2>2
  <1>. HIDE DEF live
  <1>4. EntriesOK(es)
    BY <1>3 DEF EntriesOK, EntryOK
  <1>. HIDE DEF es
  <1>5. Good(r, put_opt(r, k, es), {}, {k})
    BY <1>1, <1>4, PutOptLemma DEF Good
  <1>6. Grows(st, put_opt(r, k, es), {k} \cup {}, {} \cup {k})
    BY <1>1, <1>5, GrowsTwice DEF Good
  <1>. QED  BY <1>2, <1>5, <1>6 DEF Good, Grows

LEMMA PeekLemma ==
    ASSUME NEW st, NEW k, Peek(st, k) # {}
    PROVE  /\ k \in DOMAIN prepare_read_only_access(st, k).map
           /\ prepare_read_only_access(st, k).map[k] = Peek(st, k)
  BY Zenon DEF Peek

LEMMA LiveLemma ==
    ASSUME NEW x, EntryOK(x), NEW l
    PROVE  [x EXCEPT !.live = l] = [val |-> x.val, live |-> l]
  <1>. DEFINE y == [x EXCEPT !.live = l]
              z == [val |-> x.val, live |-> l]
  <1>1. DOMAIN x = {"val", "live"}
    BY DEF EntryOK
  <1>2. DOMAIN z = {"val", "live"} /\ z.val = x.val /\ z.live = l
    OBVIOUS
  <1>3. /\ y = [i \in DOMAIN x |-> IF i = "live" THEN l ELSE x[i]]
        /\ z = [i \in DOMAIN z |-> z[i]]
    OBVIOUS
  <1>. HIDE DEF z
  <1>4. \A i \in {"val", "live"} : y[i] = z[i]
    BY <1>1, <1>2
  <1>5. y = z
    BY <1>1, <1>2, <1>3, <1>4
  <1>. QED  BY <1>5 DEF z

LEMMA ExtendTtlLemma ==
    ASSUME NEW st, Ready(st), NEW k, NEW t \in ExtendTo, CanExtend(st, k, t[1], t[2])
    PROVE  Good(st, extend_ttl(st, k, t[1], t[2]), {k}, {})
  <1>. DEFINE r == prepare_read_only_access(st, k)
              e == CHOOSE x \in r.map[k] : TRUE
              new == IF seq + t[2] > max_live_until_ledger THEN max_live_until_ledger ELSE seq + t[2]
  <1>1. Good(st, r, {k}, {}) /\ k \in DOMAIN r.map /\ r.map[k] # {}
    BY ReadLemma, PeekLemma DEF prepare_read_only_access, CanExtend
  <1>2. extend_ttl(st, k, t[1], t[2]) =
            IF new > e.live /\ e.live - seq <= t[1] THEN [r EXCEPT !.map[k] = {[e EXCEPT !.live = new]}] ELSE r
    BY DEF extend_ttl
  <1>. HIDE DEF r
  <1>3. EntryOK(e)
    <2>1. e \in r.map[k]
      BY <1>1
    <2>. QED  BY <1>1, <2>1 DEF Good, Ready, StoreOK, MapOK, EntriesOK
  <1>. HIDE DEF e
  <1>4. new \in Nat
    BY DEF Ready, LedgerOK, StorageAssumption, max_live_until_ledger
  <1>. HIDE DEF new
  <1>. DEFINE es == {[e EXCEPT !.live = new]}
              n == [r EXCEPT !.map[k] = es]
  <1>5. EntriesOK(es)
    BY <1>3, <1>4, LiveLemma DEF EntriesOK, EntryOK
  <1>. HIDE DEF es
  <1>6. /\ n = [map |-> n.map, footprint |-> n.footprint]
        /\ n.footprint = r.footprint /\ DOMAIN n.map = DOMAIN r.map
        /\ \A x \in DOMAIN r.map : n.map[x] = IF x = k THEN es ELSE r.map[x]
    BY <1>1 DEF Good, Ready, StoreOK
  <1>7. extend_ttl(st, k, t[1], t[2]) \in {n, r}
    BY <1>2 DEF es
  <1>. HIDE DEF n
  <1>8. Good(st, n, {k}, {})
    BY <1>1, <1>5, <1>6 DEF Good, Ready, StoreOK, MapOK, Grows
  <1>. QED  BY <1>1, <1>7, <1>8

(***************************************************************************)
(* Host functions.                                                         *)
(***************************************************************************)

LEMMA RunningLemma ==
    ASSUME StorageInv, Running
    PROVE  Ready(storage) /\ Len(stack) \in Nat /\ Len(stack) > 1 /\ mode # "idle"
  <1>1. Len(stack) \in Nat
    BY IsSequenceLemma DEF StorageInv, StackOK, IsSequence
  <1>. QED  BY <1>1, StorageAssumption DEF StorageInv, Running, Ready, Complete

\* Storage, its recorded accesses and the frames after a host function: each frame
\* restores what it did before, or what storage has now.
LEMMA FramesStep ==
    ASSUME StorageInv, Running, NEW ro, NEW rw, Good(storage, storage', ro, rw),
           UNCHANGED <<ledger, seq, mode>>,
           accessed' = accessed \cup (ro \X {"ro"}) \cup (rw \X {"rw"}),
           IsSequence(stack'), Len(stack') > 0,
           \A i \in 1..Len(stack') :
               \/ i \in 1..Len(stack) /\ stack'[i] = stack[i]
               \/ "map" \in DOMAIN stack'[i] /\ stack'[i].map = storage'.map
               \/ /\ i \in 1..Len(stack) /\ "map" \in DOMAIN stack'[i]
                  /\ stack'[i].map = stack[i].map
    PROVE  StorageInv'
  <1>1. LedgerOK' /\ (mode \in {"idle", "enforcing", "recording"})'
    BY DEF StorageInv, LedgerOK, EntryOK
  <1>2. StoreOK(storage)' /\ Complete(storage.map)'
    BY DEF Good, Ready, StoreOK, MapOK, EntryOK, EntriesOK, Complete
  <1>3. \A m : (MapOK(m) => MapOK(m)') /\ (Complete(m) => Complete(m)')
    BY DEF MapOK, EntryOK, EntriesOK, Complete, Good, Grows
  <1>4. \A i \in 1..Len(stack') : FrameOK(stack[i])'
    BY <1>2, <1>3 DEF StorageInv, StackOK, FrameOK, StoreOK
  <1>5. StackOK'
    BY <1>4 DEF StackOK, IsSequence
  <1>6. RecordedFootprintSuffices'
    <2>. SUFFICES ASSUME mode = "recording", NEW a \in accessed'
                  PROVE  enforce_access(storage'.footprint, a[1], a[2])
      BY DEF RecordedFootprintSuffices
    <2>1. CASE a \in accessed
      BY <2>1 DEF StorageInv, RecordedFootprintSuffices, Good, Grows
    <2>2. CASE a \in ro \X {"ro"}
      BY <2>2 DEF Good, Grows
    <2>3. CASE a \in rw \X {"rw"}
      BY <2>3 DEF Good, Grows
    <2>. QED  BY <2>1, <2>2, <2>3
  <1>. QED  BY <1>1, <1>2, <1>5, <1>6 DEF StorageInv

\* The same, of a step that keeps the frames.
LEMMA QuietStep ==
    ASSUME StorageInv, Running, NEW ro, NEW rw, Good(storage, storage', ro, rw),
           UNCHANGED <<ledger, seq, mode, stack>>,
           accessed' = accessed \cup (ro \X {"ro"}) \cup (rw \X {"rw"})
    PROVE  StorageInv'
  <1>1. IsSequence(stack') /\ Len(stack') > 0
    BY RunningLemma DEF StorageInv, StackOK, IsSequence
  <1>. QED  BY <1>1, FramesStep

\* A step that leaves storage as it is.
LEMMA StayLemma ==
    ASSUME StorageInv, Running, UNCHANGED <<ledger, seq, mode, storage, stack, accessed>>
    PROVE  StorageInv'
  <1>1. Good(storage, storage', {}, {})
    BY RunningLemma, EmptyGrows DEF Good
  <1>. QED  BY <1>1, QuietStep, Zenon

\* A step that only looks at keys.
LEMMA LookLemma ==
    ASSUME StorageInv, Running, NEW ro, storage' = ReadAll(storage, ro), Uses(ro, {}),
           UNCHANGED <<ledger, seq, mode, stack>>
    PROVE  StorageInv'
  <1>1. Good(storage, storage', ro, {})
    BY RunningLemma, ReadLemma
  <1>. QED  BY <1>1, QuietStep DEF Uses

\* A host function, given what it leaves in storage when it succeeds.
LEMMA UsingLemma ==
    ASSUME StorageInv, NEW ro, NEW rw, NEW ok, NEW st, NEW vals, NEW topics,
           Using(ro, rw, ok, st, vals, topics),
           /\ ok
           /\ \A k \in ro : MayAccess(k, "ro")
           /\ \A k \in rw : MayAccess(k, "rw")
           => Good(storage, st, ro, rw)
    PROVE  StorageInv' /\ UNCHANGED ledger
  <1>1. Running
    BY DEF Using, Step
  <1>2. UNCHANGED <<ledger, seq, mode, stack>>
    BY DEF Using, Raise, Quiet
  <1>3. \/ UNCHANGED <<storage, accessed>>
        \/ storage' = ReadAll(storage, ro) /\ Uses(ro, {})
        \/ Good(storage, storage', ro, rw) /\ Uses(ro, rw)
    BY DEF Using
  <1>. QED  BY <1>1, <1>2, <1>3, StayLemma, LookLemma, QuietStep DEF Uses

\* A key that may be accessed is known to storage.
LEMMA KnownLemma ==
    ASSUME StorageInv, Running, NEW k, NEW ty, MayAccess(k, ty)
    PROVE  Known(storage, k)
  BY DEF MayAccess, enforce_access, Known

LEMMA DataStep ==
    ASSUME StorageInv, Running, NEW k, NEW d,
           \/ \E v : PutContractData(k, v, d)
           \/ GetContractData(k, d)
           \/ DelContractData(k, d)
           \/ \E t \in ExtendTo : ExtendContractDataTtl(k, d, t)
    PROVE  StorageInv' /\ UNCHANGED ledger
  <1>. DEFINE key == DataKey(Me, k, d)
  <1>0. Ready(storage)
    BY RunningLemma
  <1>1. ASSUME NEW v, PutContractData(k, v, d)
        PROVE  StorageInv' /\ UNCHANGED ledger
    <2>1. Using({key}, {key}, TRUE, PutValue(storage, key, v), With(effects.vals, key, v), {})
      BY <1>1, Zenon DEF PutContractData
    <2>. HIDE DEF key
    <2>2. MayAccess(key, "ro") => Good(storage, PutValue(storage, key, v), {key}, {key})
      BY <1>0, KnownLemma, PutValueLemma
    <2>. QED  BY <2>1, <2>2, UsingLemma
  <1>2. CASE GetContractData(k, d)
    <2>1. Using({key}, {}, Peek(storage, key) # {}, prepare_read_only_access(storage, key), effects.vals, {})
      BY <1>2, Zenon DEF GetContractData
    <2>. HIDE DEF key
    <2>2. Good(storage, prepare_read_only_access(storage, key), {key}, {})
      BY <1>0, ReadLemma DEF prepare_read_only_access
    <2>. QED  BY <2>1, <2>2, UsingLemma
  <1>3. CASE DelContractData(k, d)
    <2>1. Using({}, {key}, TRUE, put_opt(storage, key, {}), Without(effects.vals, key), {})
      BY <1>3, Zenon DEF DelContractData
    <2>. HIDE DEF key
    <2>2. Good(storage, put_opt(storage, key, {}), {}, {key})
      BY <1>0, PutOptLemma DEF EntriesOK
    <2>. QED  BY <2>1, <2>2, UsingLemma
  <1>4. ASSUME NEW t \in ExtendTo, ExtendContractDataTtl(k, d, t)
        PROVE  StorageInv' /\ UNCHANGED ledger
    <2>1. Using({key}, {}, CanExtend(storage, key, t[1], t[2]), extend_ttl(storage, key, t[1], t[2]),
              effects.vals, {})
      BY <1>4, Zenon DEF ExtendContractDataTtl
    <2>. HIDE DEF key
    <2>2. CanExtend(storage, key, t[1], t[2]) => Good(storage, extend_ttl(storage, key, t[1], t[2]), {key}, {})
      BY <1>0, ExtendTtlLemma
    <2>. QED  BY <2>1, <2>2, UsingLemma
  <1>. QED  BY <1>1, <1>2, <1>3, <1>4

LEMMA ExtendInstanceStep ==
    ASSUME StorageInv, Running, NEW t \in ExtendTo, ExtendInstanceAndCodeTtl(t)
    PROVE  StorageInv' /\ UNCHANGED ledger
  <1>. DEFINE inst == InstKey(Me)
              one == extend_ttl(storage, inst, t[1], t[2])
              code == CodeKey(Instance(storage, Me).exec)
              ok == CanExtend(storage, inst, t[1], t[2]) /\ CanExtend(one, code, t[1], t[2])
              two == extend_ttl(one, code, t[1], t[2])
  <1>1. Using({inst, code}, {}, ok, two, effects.vals, {})
    BY Zenon DEF ExtendInstanceAndCodeTtl
  <1>. HIDE DEF inst, code
  <1>2. ASSUME ok  PROVE Good(storage, two, {inst, code}, {})
    <2>1. Good(storage, one, {inst}, {})
      BY <1>2, RunningLemma, ExtendTtlLemma
    <2>. HIDE DEF one
    <2>2. Good(one, two, {code}, {})
      BY <1>2, <2>1, ExtendTtlLemma DEF Good
    <2>. HIDE DEF two
    <2>3. Grows(storage, two, {inst} \cup {code}, {} \cup {})
      BY <2>1, <2>2, GrowsTwice DEF Good
    <2>. QED  BY <2>2, <2>3 DEF Good, Grows
  <1>. HIDE DEF ok, two
  <1>. QED  BY <1>1, <1>2, UsingLemma

LEMMA UploadStep ==
    ASSUME StorageInv, Running, NEW h, UploadContractWasm(h)
    PROVE  StorageInv' /\ UNCHANGED ledger
  <1>. DEFINE key == CodeKey(h)
              new == ~ \E e \in Peek(storage, key) : e.val = 1
              r == prepare_read_only_access(storage, key)
              es == {[val |-> 1, live |-> get_min_live_until_ledger("persistent")]}
              st == IF new THEN put_opt(r, key, es) ELSE r
              rw == IF new THEN {key} ELSE {}
  <1>1. Using({key}, rw, TRUE, st, IF new THEN With(effects.vals, key, 1) ELSE effects.vals, {})
    BY Zenon DEF UploadContractWasm
  <1>. HIDE DEF key, new
  <1>2. Good(storage, r, {key}, {})
    BY RunningLemma, ReadLemma DEF prepare_read_only_access
  <1>. HIDE DEF r
  <1>3. EntriesOK(es)
    BY MinLiveLemma, StorageAssumption DEF StorageInv, EntriesOK, EntryOK
  <1>. HIDE DEF es
  <1>4. Good(r, put_opt(r, key, es), {}, {key})
    BY <1>2, <1>3, PutOptLemma DEF Good
  <1>5. Grows(storage, put_opt(r, key, es), {key} \cup {}, {} \cup {key})
    BY <1>2, <1>4, GrowsTwice DEF Good
  <1>6. Good(storage, st, {key}, rw)
    BY <1>2, <1>4, <1>5 DEF Good, Grows
  <1>. HIDE DEF st, rw
  <1>. QED  BY <1>1, <1>6, UsingLemma

LEMMA CreateStep ==
    ASSUME StorageInv, Running, NEW c, NEW h, CreateContract(c, h)
    PROVE  StorageInv' /\ UNCHANGED ledger
  <1>. DEFINE key == InstKey(c)
              free == Peek(storage, key) = {}
              inst == [exec |-> h, store |-> <<>>]
              ro == {key} \cup (IF free THEN {CodeKey(h)} ELSE {})
              ok == free /\ Peek(storage, CodeKey(h)) # {}
              r == prepare_read_only_access(storage, CodeKey(h))
              st == PutValue(r, key, inst)
  <1>1. Using(ro, {key}, ok, st, With(effects.vals, key, inst), {})
    BY Zenon DEF CreateContract
  <1>. HIDE DEF key, inst
  <1>2. ASSUME ok, MayAccess(key, "ro")
        PROVE  Good(storage, st, ro, {key})
    <2>1. Good(storage, r, {CodeKey(h)}, {}) /\ Known(r, key)
      BY <1>2, RunningLemma, ReadLemma, KnownLemma DEF prepare_read_only_access
    <2>. HIDE DEF r
    <2>2. Good(r, st, {key}, {key})
      BY <2>1, PutValueLemma DEF Good
    <2>. HIDE DEF st
    <2>3. Grows(storage, st, {CodeKey(h)} \cup {key}, {} \cup {key})
      BY <2>1, <2>2, GrowsTwice DEF Good
    <2>. QED  BY <2>2, <2>3 DEF Good, Grows
  <1>3. key \in ro
    OBVIOUS
  <1>. HIDE DEF ok, st, ro
  <1>. QED  BY <1>1, <1>2, <1>3, UsingLemma

LEMMA UpdateStep ==
    ASSUME StorageInv, Running, NEW h, UpdateCurrentContractWasm(h)
    PROVE  StorageInv' /\ UNCHANGED ledger
  <1>. DEFINE key == InstKey(Me)
              ro == {CodeKey(h), key}
              ok == Peek(storage, CodeKey(h)) # {}
              r == ReadAll(storage, ro)
              inst == [Instance(r, Me) EXCEPT !.exec = h]
              st == PutValue(r, key, inst)
  <1>1. Using(ro, {key}, ok, st, With(effects.vals, key, [effects.vals[key] EXCEPT !.exec = h]), {<<Me, h>>})
    BY Zenon DEF UpdateCurrentContractWasm
  <1>2. key \in ro
    OBVIOUS
  <1>. HIDE DEF key, ro, inst, ok
  <1>3. ASSUME MayAccess(key, "ro")
        PROVE  Good(storage, st, ro, {key})
    <2>1. Good(storage, r, ro, {}) /\ Known(r, key)
      BY <1>3, RunningLemma, ReadLemma, KnownLemma
    <2>. HIDE DEF r
    <2>2. Good(r, st, {key}, {key})
      BY <2>1, PutValueLemma DEF Good
    <2>. HIDE DEF st
    <2>3. Grows(storage, st, ro \cup {key}, {} \cup {key})
      BY <2>1, <2>2, GrowsTwice DEF Good
    <2>. QED  BY <2>2, <2>3 DEF Good, Grows
  <1>. HIDE DEF st
  <1>. QED  BY <1>1, <1>2, <1>3, UsingLemma

LEMMA EventStep ==
    ASSUME StorageInv, Running, NEW v, ContractEvent(v)
    PROVE  StorageInv' /\ UNCHANGED ledger
  <1>1. Using({}, {}, TRUE, storage, effects.vals, {<<Me, v>>})
    BY DEF ContractEvent
  <1>2. Good(storage, storage, {}, {})
    BY RunningLemma, EmptyGrows DEF Good
  <1>. QED  BY <1>1, <1>2, UsingLemma

(***************************************************************************)
(* Frames.                                                                 *)
(***************************************************************************)

LEMMA InstanceStep ==
    ASSUME StorageInv, Running,
           \/ \E k, v : PutInstanceData(k, v)
           \/ \E k : DelInstanceData(k)
    PROVE  StorageInv' /\ UNCHANGED ledger
  <1>1. PICK new, store : InstanceChange(new, store)
    BY Zenon DEF PutInstanceData, DelInstanceData
  <1>. DEFINE n == Len(stack)
              f == [stack[n] EXCEPT !.cache = {new}, !.modified = TRUE]
  <1>2. stack' = [stack EXCEPT ![n] = f]
    BY <1>1 DEF InstanceChange
  <1>3. UNCHANGED <<ledger, seq, mode, storage, accessed>>
    BY <1>1 DEF InstanceChange, Quiet
  <1>4. n \in Nat /\ n > 1 /\ n > 0 /\ Good(storage, storage, {}, {}) /\ IsSequence(stack)
    BY RunningLemma, EmptyGrows DEF Good, StorageInv, StackOK
  <1>5. "map" \in DOMAIN f /\ f.map = stack[n].map
    BY <1>4 DEF StorageInv, StackOK, FrameOK
  <1>. HIDE DEF f, n
  <1>. DEFINE u == [stack EXCEPT ![n] = f]
  <1>6. /\ IsSequence(u) /\ Len(u) = n
        /\ \A i \in 1..n : u[i] = IF i = n THEN f ELSE stack[i]
    BY <1>4, ReplaceLemma, Zenon DEF n
  <1>7. stack' = u
    BY <1>2
  <1>. HIDE DEF u
  <1>. QED  BY <1>3, <1>4, <1>5, <1>6, <1>7, FramesStep DEF n

LEMMA CallStep ==
    ASSUME StorageInv, Running, NEW c, NEW kind, Call(c, kind)
    PROVE  StorageInv' /\ UNCHANGED ledger
  <1>. DEFINE keys == CallKeys(c, storage)
              f == NewFrame(c, kind, storage')
  <1>1. UNCHANGED <<ledger, seq, mode>>
    BY DEF Call, Raise, Quiet
  <1>2. \/ UNCHANGED <<storage, accessed, stack>>
        \/ /\ storage' = ReadAll(storage, keys) /\ Uses(keys, {})
           /\ UNCHANGED stack \/ stack' = Append(stack, f)
    BY Zenon DEF Call, Raise, Quiet
  <1>3. "map" \in DOMAIN f /\ f.map = storage'.map
    BY DEF NewFrame
  <1>. HIDE DEF keys, f
  <1>4. CASE UNCHANGED <<storage, accessed, stack>>
    BY <1>1, <1>4, StayLemma
  <1>5. CASE storage' = ReadAll(storage, keys) /\ Uses(keys, {}) /\ UNCHANGED stack
    BY <1>1, <1>5, LookLemma
  <1>6. CASE storage' = ReadAll(storage, keys) /\ Uses(keys, {}) /\ stack' = Append(stack, f)
    <2>1. Good(storage, storage', keys, {})
      BY <1>6, RunningLemma, ReadLemma
    <2>2. IsSequence(stack)
      BY DEF StorageInv, StackOK
    <2>. DEFINE u == Append(stack, f)
    <2>3. /\ IsSequence(u) /\ Len(u) = Len(stack) + 1
          /\ \A i \in 1..Len(stack) + 1 : (i \in 1..Len(stack) /\ u[i] = stack[i]) \/ u[i] = f
      BY <2>2, PushLemma, Zenon
    <2>4. stack' = u /\ Len(stack) \in Nat /\ Len(stack) > 1
      BY <1>6, RunningLemma
    <2>. HIDE DEF u
    <2>. QED  BY <1>1, <1>3, <1>6, <2>1, <2>3, <2>4, FramesStep DEF Uses
  <1>. QED  BY <1>1, <1>2, <1>4, <1>5, <1>6

LEMMA FailStep ==
    ASSUME StorageInv, Fail
    PROVE  StorageInv' /\ UNCHANGED ledger
  BY StayLemma DEF Fail, Raise

LEMMA ReturnStep ==
    ASSUME StorageInv, Return
    PROVE  StorageInv' /\ UNCHANGED ledger
  <1>. DEFINE key == InstKey(Me)
              rw == IF Top.modified THEN {key} ELSE {}
  <1>1. /\ Running /\ Uses({}, rw) /\ UNCHANGED <<ledger, seq, mode>>
        /\ \/ ~MayAccess(key, "rw") /\ UNCHANGED <<stack, storage>>
           \/ /\ ~(Top.modified /\ ~MayAccess(key, "rw"))
              /\ storage' = Persisted(storage, Top)
              /\ stack' = Front(stack)
    BY DEF Return, Raise, Quiet
  <1>2. Ready(storage) /\ Len(stack) \in Nat /\ Len(stack) > 1
    BY <1>1, RunningLemma
  <1>3. CASE ~MayAccess(key, "rw") /\ UNCHANGED <<stack, storage>>
    <2>1. mode = "enforcing"
      BY <1>3 DEF MayAccess
    <2>2. Good(storage, storage', {}, rw)
      BY <1>2, <1>3, <2>1 DEF Good, Grows
    <2>. HIDE DEF rw, key
    <2>. QED  BY <1>1, <1>3, <2>2, QuietStep DEF Uses
  <1>4. CASE /\ ~(Top.modified /\ ~MayAccess(key, "rw"))
             /\ storage' = Persisted(storage, Top) /\ stack' = Front(stack)
    <2>1. Good(storage, storage', {}, rw)
      <3>1. CASE Top.modified
        <4>. DEFINE v == [Instance(storage, Me) EXCEPT !.store = CHOOSE m \in Top.cache : TRUE]
        <4>1. storage' = PutValue(storage, key, v)
          BY <1>4, <3>1 DEF Persisted, store_contract_instance, Me
        <4>2. Known(storage, key)
          BY <1>1, <1>4, <3>1, KnownLemma
        <4>. HIDE DEF v, key
        <4>3. Good(storage, storage', {key}, {key})
          BY <1>2, <4>1, <4>2, PutValueLemma
        <4>. QED  BY <3>1, <4>3 DEF Good, Grows
      <3>2. CASE ~Top.modified
        BY <1>2, <1>4, <3>2, EmptyGrows DEF Good, Persisted
      <3>. QED  BY <3>1, <3>2
    <2>. HIDE DEF rw, key
    <2>2. IsSequence(stack) /\ Len(stack) > 0
      BY <1>2 DEF StorageInv, StackOK
    <2>. DEFINE u == Front(stack)
    <2>3. /\ IsSequence(u) /\ Len(u) = Len(stack) - 1
          /\ \A i \in 1..Len(stack) - 1 : i \in 1..Len(stack) /\ u[i] = stack[i]
      BY <2>2, PopLemma, Zenon
    <2>4. stack' = u
      BY <1>4
    <2>. HIDE DEF u
    <2>. QED  BY <1>1, <1>2, <2>1, <2>3, <2>4, FramesStep DEF Uses
  <1>. HIDE DEF rw, key
  <1>. QED  BY <1>1, <1>3, <1>4

\* Between transactions.
LEMMA IdleLemma ==
    ASSUME LedgerOK', mode' = "idle", storage' = [map |-> <<>>, footprint |-> <<>>],
           stack' = <<>>, accessed' = {}, raised' = "none"
    PROVE  StorageInv'
  <1>1. storage'.map = <<>> /\ storage'.footprint = <<>> /\ Len(stack') = 0
    OBVIOUS
  <1>2. StoreOK(storage)' /\ Complete(storage.map)'
    BY <1>1 DEF StoreOK, MapOK, Complete
  <1>3. StackOK'
    BY <1>1 DEF StackOK, IsSequence
  <1>. QED  BY <1>2, <1>3 DEF StorageInv, RecordedFootprintSuffices

LEMMA UnwindStep ==
    ASSUME StorageInv, Unwind
    PROVE  StorageInv' /\ UNCHANGED ledger
  <1>1. UNCHANGED <<ledger, seq>> /\ Len(stack) \in Nat /\ Len(stack) > 0 /\ IsSequence(stack)
    BY IsSequenceLemma DEF Unwind, StorageInv, StackOK, IsSequence
  <1>2. LedgerOK'
    BY <1>1 DEF StorageInv, LedgerOK, EntryOK
  <1>3. CASE Len(stack) = 1
    <2>1. mode' = "idle" /\ storage' = [map |-> <<>>, footprint |-> <<>>] /\ stack' = <<>>
          /\ accessed' = {} /\ raised' = "none"
      BY <1>3 DEF Unwind, Reset
    <2>. QED  BY <1>1, <1>2, <2>1, IdleLemma
  <1>4. CASE Len(stack) # 1
    <2>. DEFINE u == Front(stack)
                n == Len(stack)
    <2>1. /\ storage' = [storage EXCEPT !.map = stack[n].map]
          /\ stack' = u
          /\ UNCHANGED <<mode, accessed>>
      BY <1>4 DEF Unwind, Top, Last
    <2>2. FrameOK(stack[n])
      BY <1>1 DEF StorageInv, StackOK
    <2>3. storage'.map = stack[n].map /\ storage'.footprint = storage.footprint /\ StoreOK(storage)'
      BY <2>1, <2>2 DEF StorageInv, StoreOK, FrameOK, MapOK, EntryOK, EntriesOK
    <2>4. \A m : (MapOK(m) => MapOK(m)') /\ (Complete(m) => Complete(m)')
      BY <2>1, <2>3 DEF MapOK, EntryOK, EntriesOK, Complete
    <2>5. IsSequence(u) /\ Len(u) = n - 1 /\ \A i \in 1..n - 1 : i \in 1..n /\ u[i] = stack[i]
      BY <1>1, PopLemma, Zenon
    <2>. HIDE DEF u, n
    <2>a. \A x \in Nat : x > 0 /\ x # 1 => x > 1
      OBVIOUS
    <2>6. n \in Nat /\ n > 1
      BY <1>1, <1>4, <2>a, Zenon DEF n
    <2>7. StackOK'
      BY <2>1, <2>4, <2>5, <2>6 DEF StackOK, IsSequence, StorageInv, FrameOK, n
    <2>8. Complete(storage.map)'
      BY <2>2, <2>3, <2>4 DEF FrameOK, Complete
    <2>9. RecordedFootprintSuffices'
      BY <2>1, <2>3 DEF StorageInv, RecordedFootprintSuffices
    <2>. QED  BY <1>1, <1>2, <2>1, <2>3, <2>7, <2>8, <2>9 DEF StorageInv
  <1>. QED  BY <1>1, <1>3, <1>4

(***************************************************************************)
(* Transactions.                                                           *)
(***************************************************************************)

LEMMA InvokeStep ==
    ASSUME StorageInv, NEW m \in {"enforcing", "recording"}, NEW fp, NEW c, Invoke(m, fp, c)
    PROVE  StorageInv' /\ UNCHANGED ledger
  <1>. DEFINE st == IF m = "enforcing" THEN EnforcingStorage(fp) ELSE RecordingStorage(c)
              g == [contract |-> c, kind |-> "call", instance |-> ledger[InstKey(c)].val,
                    cache |-> {}, modified |-> FALSE, map |-> st.map, events |-> 0, effects |-> FirstEffects]
              h == HostFunctionFrame(st)
  <1>1. /\ mode = "idle" /\ mode' = m /\ storage' = st /\ stack' = <<h, g>>
        /\ accessed' = Loaded(c) \X {"ro"} /\ UNCHANGED <<ledger, seq>>
    BY Zenon DEF Invoke
  <1>2. h.map = st.map /\ "map" \in DOMAIN h /\ g.map = st.map /\ "map" \in DOMAIN g
    BY DEF HostFunctionFrame
  <1>3. /\ st = [map |-> st.map, footprint |-> st.footprint]
        /\ DOMAIN st.footprint = DOMAIN st.map
        /\ \A k \in DOMAIN st.map : st.map[k] = Snapshot(k)
        /\ m = "recording" => \A k \in Loaded(c) : enforce_access(st.footprint, k, "ro")
    BY DEF EnforcingStorage, RecordingStorage, enforce_access
  <1>. HIDE DEF st, g, h
  <1>4. LedgerOK'
    BY <1>1 DEF StorageInv, LedgerOK, EntryOK
  <1>5. MapOK(st.map)
    BY <1>3, SnapshotLemma DEF MapOK, StorageInv
  <1>6. StoreOK(storage)' /\ Complete(storage.map)'
    BY <1>1, <1>3, <1>5 DEF StoreOK, MapOK, EntryOK, EntriesOK, Complete
  <1>7. StackOK'
    <2>1. Len(<<h, g>>) = 2 /\ <<h, g>>[1] = h /\ <<h, g>>[2] = g /\ <<h, g>> \in Seq({h, g})
      OBVIOUS
    <2>2. IsSequence(<<h, g>>)
      BY <2>1, IsSequenceLemma, Zenon
    <2>3. \A f : "map" \in DOMAIN f /\ f.map = st.map => FrameOK(f)'
      BY <1>1, <1>3, <1>5 DEF FrameOK, MapOK, EntryOK, EntriesOK, Complete
    <2>4. \A i \in 1..Len(<<h, g>>) : i = 1 \/ i = 2
      BY <2>1
    <2>. DEFINE s == <<h, g>>
    <2>5. stack' = s
      BY <1>1
    <2>6. Len(s) = 2 /\ s[1] = h /\ s[2] = g
      BY <2>1
    <2>. HIDE DEF s
    <2>7. \A i \in 1..Len(s) : s[i] = h \/ s[i] = g
      BY <2>4, <2>6 DEF s
    <2>8. (\A i \in 1..Len(stack) : FrameOK(stack[i]))'
      BY <1>2, <2>3, <2>5, <2>7
    <2>. QED  BY <2>2, <2>5, <2>6, <2>8 DEF StackOK, IsSequence, s
  <1>8. RecordedFootprintSuffices'
    BY <1>1, <1>3 DEF RecordedFootprintSuffices
  <1>. QED  BY <1>1, <1>4, <1>6, <1>7, <1>8 DEF StorageInv

\* What becomes of the entries that stay on the ledger.
NotReduced == \A k \in DOMAIN ledger \cap DOMAIN ledger' : ledger'[k].live >= ledger[k].live

LEMMA SameLedger == ASSUME LedgerOK, UNCHANGED ledger PROVE NotReduced
  BY DEF LedgerOK, NotReduced, EntryOK

\* A commit never makes a life shorter, whatever the transaction left in storage.
LEMMA ChangedLemma ==
    ASSUME StorageInv, NEW k, NEW e \in Changed(k)
    PROVE  EntryOK(e) /\ (k \in DOMAIN ledger => e.live >= ledger[k].live)
  <1>1. CASE k \notin DOMAIN storage.map
    BY <1>1 DEF Changed, Snapshot, StorageInv, LedgerOK, EntryOK
  <1>2. CASE k \in DOMAIN storage.map
    <2>1. PICK x \in storage.map[k] : e = [x EXCEPT !.live = NewLive(k, x)]
      BY <1>2 DEF Changed
    <2>2. EntryOK(x)
      BY <1>2 DEF StorageInv, StoreOK, MapOK, EntriesOK
    <2>3. k \in DOMAIN ledger => EntryOK(ledger[k])
      BY DEF StorageInv, LedgerOK
    <2>4. NewLive(k, x) \in Nat /\ (k \in DOMAIN ledger => NewLive(k, x) >= ledger[k].live)
      BY <2>2, <2>3 DEF NewLive, EntryOK
    <2>. HIDE DEF NewLive
    <2>. QED  BY <2>1, <2>2, <2>4 DEF EntryOK
  <1>. QED  BY <1>1, <1>2

LEMMA CommitStep ==
    ASSUME StorageInv, Commit
    PROVE  StorageInv' /\ NotReduced
  <1>1. Reset /\ raised' = "none" /\ UNCHANGED seq
    BY DEF Commit, Finished
  <1>2. CASE mode = "recording"
    <2>1. UNCHANGED ledger /\ LedgerOK
      BY <1>2 DEF Commit, StorageInv
    <2>2. LedgerOK'
      BY <1>1, <2>1 DEF LedgerOK, EntryOK
    <2>. QED  BY <1>1, <2>1, <2>2, IdleLemma, SameLedger DEF Reset
  <1>3. CASE mode # "recording"
    <2>1. ledger' = [k \in {x \in AllKeys : Changed(x) # {}} |-> CHOOSE e \in Changed(k) : TRUE]
      BY <1>3 DEF Commit
    <2>2. \A k \in DOMAIN ledger' : ledger'[k] \in Changed(k)
      <3>. SUFFICES ASSUME NEW k \in DOMAIN ledger'  PROVE ledger'[k] \in Changed(k)
        OBVIOUS
      <3>1. Changed(k) # {} /\ ledger'[k] = CHOOSE e \in Changed(k) : TRUE
        BY <2>1
      <3>. QED  BY <3>1
    <2>3. \A k \in DOMAIN ledger' :
              EntryOK(ledger'[k]) /\ (k \in DOMAIN ledger => ledger'[k].live >= ledger[k].live)
      BY <2>2, ChangedLemma
    <2>4. LedgerOK' /\ NotReduced
      BY <1>1, <2>3 DEF StorageInv, LedgerOK, EntryOK, NotReduced
    <2>. QED  BY <1>1, <2>4, IdleLemma DEF Reset
  <1>. QED  BY <1>2, <1>3

\* A step of the network, between transactions.
LEMMA NetworkLemma ==
    ASSUME StorageInv, LedgerOK', mode = "idle",
           UNCHANGED <<mode, storage, stack, raised, accessed>>
    PROVE  StorageInv'
  <1>1. StoreOK(storage)' /\ Complete(storage.map)'
    BY DEF StorageInv, StoreOK, MapOK, EntryOK, EntriesOK, Complete
  <1>2. StackOK'
    BY DEF StorageInv, StackOK, IsSequence, FrameOK, MapOK, EntryOK, EntriesOK, Complete
  <1>3. RecordedFootprintSuffices'
    BY DEF RecordedFootprintSuffices
  <1>. QED  BY <1>1, <1>2, <1>3 DEF StorageInv

LEMMA CloseStep ==
    ASSUME StorageInv, CloseLedger
    PROVE  StorageInv' /\ NotReduced
  <1>1. LedgerOK' /\ NotReduced
    BY DEF CloseLedger, StorageInv, LedgerOK, EntryOK, NotReduced
  <1>. QED  BY <1>1, NetworkLemma DEF CloseLedger

\* An entry that is restored was past its life, so its new life is longer.
LEMMA RestoreStep ==
    ASSUME StorageInv, NEW k, Restore(k)
    PROVE  StorageInv' /\ NotReduced
  <1>. DEFINE l == get_min_live_until_ledger("persistent")
  <1>1. l \in Nat /\ l >= seq /\ seq \in Nat
    BY MinLiveLemma, StorageAssumption DEF StorageInv, LedgerOK
  <1>2. k \in DOMAIN ledger /\ ledger' = [ledger EXCEPT ![k].live = l] /\ UNCHANGED seq
    BY DEF Restore
  <1>3. EntryOK(ledger[k]) /\ ~(ledger[k].live >= seq)
    BY DEF Restore, Live, StorageInv, LedgerOK
  <1>. HIDE DEF l
  <1>4. LedgerOK' /\ NotReduced
    BY <1>1, <1>2, <1>3 DEF StorageInv, LedgerOK, EntryOK, NotReduced
  <1>. QED  BY <1>4, NetworkLemma DEF Restore

(***************************************************************************)
(* The theorems.                                                           *)
(***************************************************************************)

LEMMA StorageInit == Init => StorageInv
  <1>. SUFFICES ASSUME Init PROVE StorageInv
    OBVIOUS
  <1>0. \A k \in DOMAIN ledger : \E v : ledger[k] = [val |-> v, live |-> MinPersistentTtl]
    BY Zenon DEF Init
  <1>a. MinPersistentTtl \in Nat /\ seq = 1
    BY StorageAssumption DEF Init
  <1>1. LedgerOK
    BY <1>0, <1>a DEF LedgerOK, EntryOK
  <1>2. StoreOK(storage) /\ Complete(storage.map)
    BY DEF Init, StoreOK, MapOK, Complete
  <1>3. StackOK
    BY DEF Init, StackOK, IsSequence
  <1>. QED  BY <1>1, <1>2, <1>3 DEF Init, StorageInv, RecordedFootprintSuffices

LEMMA StorageStep == StorageInv /\ [Next]_vars => StorageInv' /\ NotReduced
  <1>. SUFFICES ASSUME StorageInv, [Next]_vars  PROVE StorageInv' /\ NotReduced
    OBVIOUS
  <1>0. ASSUME UNCHANGED ledger  PROVE NotReduced
    BY <1>0, SameLedger DEF StorageInv
  <1>1. CASE UNCHANGED vars
    BY <1>0, <1>1 DEF vars, StorageInv, LedgerOK, StoreOK, MapOK, EntryOK, EntriesOK, Complete, StackOK, IsSequence,
                      FrameOK, RecordedFootprintSuffices
  <1>2. CASE \/ \E fp \in Footprints, c \in Contracts : "enforcing" \in Modes /\ Invoke("enforcing", fp, c)
             \/ \E c \in Contracts : "recording" \in Modes /\ Invoke("recording", <<>>, c)
    BY <1>0, <1>2, InvokeStep
  <1>3. CASE \/ \E k \in DataKeys, v \in Values, d \in LedgerDurabilities : Running /\ PutContractData(k, v, d)
             \/ \E k \in DataKeys, d \in LedgerDurabilities : Running /\ GetContractData(k, d)
             \/ \E k \in DataKeys, d \in LedgerDurabilities : Running /\ DelContractData(k, d)
             \/ \E k \in DataKeys, d \in LedgerDurabilities, t \in ExtendTo :
                    Running /\ ExtendContractDataTtl(k, d, t)
    BY <1>0, <1>3, DataStep, Zenon
  <1>4. CASE \E t \in ExtendTo : Running /\ ExtendInstanceAndCodeTtl(t)
    BY <1>0, <1>4, ExtendInstanceStep, Zenon
  <1>5. CASE \/ \E k \in DataKeys, v \in Values : Running /\ PutInstanceData(k, v)
             \/ \E k \in DataKeys : Running /\ DelInstanceData(k)
    BY <1>0, <1>5, InstanceStep, Zenon
  <1>6. CASE \E h \in Hashes : Running /\ UploadContractWasm(h)
    BY <1>0, <1>6, UploadStep, Zenon
  <1>7. CASE \E c \in Contracts, h \in Hashes : Running /\ CreateContract(c, h)
    BY <1>0, <1>7, CreateStep, Zenon
  <1>8. CASE \E h \in Hashes : Running /\ UpdateCurrentContractWasm(h)
    BY <1>0, <1>8, UpdateStep, Zenon
  <1>9. CASE \E v \in Values : Running /\ ContractEvent(v)
    BY <1>0, <1>9, EventStep, Zenon
  <1>10. CASE \E c \in Contracts, kind \in {"call", "try", "self"} : Running /\ Call(c, kind)
    BY <1>0, <1>10, CallStep, Zenon
  <1>11. CASE Fail \/ Return \/ Unwind
    BY <1>0, <1>11, FailStep, ReturnStep, UnwindStep, Zenon
  <1>12. CASE Commit
    BY <1>12, CommitStep
  <1>13. CASE CloseLedger
    BY <1>13, CloseStep
  <1>14. CASE \E k \in AllKeys : Restore(k)
    BY <1>14, RestoreStep
  <1>. QED  BY <1>1, <1>2, <1>3, <1>4, <1>5, <1>6, <1>7, <1>8, <1>9, <1>10, <1>11, <1>12, <1>13, <1>14, Zenon
            DEF Next

\* Storage, its footprint and every rollback point hold together in all reachable
\* states, of every instance.
THEOREM StorageInvariant == Spec => []StorageInv
  BY StorageInit, StorageStep, PTL DEF Spec

\* The footprint that a simulation records allows every access that was made, those
\* of frames that were rolled back too.
THEOREM FootprintCorrect == Spec => []RecordedFootprintSuffices
  <1>1. StorageInv => RecordedFootprintSuffices
    BY DEF StorageInv
  <1>. QED  BY <1>1, StorageInvariant, PTL

\* No transaction and no step of the network shortens the life of an entry that
\* stays on the ledger.
THEOREM LivesNeverShrink == Spec => LifeNeverReduced
  <1>1. StorageInv /\ [Next]_vars =>
            [\A k \in DOMAIN ledger \cap DOMAIN ledger' : ledger'[k].live >= ledger[k].live]_vars
    BY StorageStep DEF NotReduced
  <1>. QED  BY <1>1, StorageInvariant, PTL DEF Spec, LifeNeverReduced

(***************************************************************************)
(* Events.                                                                 *)
(***************************************************************************)

LEMMA ShownLemma ==
    ASSUME NEW s, NEW t, NEW n, \A i \in 1..n : s[i].failed = t[i].failed /\ s[i].topic = t[i].topic
    PROVE  Shown(s, n) = Shown(t, n)
  BY DEF Shown

LEMMA StackLength ==
    ASSUME StorageInv
    PROVE  Len(stack) \in Nat /\ IsSequence(stack)
  BY IsSequenceLemma DEF StorageInv, StackOK, IsSequence

\* A step that emits nothing: frames are kept, changed in their instance storage,
\* popped, or pushed with the events there are.
LEMMA SilentLemma ==
    ASSUME EventsInv, Len(stack) \in Nat, Len(stack) > 0,
           UNCHANGED events, effects'.events = effects.events, Len(stack') \in Nat,
           \A i \in 2..Len(stack') :
               \/ /\ i \in 2..Len(stack)
                  /\ stack'[i].events = stack[i].events /\ stack'[i].effects = stack[i].effects
               \/ /\ i = Len(stack') /\ i > Len(stack)
                  /\ stack'[i].events = Len(events) /\ stack'[i].effects.events = effects.events
    PROVE  EventsInv'
  <1>1. Len(events) \in Nat
    BY IsSequenceLemma DEF EventsInv, IsSequence
  <1>2. events' = events
    OBVIOUS
  <1>3. IsSequence(events)' /\ (\A i \in 1..Len(events) : IsEvent(events[i]))'
    BY DEF EventsInv, IsSequence, IsEvent
  <1>4. effects'.events = Shown(events', Len(events'))
    BY <1>2 DEF EventsInv
  <1>5. ASSUME NEW i \in 2..Len(stack')
        PROVE  /\ stack'[i].events \in 0..Len(events')
               /\ stack'[i].effects.events = Shown(events', stack'[i].events)
               /\ \A j \in 2..i : stack'[j].events <= stack'[i].events
    <2>1. CASE /\ i \in 2..Len(stack)
               /\ stack'[i].events = stack[i].events /\ stack'[i].effects = stack[i].effects
      <3>1. \A j \in 2..i : j \in 2..Len(stack') /\ j \in 2..Len(stack)
        BY <1>5, <2>1
      <3>2. \A j \in 2..i : stack'[j].events = stack[j].events
        BY <3>1
      <3>. QED  BY <1>2, <2>1, <3>2 DEF EventsInv
    <2>2. CASE /\ i = Len(stack') /\ i > Len(stack)
               /\ stack'[i].events = Len(events) /\ stack'[i].effects.events = effects.events
      <3>1. \A j \in 2..i : stack'[j].events \in 0..Len(events)
        <4>. SUFFICES ASSUME NEW j \in 2..i  PROVE stack'[j].events \in 0..Len(events)
          OBVIOUS
        <4>1. j \in 2..Len(stack')
          BY <1>5
        <4>. QED  BY <1>1, <4>1 DEF EventsInv
      <3>. QED  BY <1>1, <1>2, <2>2, <3>1 DEF EventsInv
    <2>. QED  BY <2>1, <2>2
  <1>. QED  BY <1>3, <1>4, <1>5 DEF EventsInv

LEMMA EmitLemma ==
    ASSUME EventsInv, Len(stack) \in Nat, Len(stack) > 0, UNCHANGED stack, NEW vals, NEW topics,
           Emit(topics), Affect(vals, topics), topics = {} \/ \E t : topics = {t}
    PROVE  EventsInv'
  <1>1. CASE topics = {}
    <2>1. UNCHANGED events /\ effects'.events = effects.events
      BY <1>1 DEF Emit, Affect
    <2>. QED  BY <2>1, SilentLemma
  <1>2. ASSUME NEW t, topics = {t}  PROVE EventsInv'
    <2>. DEFINE e == [topic |-> t, failed |-> FALSE]
                u == Append(events, e)
                n == Len(events)
    <2>1. events' = u /\ effects'.events = effects.events \cup {<<n + 1, t>>}
      BY <1>2 DEF Emit, Affect
    <2>2. IsSequence(events) /\ n \in Nat
      BY IsSequenceLemma DEF EventsInv, IsSequence
    <2>3. IsSequence(u) /\ Len(u) = n + 1 /\ u[n + 1] = e /\ \A i \in 1..n : u[i] = events[i]
      <3>1. IsSequence(u) /\ Len(u) = n + 1
        BY <2>2, PushLemma, Zenon
      <3>2. events \in Seq(Range(events) \cup {e})
        BY <2>2 DEF IsSequence
      <3>3. \A i \in 1..n + 1 : u[i] = IF i = n + 1 THEN e ELSE events[i]
        BY <3>2
      <3>4. u[n + 1] = e /\ \A i \in 1..n : u[i] = events[i]
        BY <2>2, <3>3
      <3>. QED  BY <3>1, <3>4
    <2>. HIDE DEF u, n
    <2>4. e.failed = FALSE /\ e.topic = t /\ IsEvent(e)
      BY DEF IsEvent
    <2>. HIDE DEF e
    <2>5. \A m \in 0..n : Shown(events', m) = Shown(events, m)
      <3>. SUFFICES ASSUME NEW m \in 0..n  PROVE Shown(events', m) = Shown(events, m)
        OBVIOUS
      <3>1. \A i \in 1..m : events'[i] = events[i]
        BY <2>1, <2>2, <2>3
      <3>. QED  BY <3>1, ShownLemma
    <2>6. Shown(events', n + 1) = Shown(events', n) \cup {<<n + 1, t>>}
      <3>1. 1..n + 1 = (1..n) \cup {n + 1} /\ events'[n + 1].failed = FALSE /\ events'[n + 1].topic = t
        BY <2>1, <2>2, <2>3, <2>4
      <3>. QED  BY <3>1 DEF Shown
    <2>7. effects'.events = Shown(events', Len(events'))
      BY <2>1, <2>2, <2>3, <2>5, <2>6 DEF EventsInv, n
    <2>8. \A i \in 1..n + 1 : IsEvent(u[i])
      <3>1. \A i \in 1..n + 1 : i \in 1..n \/ i = n + 1
        BY <2>2
      <3>. QED  BY <2>3, <2>4, <3>1 DEF EventsInv, n
    <2>9. \A i \in 2..Len(stack) :
              /\ stack[i].events \in 0..n + 1
              /\ stack[i].effects.events = Shown(events', stack[i].events)
              /\ \A j \in 2..i : stack[j].events <= stack[i].events
      BY <2>2, <2>5 DEF EventsInv, n
    <2>. QED  BY <2>1, <2>3, <2>7, <2>8, <2>9 DEF EventsInv, IsSequence, IsEvent
  <1>. QED  BY <1>1, <1>2

LEMMA UsingEvents ==
    ASSUME StorageInv, EventsInv, Running, NEW ro, NEW rw, NEW ok, NEW st, NEW vals, NEW topics,
           Using(ro, rw, ok, st, vals, topics), topics = {} \/ \E t : topics = {t}
    PROVE  EventsInv'
  <1>1. Len(stack) \in Nat /\ Len(stack) > 0 /\ UNCHANGED stack
    BY RunningLemma DEF Using, Raise, Quiet
  <1>2. UNCHANGED <<events, effects>> \/ (Emit(topics) /\ Affect(vals, topics))
    BY DEF Using, Raise
  <1>3. CASE UNCHANGED <<events, effects>>
    BY <1>1, <1>3, SilentLemma
  <1>4. CASE Emit(topics) /\ Affect(vals, topics)
    BY <1>1, <1>4, EmitLemma
  <1>. QED  BY <1>2, <1>3, <1>4

LEMMA FailedLemma ==
    ASSUME NEW x, IsEvent(x)
    PROVE  IsEvent([x EXCEPT !.failed = TRUE]) /\ [x EXCEPT !.failed = TRUE].failed
  <1>1. PICK t, b : x = [topic |-> t, failed |-> b]
    BY Zenon DEF IsEvent
  <1>. DEFINE y == [x EXCEPT !.failed = TRUE]
              z == [topic |-> t, failed |-> TRUE]
  <1>a. DOMAIN x = {"topic", "failed"} /\ DOMAIN z = {"topic", "failed"}
        /\ z.topic = t /\ z.failed = TRUE /\ x.topic = t
    BY <1>1
  <1>b. /\ y = [i \in DOMAIN x |-> IF i = "failed" THEN TRUE ELSE x[i]]
        /\ z = [i \in DOMAIN z |-> z[i]]
    OBVIOUS
  <1>. HIDE DEF z
  <1>c. \A i \in {"topic", "failed"} : y[i] = z[i]
    BY <1>a
  <1>2. y = z
    BY <1>a, <1>b, <1>c
  <1>3. IsEvent([topic |-> t, failed |-> TRUE]) /\ [topic |-> t, failed |-> TRUE].failed
    BY DEF IsEvent
  <1>. QED  BY <1>2, <1>3, Zenon DEF z

\* What a frame emitted is marked when it is rolled back, and only that.
LEMMA RollbackEvents ==
    ASSUME StorageInv, EventsInv, Unwind
    PROVE  EventsInv'
  <1>1. Len(stack) \in Nat /\ Len(stack) > 0 /\ IsSequence(stack)
    BY StackLength DEF Unwind, StorageInv, StackOK
  <1>2. CASE Len(stack) = 1
    <2>1. events' = <<>> /\ stack' = <<>>
      BY <1>2 DEF Unwind, Reset
    <2>. QED  BY <2>1 DEF EventsInv, IsSequence
  <1>3. CASE Len(stack) # 1
    <2>. DEFINE n == Len(stack)
                f == stack[n]
                l == Len(events)
                e == [i \in 1..l |-> IF i > f.events THEN [events[i] EXCEPT !.failed = TRUE] ELSE events[i]]
                u == Front(stack)
    <2>1. IsSequence(events) /\ l \in Nat /\ DOMAIN events = 1..l
      BY IsSequenceLemma DEF EventsInv, IsSequence
    <2>2. events' = e /\ effects' = f.effects /\ stack' = u
      BY <1>3, <2>1 DEF Unwind, RolledBackEvents, Top, Last
    <2>3. IsSequence(u) /\ Len(u) = n - 1 /\ \A i \in 1..n - 1 : i \in 1..n /\ u[i] = stack[i]
      BY <1>1, PopLemma, Zenon
    <2>a. \A x \in Nat : x > 0 /\ x # 1 => x > 1 /\ x \in 2..x
      OBVIOUS
    <2>4. n \in Nat /\ n > 1 /\ n \in 2..n
      BY <1>1, <1>3, <2>a, Zenon
    <2>5. /\ f.events \in 0..l /\ f.effects.events = Shown(events, f.events)
          /\ \A j \in 2..n : stack[j].events <= f.events
      BY <2>4 DEF EventsInv
    <2>6. /\ IsSequence(e) /\ Len(e) = l
          /\ \A i \in 1..l : e[i] = IF i > f.events THEN [events[i] EXCEPT !.failed = TRUE] ELSE events[i]
      <3>1. DOMAIN e = 1..l /\ e = [i \in 1..l |-> e[i]]
        OBVIOUS
      <3>2. \A i \in 1..l :
                e[i] = IF i > f.events THEN [events[i] EXCEPT !.failed = TRUE] ELSE events[i]
        OBVIOUS
      <3>. HIDE DEF e, l, f
      <3>3. IsSequence(e) /\ Len(e) = l
        BY <2>1, <3>1, FunctionLemma
      <3>. QED  BY <3>2, <3>3
    <2>. HIDE DEF e, u, n, f, l
    <2>7. \A i \in 1..l : IsEvent(events[i])
      BY DEF EventsInv, l
    <2>8. \A i \in 1..l : IsEvent(e[i]) /\ (i > f.events => e[i].failed)
                          /\ (i <= f.events => e[i] = events[i])
      <3>. SUFFICES ASSUME NEW i \in 1..l
                    PROVE  IsEvent(e[i]) /\ (i > f.events => e[i].failed)
                           /\ (i <= f.events => e[i] = events[i])
        OBVIOUS
      <3>1. IsEvent(events[i])
        BY <2>7
      <3>2. CASE i > f.events
        <4>1. e[i] = [events[i] EXCEPT !.failed = TRUE] /\ ~(i <= f.events)
          BY <2>1, <2>5, <2>6, <3>2
        <4>2. IsEvent(e[i]) /\ e[i].failed
          BY <3>1, <4>1, FailedLemma, Zenon
        <4>. QED  BY <4>1, <4>2
      <3>3. CASE ~(i > f.events)
        BY <2>6, <3>1, <3>3
      <3>. QED  BY <3>2, <3>3
    <2>9. \A m \in 0..l : m <= f.events => Shown(e, m) = Shown(events, m)
      BY <2>1, <2>5, <2>8 DEF Shown
    <2>10. Shown(e, l) = Shown(events, f.events)
      <3>1. Shown(e, l) = Shown(e, f.events)
        BY <2>1, <2>5, <2>8 DEF Shown
      <3>. QED  BY <2>1, <2>5, <2>9, <3>1
    <2>11. ASSUME NEW i \in 2..n - 1
           PROVE  /\ u[i].events \in 0..l /\ u[i].effects.events = Shown(e, u[i].events)
                  /\ \A j \in 2..i : u[j].events <= u[i].events
      <3>1. i \in 2..Len(stack) /\ u[i] = stack[i] /\ i \in 2..n
        BY <2>3, <2>4 DEF n
      <3>2. \A j \in 2..i : u[j] = stack[j]
        BY <2>3, <2>4
      <3>3. stack[i].events \in 0..l /\ stack[i].effects.events = Shown(events, stack[i].events)
            /\ \A j \in 2..i : stack[j].events <= stack[i].events
        BY <3>1 DEF EventsInv, l
      <3>. QED  BY <2>5, <2>9, <3>1, <3>2, <3>3
    <2>. QED  BY <2>2, <2>3, <2>5, <2>6, <2>8, <2>10, <2>11 DEF EventsInv
  <1>. QED  BY <1>1, <1>2, <1>3

LEMMA InvokeEvents ==
    ASSUME StorageInv, EventsInv, NEW m, NEW fp, NEW c, Invoke(m, fp, c)
    PROVE  EventsInv'
  <1>1. PICK h, g : stack' = <<h, g>> /\ g.events = 0 /\ g.effects = FirstEffects
    <2>. DEFINE st == IF m = "enforcing" THEN EnforcingStorage(fp) ELSE RecordingStorage(c)
                g == [contract |-> c, kind |-> "call", instance |-> ledger[InstKey(c)].val,
                      cache |-> {}, modified |-> FALSE, map |-> st.map, events |-> 0, effects |-> FirstEffects]
    <2>1. stack' = <<HostFunctionFrame(st), g>>
      BY Zenon DEF Invoke
    <2>2. g.events = 0 /\ g.effects = FirstEffects
      OBVIOUS
    <2>. HIDE DEF st, g
    <2>. QED  BY <2>1, <2>2, Zenon
  <1>2. events' = <<>> /\ effects' = FirstEffects /\ FirstEffects.events = {}
    BY DEF Invoke, FirstEffects
  <1>3. Shown(<<>>, 0) = {} /\ Len(<<>>) = 0 /\ IsSequence(<<>>)
    BY DEF Shown, IsSequence
  <1>4. Len(stack') = 2 /\ stack'[2] = g /\ \A i \in 2..2 : i = 2 /\ \A j \in 2..i : j = 2
    BY <1>1
  <1>. HIDE DEF FirstEffects
  <1>5. IsSequence(events') /\ Len(events') = 0
    BY <1>2, <1>3, Zenon
  <1>6. effects'.events = Shown(events', Len(events'))
    BY <1>2, <1>3
  <1>7. ASSUME NEW i \in 2..Len(stack')
        PROVE  /\ stack'[i].events = 0 /\ stack'[i].effects.events = {}
               /\ \A j \in 2..i : stack'[j].events = 0
    BY <1>1, <1>2, <1>4
  <1>8. \A i \in 2..Len(stack') :
            /\ stack'[i].events \in 0..Len(events')
            /\ stack'[i].effects.events = Shown(events', stack'[i].events)
            /\ \A j \in 2..i : stack'[j].events <= stack'[i].events
    <2>. SUFFICES ASSUME NEW i \in 2..Len(stack')
                  PROVE  /\ stack'[i].events \in 0..Len(events')
                         /\ stack'[i].effects.events = Shown(events', stack'[i].events)
                         /\ \A j \in 2..i : stack'[j].events <= stack'[i].events
      OBVIOUS
    <2>1. stack'[i].effects.events = Shown(events', stack'[i].events)
      BY <1>2, <1>3, <1>7, Zenon
    <2>2. stack'[i].events \in 0..Len(events') /\ \A j \in 2..i : stack'[j].events <= stack'[i].events
      BY <1>5, <1>7
    <2>. QED  BY <2>1, <2>2
  <1>. QED  BY <1>5, <1>6, <1>8 DEF EventsInv

(***************************************************************************)
(* What storage's operations leave of the values.                          *)
(***************************************************************************)

\* From map a to map b the values of k become vs, and no others change.
Writes(a, b, k, vs) ==
    \A x : Held(ledger, b, x) = IF x = k THEN vs ELSE Held(ledger, a, x)

SameVals(a, b) == \A x : Held(ledger, b, x) = Held(ledger, a, x)

\* The same of what the frames wrote.
Becomes(vals, new, k, vs) ==
    /\ ValAt(new, k) = vs
    /\ \A x : x # k => /\ x \in DOMAIN new <=> x \in DOMAIN vals
                       /\ x \in DOMAIN vals => new[x] = vals[x]

NoFrame(s, n, k) == \A i \in 2..n : FrameKey(s[i]) # k

Instances(k, vs) == \A c \in Contracts : k = InstKey(c) => \A v \in vs : IsInst(v)

\* Looking reads through to the ledger.
LEMMA ReadHeld ==
    ASSUME NEW st, Ready(st), NEW keys
    PROVE  SameVals(st.map, ReadAll(st, keys).map)
  <1>. SUFFICES ASSUME NEW x
                PROVE  Held(ledger, ReadAll(st, keys).map, x) = Held(ledger, st.map, x)
    BY DEF SameVals
  <1>1. CASE mode = "enforcing"
    BY <1>1 DEF ReadAll
  <1>2. CASE mode # "enforcing"
    <2>. DEFINE m == [k \in DOMAIN st.map \cup keys |-> IF k \in DOMAIN st.map THEN st.map[k] ELSE Snapshot(k)]
    <2>1. ReadAll(st, keys).map = m
      BY <1>2 DEF ReadAll
    <2>2. /\ DOMAIN m = DOMAIN st.map \cup keys
          /\ \A k \in DOMAIN m : m[k] = IF k \in DOMAIN st.map THEN st.map[k]
                                        ELSE IF k \in DOMAIN ledger THEN {ledger[k]} ELSE {}
      BY DEF Snapshot
    <2>. HIDE DEF m
    <2>3. (IF x \in DOMAIN m THEN m[x] ELSE IF x \in DOMAIN ledger THEN {ledger[x]} ELSE {})
            = IF x \in DOMAIN st.map THEN st.map[x] ELSE IF x \in DOMAIN ledger THEN {ledger[x]} ELSE {}
      BY <2>2
    <2>. QED  BY <2>1, <2>3, Zenon DEF Held
  <1>. QED  BY <1>1, <1>2

LEMMA PutOptHeld ==
    ASSUME NEW st, NEW k, NEW es
    PROVE  Writes(st.map, put_opt(st, k, es).map, k, Vals(es))
  <1>. SUFFICES ASSUME NEW x
                PROVE  Held(ledger, put_opt(st, k, es).map, x) =
                           IF x = k THEN Vals(es) ELSE Held(ledger, st.map, x)
    BY DEF Writes
  <1>. DEFINE m == [y \in DOMAIN st.map \cup {k} |-> IF y = k THEN es ELSE st.map[y]]
  <1>1. put_opt(st, k, es).map = m
    BY DEF put_opt, With
  <1>2. DOMAIN m = DOMAIN st.map \cup {k} /\ \A y \in DOMAIN m : m[y] = IF y = k THEN es ELSE st.map[y]
    OBVIOUS
  <1>. HIDE DEF m
  <1>3. CASE x = k
    BY <1>1, <1>2, <1>3 DEF Held
  <1>4. CASE x # k
    <2>1. (IF x \in DOMAIN m THEN m[x] ELSE IF x \in DOMAIN ledger THEN {ledger[x]} ELSE {})
            = IF x \in DOMAIN st.map THEN st.map[x] ELSE IF x \in DOMAIN ledger THEN {ledger[x]} ELSE {}
      BY <1>2, <1>4
    <2>. QED  BY <1>1, <1>4, <2>1, Zenon DEF Held
  <1>. QED  BY <1>3, <1>4

LEMMA PutValueHeld ==
    ASSUME NEW st, Ready(st), NEW k, NEW v
    PROVE  Writes(st.map, PutValue(st, k, v).map, k, {v})
  <1>. DEFINE r == prepare_read_only_access(st, k)
              live == IF r.map[k] # {} THEN (CHOOSE e \in r.map[k] : TRUE).live
                      ELSE get_min_live_until_ledger(get_key_durability(k))
              es == {[val |-> v, live |-> live]}
  <1>1. PutValue(st, k, v) = put_opt(r, k, es)
    BY DEF PutValue
  <1>2. SameVals(st.map, r.map)
    BY ReadHeld DEF prepare_read_only_access
  <1>. HIDE DEF r, live
  <1>3. Vals(es) = {v}
    BY DEF Vals
  <1>. HIDE DEF es
  <1>4. Writes(r.map, put_opt(r, k, es).map, k, Vals(es))
    BY PutOptHeld
  <1>. QED  BY <1>1, <1>2, <1>3, <1>4 DEF SameVals, Writes

\* What the host reads of a key is what storage holds.
LEMMA PeekHeld ==
    ASSUME NEW st, Ready(st), NEW k, Known(st, k) \/ Peek(st, k) # {}
    PROVE  Vals(Peek(st, k)) = Held(ledger, st.map, k) /\ EntriesOK(Peek(st, k))
  <1>. DEFINE m == prepare_read_only_access(st, k).map
  <1>1. k \in DOMAIN m /\ m[k] = Peek(st, k)
    <2>1. CASE Known(st, k)
      <3>1. k \in DOMAIN m
        BY <2>1, ReadLemma DEF prepare_read_only_access
      <3>. QED  BY <3>1, Zenon DEF Peek
    <2>2. CASE Peek(st, k) # {}
      BY <2>2, PeekLemma
    <2>. QED  BY <2>1, <2>2
  <1>2. Held(ledger, m, k) = Held(ledger, st.map, k)
    BY ReadHeld DEF prepare_read_only_access, SameVals
  <1>3. Good(st, prepare_read_only_access(st, k), {k}, {})
    BY ReadLemma DEF prepare_read_only_access
  <1>4. MapOK(m)
    BY <1>3, Zenon DEF Good, Ready, StoreOK
  <1>. HIDE DEF m
  <1>5. EntriesOK(Peek(st, k))
    BY <1>1, <1>4 DEF MapOK
  <1>. QED  BY <1>1, <1>2, <1>5 DEF Held

LEMMA InstanceHeld ==
    ASSUME NEW st, Ready(st), NEW c, Peek(st, InstKey(c)) # {}
    PROVE  Held(ledger, st.map, InstKey(c)) = {Instance(st, c)}
  <1>. DEFINE es == Peek(st, InstKey(c))
  <1>1. Vals(es) = Held(ledger, st.map, InstKey(c)) /\ EntriesOK(es)
    BY PeekHeld
  <1>2. Instance(st, c) = (CHOOSE e \in es : TRUE).val
    BY DEF Instance
  <1>. HIDE DEF es
  <1>3. PICK e : es = {e}
    BY <1>1 DEF EntriesOK, es
  <1>4. (CHOOSE y \in es : TRUE) = e /\ Vals(es) = {e.val}
    BY <1>3 DEF Vals
  <1>. QED  BY <1>1, <1>2, <1>4

\* An extension changes lives only.
LEMMA ExtendHeld ==
    ASSUME NEW st, Ready(st), NEW k, NEW t \in ExtendTo, CanExtend(st, k, t[1], t[2])
    PROVE  SameVals(st.map, extend_ttl(st, k, t[1], t[2]).map)
  <1>. DEFINE r == prepare_read_only_access(st, k)
              e == CHOOSE y \in r.map[k] : TRUE
              new == IF seq + t[2] > max_live_until_ledger THEN max_live_until_ledger ELSE seq + t[2]
              n == [r EXCEPT !.map[k] = {[e EXCEPT !.live = new]}]
  <1>1. Good(st, r, {k}, {}) /\ k \in DOMAIN r.map /\ r.map[k] # {}
    BY ReadLemma, PeekLemma DEF prepare_read_only_access, CanExtend
  <1>2. extend_ttl(st, k, t[1], t[2]) \in {n, r}
    BY DEF extend_ttl
  <1>3. SameVals(st.map, r.map)
    BY ReadHeld DEF prepare_read_only_access
  <1>. HIDE DEF r, new
  <1>4. EntryOK(e) /\ r.map[k] = {e}
    <2>1. e \in r.map[k]
      BY <1>1
    <2>. QED  BY <1>1, <2>1 DEF Good, Ready, StoreOK, MapOK, EntriesOK
  <1>. HIDE DEF e
  <1>5. n.map = [r.map EXCEPT ![k] = {[e EXCEPT !.live = new]}]
    BY <1>1 DEF Good, Ready, StoreOK
  <1>. DEFINE f == [e EXCEPT !.live = new]
  <1>6. f.val = e.val
    BY <1>4, LiveLemma
  <1>. HIDE DEF f, n
  <1>7. DOMAIN n.map = DOMAIN r.map /\ \A y \in DOMAIN r.map : n.map[y] = IF y = k THEN {f} ELSE r.map[y]
    BY <1>1, <1>5 DEF f
  <1>8. SameVals(r.map, n.map)
    <2>. SUFFICES ASSUME NEW x  PROVE Held(ledger, n.map, x) = Held(ledger, r.map, x)
      BY DEF SameVals
    <2>1. CASE x = k
      <3>1. Held(ledger, n.map, x) = Vals({f}) /\ Held(ledger, r.map, x) = Vals({e})
        BY <1>1, <1>4, <1>7, <2>1 DEF Held
      <3>2. Vals({f}) = Vals({e})
        BY <1>6 DEF Vals
      <3>. QED  BY <3>1, <3>2
    <2>2. CASE x # k
      <3>1. (IF x \in DOMAIN n.map THEN n.map[x] ELSE IF x \in DOMAIN ledger THEN {ledger[x]} ELSE {})
              = IF x \in DOMAIN r.map THEN r.map[x] ELSE IF x \in DOMAIN ledger THEN {ledger[x]} ELSE {}
        BY <1>7, <2>2
      <3>. QED  BY <3>1, Zenon DEF Held
    <2>. QED  BY <2>1, <2>2
  <1>. QED  BY <1>2, <1>3, <1>8 DEF SameVals

(***************************************************************************)
(* Values, as storage holds them and as the frames wrote them.             *)
(***************************************************************************)

LEMMA KeyLemma ==
    ASSUME NEW c, NEW d, NEW k, NEW h, NEW dur
    PROVE  /\ InstKey(c) = InstKey(d) => c = d
           /\ InstKey(c) # CodeKey(h) /\ InstKey(c) # DataKey(d, k, dur)
           /\ c \in Contracts => InstKey(c) \in AllKeys
  BY DEF InstKey, CodeKey, DataKey, AllKeys

LEMMA ExecLemma ==
    ASSUME NEW v, IsInst(v), NEW h
    PROVE  [v EXCEPT !.exec = h] = [exec |-> h, store |-> v.store]
  <1>. DEFINE y == [v EXCEPT !.exec = h]
              z == [exec |-> h, store |-> v.store]
  <1>1. DOMAIN v = {"exec", "store"}
    BY DEF IsInst
  <1>2. DOMAIN z = {"exec", "store"} /\ z.store = v.store /\ z.exec = h
    OBVIOUS
  <1>3. /\ y = [i \in DOMAIN v |-> IF i = "exec" THEN h ELSE v[i]]
        /\ z = [i \in DOMAIN z |-> z[i]]
    OBVIOUS
  <1>. HIDE DEF z
  <1>4. \A i \in {"exec", "store"} : y[i] = z[i]
    BY <1>1, <1>2
  <1>5. y = z
    BY <1>1, <1>2, <1>3, <1>4
  <1>. QED  BY <1>5 DEF z

LEMMA StoreLemma ==
    ASSUME NEW v, IsInst(v), NEW s
    PROVE  [v EXCEPT !.store = s] = [exec |-> v.exec, store |-> s]
  <1>. DEFINE y == [v EXCEPT !.store = s]
              z == [exec |-> v.exec, store |-> s]
  <1>1. DOMAIN v = {"exec", "store"}
    BY DEF IsInst
  <1>2. DOMAIN z = {"exec", "store"} /\ z.store = s /\ z.exec = v.exec
    OBVIOUS
  <1>3. /\ y = [i \in DOMAIN v |-> IF i = "store" THEN s ELSE v[i]]
        /\ z = [i \in DOMAIN z |-> z[i]]
    OBVIOUS
  <1>. HIDE DEF z
  <1>4. \A i \in {"exec", "store"} : y[i] = z[i]
    BY <1>1, <1>2
  <1>5. y = z
    BY <1>1, <1>2, <1>3, <1>4
  <1>. QED  BY <1>5 DEF z

LEMMA WithLemma ==
    ASSUME NEW m, NEW k, NEW v
    PROVE  /\ k \in DOMAIN With(m, k, v) /\ With(m, k, v)[k] = v /\ ValAt(With(m, k, v), k) = {v}
           /\ \A x : x # k => /\ x \in DOMAIN With(m, k, v) <=> x \in DOMAIN m
                              /\ x \in DOMAIN m => With(m, k, v)[x] = m[x]
  <1>. DEFINE w == [x \in DOMAIN m \cup {k} |-> IF x = k THEN v ELSE m[x]]
  <1>1. DOMAIN w = DOMAIN m \cup {k} /\ \A x \in DOMAIN w : w[x] = IF x = k THEN v ELSE m[x]
    OBVIOUS
  <1>2. With(m, k, v) = w
    BY DEF With
  <1>. HIDE DEF w
  <1>3. ValAt(w, k) = {w[k]}
    BY <1>1 DEF ValAt
  <1>. QED  BY <1>1, <1>2, <1>3

LEMMA WithoutLemma ==
    ASSUME NEW m, NEW k
    PROVE  /\ ValAt(Without(m, k), k) = {}
           /\ \A x : x # k => /\ x \in DOMAIN Without(m, k) <=> x \in DOMAIN m
                              /\ x \in DOMAIN m => Without(m, k)[x] = m[x]
  BY DEF Without, ValAt

LEMMA ValAtLemma ==
    ASSUME NEW a, NEW b, NEW x, x \in DOMAIN b <=> x \in DOMAIN a, x \in DOMAIN a => b[x] = a[x]
    PROVE  ValAt(b, x) = ValAt(a, x)
  BY DEF ValAt

\* A map that holds the same values is as good.
LEMMA SameHeld ==
    ASSUME NEW s, NEW n, NEW a, NEW b, SameVals(a, b)
    PROVE  /\ Present(ledger, s, n, a) => Present(ledger, s, n, b)
           /\ \A vals : Fits(ledger, s, n, a, vals) => Fits(ledger, s, n, b, vals)
  <1>1. Present(ledger, s, n, a) => Present(ledger, s, n, b)
    BY DEF Present, SameVals
  <1>2. ASSUME NEW vals, Fits(ledger, s, n, a, vals)  PROVE Fits(ledger, s, n, b, vals)
    BY <1>2 DEF Fits, FrameFits, SameVals
  <1>. QED  BY <1>1, <1>2

\* A write to a key that is no frame's instance.
LEMMA PutHeld ==
    ASSUME NEW s, NEW n, NEW a, NEW b, NEW vals, NEW new, NEW k, NEW vs,
           NoFrame(s, n, k),
           Writes(a, b, k, vs), Becomes(vals, new, k, vs),
           Instances(k, vs)
    PROVE  /\ Present(ledger, s, n, a) => Present(ledger, s, n, b)
           /\ Fits(ledger, s, n, a, vals) => Fits(ledger, s, n, b, new)
  <1>1. ASSUME Present(ledger, s, n, a)  PROVE Present(ledger, s, n, b)
    BY <1>1 DEF Present, Writes, Instances, NoFrame
  <1>2. ASSUME Fits(ledger, s, n, a, vals)  PROVE Fits(ledger, s, n, b, new)
    <2>1. ASSUME NEW x \in AllKeys, \A i \in 2..n : s[i].modified => FrameKey(s[i]) # x
          PROVE  Held(ledger, b, x) = ValAt(new, x)
      <3>1. CASE x = k
        BY <3>1 DEF Writes, Becomes
      <3>2. CASE x # k
        <4>1. ValAt(new, x) = ValAt(vals, x)
          BY <3>2, ValAtLemma DEF Becomes
        <4>. QED  BY <1>2, <2>1, <3>2, <4>1 DEF Fits, Writes
      <3>. QED  BY <3>1, <3>2
    <2>2. ASSUME NEW i \in 2..n  PROVE FrameFits(ledger, s[i], b, new)
      <3>1. FrameKey(s[i]) # k /\ FrameFits(ledger, s[i], a, vals)
        BY <1>2, <2>2 DEF Fits, NoFrame
      <3>. QED  BY <3>1 DEF FrameFits, Writes, Becomes
    <2>. QED  BY <2>1, <2>2 DEF Fits
  <1>. QED  BY <1>1, <1>2

\* What a step must show that keeps the frames.
FitsAfter(m, vals) ==
    /\ Present(ledger, stack, Len(stack), m)
    /\ ~reentered => Fits(ledger, stack, Len(stack), m, vals)

LEMMA KeepStack ==
    ASSUME ValuesInv, UNCHANGED <<ledger, mode, stack, reentered>>,
           Len(stack) > 0 => FitsAfter(storage'.map, effects'.vals)
    PROVE  ValuesInv'
  <1>1. ledger' = ledger /\ mode' = mode /\ stack' = stack /\ reentered' = reentered
    OBVIOUS
  <1>2. PresentInv'
    BY <1>1 DEF ValuesInv, PresentInv, FitsAfter
  <1>3. FitsInv'
    BY <1>1 DEF ValuesInv, FitsInv, FitsAfter
  <1>. QED  BY <1>2, <1>3 DEF ValuesInv

LEMMA NowFits ==
    ASSUME ValuesInv, Len(stack) > 0
    PROVE  FitsAfter(storage.map, effects.vals)
  BY DEF ValuesInv, PresentInv, FitsInv, FitsAfter

\* Looking, or extending lives, changes nothing.
LEMMA LookFits ==
    ASSUME ValuesInv, Len(stack) > 0, NEW m, SameVals(storage.map, m)
    PROVE  FitsAfter(m, effects.vals)
  BY NowFits, SameHeld DEF FitsAfter

LEMMA PutFits ==
    ASSUME ValuesInv, Len(stack) > 0, NEW m, NEW new, NEW k, NEW vs,
           NoFrame(stack, Len(stack), k),
           Writes(storage.map, m, k, vs), Becomes(effects.vals, new, k, vs),
           Instances(k, vs)
    PROVE  FitsAfter(m, new)
  <1>1. /\ Present(ledger, stack, Len(stack), storage.map) => Present(ledger, stack, Len(stack), m)
        /\ Fits(ledger, stack, Len(stack), storage.map, effects.vals)
             => Fits(ledger, stack, Len(stack), m, new)
    BY PutHeld, Zenon
  <1>. QED  BY <1>1, NowFits DEF FitsAfter

LEMMA UsingValues ==
    ASSUME StorageInv, ValuesInv, Running, NEW ro, NEW rw, NEW ok, NEW st, NEW vals, NEW topics,
           Using(ro, rw, ok, st, vals, topics),
           /\ ok
           /\ \A k \in ro : MayAccess(k, "ro")
           /\ \A k \in rw : MayAccess(k, "rw")
           => FitsAfter(st.map, vals)
    PROVE  ValuesInv'
  <1>1. Ready(storage) /\ Len(stack) > 0 /\ UNCHANGED <<ledger, mode, stack, reentered>>
    BY RunningLemma DEF Using, Raise, Quiet
  <1>2. \/ storage' = storage /\ effects' = effects
        \/ storage' = ReadAll(storage, ro) /\ effects' = effects
        \/ storage' = st /\ effects'.vals = vals /\ FitsAfter(st.map, vals)
    BY DEF Using, Raise, Affect
  <1>3. CASE storage' = storage /\ effects' = effects
    BY <1>1, <1>3, NowFits, KeepStack
  <1>4. CASE storage' = ReadAll(storage, ro) /\ effects' = effects
    <2>1. SameVals(storage.map, storage'.map)
      BY <1>1, <1>4, ReadHeld
    <2>2. FitsAfter(storage'.map, effects'.vals)
      BY <1>1, <1>4, <2>1, LookFits
    <2>. QED  BY <1>1, <2>2, KeepStack
  <1>5. CASE storage' = st /\ effects'.vals = vals /\ FitsAfter(st.map, vals)
    BY <1>1, <1>5, KeepStack
  <1>. QED  BY <1>2, <1>3, <1>4, <1>5

\* A value written to, or removed from, a key that is no instance.
LEMMA WriteFits ==
    ASSUME StorageInv, ValuesInv, Running, NEW m, NEW k, NEW v, \A c : InstKey(c) # k
    PROVE  /\ Writes(storage.map, m, k, {v}) => FitsAfter(m, With(effects.vals, k, v))
           /\ Writes(storage.map, m, k, {}) => FitsAfter(m, Without(effects.vals, k))
  <1>1. Len(stack) > 0
    BY RunningLemma
  <1>2. NoFrame(stack, Len(stack), k)
    BY DEF FrameKey, NoFrame
  <1>3. Becomes(effects.vals, With(effects.vals, k, v), k, {v}) /\ Becomes(effects.vals, Without(effects.vals, k), k, {})
    BY WithLemma, WithoutLemma DEF Becomes
  <1>a. Instances(k, {}) /\ Instances(k, {v})
    BY DEF Instances
  <1>4. \A new, vs : Instances(k, vs) /\ Writes(storage.map, m, k, vs) /\ Becomes(effects.vals, new, k, vs) => FitsAfter(m, new)
    BY <1>1, <1>2, PutFits
  <1>. QED  BY <1>a, <1>3, <1>4

LEMMA DataValues ==
    ASSUME StorageInv, ValuesInv, Running, NEW k, NEW d,
           \/ \E v : PutContractData(k, v, d)
           \/ GetContractData(k, d)
           \/ DelContractData(k, d)
           \/ \E t \in ExtendTo : ExtendContractDataTtl(k, d, t)
    PROVE  ValuesInv'
  <1>. DEFINE key == DataKey(Me, k, d)
  <1>0. Ready(storage) /\ Len(stack) > 0 /\ \A c : InstKey(c) # key
    BY RunningLemma, KeyLemma
  <1>1. ASSUME NEW v, PutContractData(k, v, d)
        PROVE  ValuesInv'
    <2>1. Using({key}, {key}, TRUE, PutValue(storage, key, v), With(effects.vals, key, v), {})
      BY <1>1, Zenon DEF PutContractData
    <2>. HIDE DEF key
    <2>. DEFINE st == PutValue(storage, key, v)
    <2>2. Writes(storage.map, st.map, key, {v})
      BY <1>0, PutValueHeld
    <2>. HIDE DEF st
    <2>3. FitsAfter(st.map, With(effects.vals, key, v))
      BY <1>0, <2>2, WriteFits
    <2>. QED  BY <2>1, <2>3, UsingValues DEF st
  <1>2. CASE GetContractData(k, d)
    <2>1. Using({key}, {}, Peek(storage, key) # {}, prepare_read_only_access(storage, key), effects.vals, {})
      BY <1>2, Zenon DEF GetContractData
    <2>. HIDE DEF key
    <2>. DEFINE st == prepare_read_only_access(storage, key)
    <2>2. SameVals(storage.map, st.map)
      BY <1>0, ReadHeld DEF prepare_read_only_access
    <2>. HIDE DEF st
    <2>3. FitsAfter(st.map, effects.vals)
      BY <1>0, <2>2, LookFits
    <2>. QED  BY <2>1, <2>3, UsingValues DEF st
  <1>3. CASE DelContractData(k, d)
    <2>1. Using({}, {key}, TRUE, put_opt(storage, key, {}), Without(effects.vals, key), {})
      BY <1>3, Zenon DEF DelContractData
    <2>. HIDE DEF key
    <2>. DEFINE st == put_opt(storage, key, {})
    <2>2. Vals({}) = {}
      BY DEF Vals
    <2>3. Writes(storage.map, st.map, key, {})
      BY <2>2, PutOptHeld
    <2>. HIDE DEF st
    <2>4. FitsAfter(st.map, Without(effects.vals, key))
      BY <1>0, <2>3, WriteFits
    <2>. QED  BY <2>1, <2>4, UsingValues DEF st
  <1>4. ASSUME NEW t \in ExtendTo, ExtendContractDataTtl(k, d, t)
        PROVE  ValuesInv'
    <2>. DEFINE ok == CanExtend(storage, key, t[1], t[2])
    <2>1. Using({key}, {}, ok, extend_ttl(storage, key, t[1], t[2]), effects.vals, {})
      BY <1>4, Zenon DEF ExtendContractDataTtl
    <2>. HIDE DEF key
    <2>. DEFINE st == extend_ttl(storage, key, t[1], t[2])
    <2>2. ok => SameVals(storage.map, st.map)
      BY <1>0, ExtendHeld
    <2>. HIDE DEF st, ok
    <2>3. ok => FitsAfter(st.map, effects.vals)
      BY <1>0, <2>2, LookFits
    <2>. QED  BY <2>1, <2>3, UsingValues DEF st
  <1>. QED  BY <1>1, <1>2, <1>3, <1>4

LEMMA ExtendInstanceValues ==
    ASSUME StorageInv, ValuesInv, Running, NEW t \in ExtendTo, ExtendInstanceAndCodeTtl(t)
    PROVE  ValuesInv'
  <1>. DEFINE inst == InstKey(Me)
              one == extend_ttl(storage, inst, t[1], t[2])
              code == CodeKey(Instance(storage, Me).exec)
              ok == CanExtend(storage, inst, t[1], t[2]) /\ CanExtend(one, code, t[1], t[2])
              two == extend_ttl(one, code, t[1], t[2])
  <1>1. Using({inst, code}, {}, ok, two, effects.vals, {})
    BY Zenon DEF ExtendInstanceAndCodeTtl
  <1>. HIDE DEF inst, code
  <1>2. ASSUME ok  PROVE FitsAfter(two.map, effects.vals)
    <2>0. Ready(storage) /\ Len(stack) > 0
      BY RunningLemma
    <2>1. Good(storage, one, {inst}, {}) /\ SameVals(storage.map, one.map)
      BY <1>2, <2>0, ExtendTtlLemma, ExtendHeld
    <2>. HIDE DEF one
    <2>2. SameVals(one.map, two.map)
      BY <1>2, <2>1, ExtendHeld DEF Good
    <2>. HIDE DEF two
    <2>. QED  BY <2>0, <2>1, <2>2, LookFits DEF SameVals
  <1>. HIDE DEF ok, two
  <1>. QED  BY <1>1, <1>2, UsingValues

LEMMA UploadValues ==
    ASSUME StorageInv, ValuesInv, Running, NEW h, UploadContractWasm(h)
    PROVE  ValuesInv'
  <1>. DEFINE key == CodeKey(h)
              new == ~ \E e \in Peek(storage, key) : e.val = 1
              r == prepare_read_only_access(storage, key)
              live == get_min_live_until_ledger("persistent")
              es == {[val |-> 1, live |-> live]}
              put == put_opt(r, key, es)
              st == IF new THEN put ELSE r
              rw == IF new THEN {key} ELSE {}
              vals == IF new THEN With(effects.vals, key, 1) ELSE effects.vals
  <1>1. Using({key}, rw, TRUE, st, vals, {})
    BY Zenon DEF UploadContractWasm
  <1>2. Ready(storage) /\ Len(stack) > 0 /\ \A c : InstKey(c) # key
    BY RunningLemma, KeyLemma
  <1>. HIDE DEF key, new
  <1>3. SameVals(storage.map, r.map)
    BY <1>2, ReadHeld DEF prepare_read_only_access
  <1>. HIDE DEF r, live
  <1>4. Vals(es) = {1}
    BY DEF Vals
  <1>. HIDE DEF es
  <1>5. Writes(storage.map, put.map, key, {1})
    <2>1. Writes(r.map, put.map, key, Vals(es))
      BY PutOptHeld, Zenon
    <2>. QED  BY <1>3, <1>4, <2>1 DEF Writes, SameVals
  <1>. HIDE DEF put
  <1>6. FitsAfter(put.map, With(effects.vals, key, 1)) /\ FitsAfter(r.map, effects.vals)
    BY <1>2, <1>3, <1>5, WriteFits, LookFits
  <1>7. FitsAfter(st.map, vals)
    BY <1>6
  <1>. HIDE DEF st, rw, vals
  <1>. QED  BY <1>1, <1>7, UsingValues

LEMMA EventValues ==
    ASSUME StorageInv, ValuesInv, Running, NEW v, ContractEvent(v)
    PROVE  ValuesInv'
  <1>1. Using({}, {}, TRUE, storage, effects.vals, {<<Me, v>>})
    BY DEF ContractEvent
  <1>2. FitsAfter(storage.map, effects.vals)
    BY NowFits, RunningLemma
  <1>. QED  BY <1>1, <1>2, UsingValues

\* A contract is only created where there is none, so that it is on no frame.
LEMMA CreateValues ==
    ASSUME StorageInv, ValuesInv, Running, NEW c, NEW h, CreateContract(c, h)
    PROVE  ValuesInv'
  <1>. DEFINE key == InstKey(c)
              free == Peek(storage, key) = {}
              inst == [exec |-> h, store |-> <<>>]
              ro == {key} \cup (IF free THEN {CodeKey(h)} ELSE {})
              ok == free /\ Peek(storage, CodeKey(h)) # {}
              r == prepare_read_only_access(storage, CodeKey(h))
              st == PutValue(r, key, inst)
              vals == With(effects.vals, key, inst)
  <1>1. Using(ro, {key}, ok, st, vals, {})
    BY Zenon DEF CreateContract
  <1>2. IsInst(inst)
    BY DEF IsInst
  <1>3. Becomes(effects.vals, vals, key, {inst})
    BY WithLemma DEF Becomes
  <1>. HIDE DEF key, inst, vals
  <1>4. Instances(key, {inst})
    BY <1>2 DEF Instances
  <1>5. Ready(storage) /\ Len(stack) > 0
    BY RunningLemma
  <1>6. ASSUME ok, MayAccess(key, "ro")
        PROVE  FitsAfter(st.map, vals)
    <2>1. Ready(r) /\ SameVals(storage.map, r.map)
      BY <1>5, ReadLemma, ReadHeld DEF prepare_read_only_access, Good
    <2>2. Held(ledger, storage.map, key) = Vals({})
      BY <1>5, <1>6, KnownLemma, PeekHeld
    <2>3. Vals({}) = {}
      BY DEF Vals
    <2>4. NoFrame(stack, Len(stack), key)
      BY <1>5, <2>2, <2>3, NowFits DEF FitsAfter, Present, NoFrame
    <2>. HIDE DEF r
    <2>5. Writes(r.map, st.map, key, {inst})
      BY <2>1, PutValueHeld
    <2>. HIDE DEF st
    <2>6. Writes(storage.map, st.map, key, {inst})
      BY <2>1, <2>5 DEF Writes, SameVals
    <2>. QED  BY <1>3, <1>4, <1>5, <2>4, <2>6, PutFits
  <1>7. key \in ro
    OBVIOUS
  <1>. HIDE DEF ok, st, ro
  <1>. QED  BY <1>1, <1>6, <1>7, UsingValues

\* The frame that runs, and its contract's instance.
LEMMA TopLemma ==
    ASSUME StorageInv, ValuesInv, Running
    PROVE  /\ Len(stack) \in 2..Len(stack) /\ Top = stack[Len(stack)]
           /\ ShapeOK(stack[Len(stack)]) /\ FrameKey(stack[Len(stack)]) = InstKey(Me)
           /\ Me \in Contracts /\ InstKey(Me) \in AllKeys
           /\ Held(ledger, storage.map, InstKey(Me)) # {}
           /\ \A v \in Held(ledger, storage.map, InstKey(Me)) : IsInst(v)
  <1>1. Len(stack) \in 2..Len(stack) /\ Top = stack[Len(stack)] /\ Len(stack) > 0
    BY RunningLemma DEF Top, Last
  <1>2. ShapeOK(stack[Len(stack)]) /\ FrameKey(stack[Len(stack)]) = InstKey(Me)
    BY <1>1 DEF ValuesInv, PresentInv, FrameKey, Me
  <1>3. Me \in Contracts /\ InstKey(Me) \in AllKeys
    BY <1>1, <1>2, KeyLemma DEF ShapeOK, Me
  <1>4. Present(ledger, stack, Len(stack), storage.map)
    BY <1>1 DEF ValuesInv, PresentInv
  <1>5. Held(ledger, storage.map, InstKey(Me)) # {}
    BY <1>1, <1>2, <1>4 DEF Present
  <1>6. \A v \in Held(ledger, storage.map, InstKey(Me)) : IsInst(v)
    BY <1>3, <1>4 DEF Present
  <1>. QED  BY <1>1, <1>2, <1>3, <1>5, <1>6

LEMMA OwnInstance ==
    ASSUME StorageInv, ValuesInv, Running, NEW st, Ready(st), SameVals(storage.map, st.map),
           Known(st, InstKey(Me))
    PROVE  /\ Held(ledger, storage.map, InstKey(Me)) = {Instance(st, Me)}
           /\ IsInst(Instance(st, Me))
  <1>. DEFINE key == InstKey(Me)
              es == Peek(st, key)
  <1>1. Held(ledger, st.map, key) = Held(ledger, storage.map, key)
    BY DEF SameVals
  <1>2. Vals(es) = Held(ledger, st.map, key)
    BY PeekHeld
  <1>3. Vals({}) = {}
    BY DEF Vals
  <1>4. es # {}
    BY <1>1, <1>2, <1>3, TopLemma
  <1>. HIDE DEF es
  <1>5. Held(ledger, st.map, key) = {Instance(st, Me)}
    BY <1>4, InstanceHeld DEF es
  <1>. QED  BY <1>1, <1>5, TopLemma

\* A new executable: the store that frames see is not touched.
LEMMA ExecFits ==
    ASSUME StorageInv, ValuesInv, Running, NEW m, NEW h, NEW v, IsInst(v),
           Held(ledger, storage.map, InstKey(Me)) = {v},
           Writes(storage.map, m, InstKey(Me), {[v EXCEPT !.exec = h]})
    PROVE  FitsAfter(m, With(effects.vals, InstKey(Me), [effects.vals[InstKey(Me)] EXCEPT !.exec = h]))
  <1>. DEFINE key == InstKey(Me)
              n == Len(stack)
              old == effects.vals[key]
              new == [old EXCEPT !.exec = h]
              vals == With(effects.vals, key, new)
              w == [exec |-> h, store |-> v.store]
  <1>1. [v EXCEPT !.exec = h] = w
    BY ExecLemma
  <1>2. IsInst(w) /\ w.exec = h
    BY DEF IsInst
  <1>. HIDE DEF w
  <1>3. n > 0 /\ FitsAfter(storage.map, effects.vals)
    BY RunningLemma, NowFits
  <1>4. Becomes(effects.vals, vals, key, {new}) /\ key \in DOMAIN vals /\ vals[key] = new
    BY WithLemma DEF Becomes
  <1>. HIDE DEF vals, new
  <1>5. Present(ledger, stack, n, m)
    BY <1>1, <1>2, <1>3 DEF FitsAfter, Present, Writes
  <1>6. ASSUME ~reentered  PROVE Fits(ledger, stack, n, m, vals)
    <2>1. Fits(ledger, stack, n, storage.map, effects.vals)
      BY <1>3, <1>6 DEF FitsAfter
    <2>2. key \in DOMAIN effects.vals /\ IsInst(old) /\ v.exec = old.exec
      BY <2>1, TopLemma DEF Fits, FrameFits
    <2>3. IsInst(new) /\ new.exec = h /\ new.store = old.store
      BY <2>2, ExecLemma DEF IsInst, new
    <2>. HIDE DEF old
    <2>4. ASSUME NEW k \in AllKeys, \A i \in 2..n : stack[i].modified => FrameKey(stack[i]) # k
          PROVE  Held(ledger, m, k) = ValAt(vals, k)
      <3>1. Held(ledger, storage.map, k) = ValAt(effects.vals, k)
        BY <2>1, <2>4 DEF Fits
      <3>2. CASE k = key
        <4>1. old = v
          BY <2>2, <3>1, <3>2 DEF ValAt, old
        <4>. QED  BY <1>4, <3>2, <4>1 DEF Writes, Becomes, new
      <3>3. CASE k # key
        <4>1. ValAt(vals, k) = ValAt(effects.vals, k)
          BY <1>4, <3>3, ValAtLemma DEF Becomes
        <4>. QED  BY <3>1, <3>3, <4>1 DEF Writes
      <3>. QED  BY <3>2, <3>3
    <2>5. ASSUME NEW i \in 2..n  PROVE FrameFits(ledger, stack[i], m, vals)
      <3>1. FrameFits(ledger, stack[i], storage.map, effects.vals)
        BY <2>1, <2>5 DEF Fits
      <3>2. CASE FrameKey(stack[i]) = key
        BY <1>1, <1>2, <1>4, <2>3, <3>1, <3>2 DEF FrameFits, Writes, old
      <3>3. CASE FrameKey(stack[i]) # key
        BY <1>4, <3>1, <3>3 DEF FrameFits, Writes, Becomes
      <3>. QED  BY <3>2, <3>3
    <2>. QED  BY <2>4, <2>5 DEF Fits
  <1>. QED  BY <1>5, <1>6 DEF FitsAfter, vals, new

LEMMA UpdateValues ==
    ASSUME StorageInv, ValuesInv, Running, NEW h, UpdateCurrentContractWasm(h)
    PROVE  ValuesInv'
  <1>. DEFINE key == InstKey(Me)
              ro == {CodeKey(h), key}
              ok == Peek(storage, CodeKey(h)) # {}
              r == ReadAll(storage, ro)
              v == Instance(r, Me)
              inst == [v EXCEPT !.exec = h]
              st == PutValue(r, key, inst)
              vals == With(effects.vals, key, [effects.vals[key] EXCEPT !.exec = h])
  <1>1. Using(ro, {key}, ok, st, vals, {<<Me, h>>})
    BY Zenon DEF UpdateCurrentContractWasm
  <1>2. key \in ro
    OBVIOUS
  <1>. HIDE DEF ro, ok
  <1>3. ASSUME MayAccess(key, "ro")
        PROVE  FitsAfter(st.map, vals)
    <2>1. Ready(r) /\ SameVals(storage.map, r.map) /\ Known(r, key)
      BY <1>3, RunningLemma, ReadLemma, ReadHeld, KnownLemma DEF Good
    <2>. HIDE DEF r
    <2>2. IsInst(v) /\ Held(ledger, storage.map, key) = {v}
      BY <2>1, OwnInstance
    <2>. HIDE DEF v
    <2>3. Writes(r.map, st.map, key, {inst})
      BY <2>1, PutValueHeld
    <2>. HIDE DEF st
    <2>4. Writes(storage.map, st.map, key, {inst})
      BY <2>1, <2>3 DEF Writes, SameVals
    <2>. QED  BY <2>2, <2>4, ExecFits
  <1>. HIDE DEF st, key, vals
  <1>. QED  BY <1>1, <1>2, <1>3, UsingValues

(***************************************************************************)
(* Values and frames.                                                      *)
(***************************************************************************)

\* What a frame below the n-th restores does not depend on the frames above.
LEMMA BelowLemma ==
    ASSUME NEW s, NEW t, NEW n \in Nat, \A i \in 2..n : t[i] = s[i]
    PROVE  \A m : /\ Present(ledger, s, n, m) => Present(ledger, t, n, m)
                  /\ \A vals : Fits(ledger, s, n, m, vals) => Fits(ledger, t, n, m, vals)
  <1>1. ASSUME NEW m, Present(ledger, s, n, m)  PROVE Present(ledger, t, n, m)
    BY <1>1 DEF Present
  <1>2. ASSUME NEW m, NEW vals, Fits(ledger, s, n, m, vals)  PROVE Fits(ledger, t, n, m, vals)
    BY <1>2 DEF Fits
  <1>. QED  BY <1>1, <1>2

LEMMA BaseLemma ==
    ASSUME NEW s, NEW t, NEW m, Present(ledger, s, 0, m)
    PROVE  Present(ledger, t, 0, m)
  BY DEF Present

\* The frame after a change of its instance storage.
Touched(f, new) ==
    [contract |-> f.contract, kind |-> f.kind, instance |-> f.instance, cache |-> {new},
     modified |-> TRUE, map |-> f.map, events |-> f.events, effects |-> f.effects]

LEMMA TouchedLemma ==
    ASSUME NEW f, ShapeOK(f), NEW new
    PROVE  [f EXCEPT !.cache = {new}, !.modified = TRUE] = Touched(f, new)
  <1>. DEFINE y == [f EXCEPT !.cache = {new}, !.modified = TRUE]
              z == Touched(f, new)
              fields == {"contract", "kind", "instance", "cache", "modified", "map", "events", "effects"}
  <1>1. DOMAIN f = fields
    BY DEF ShapeOK
  <1>2. DOMAIN z = fields /\ z.cache = {new} /\ z.modified = TRUE
        /\ \A i \in fields \ {"cache", "modified"} : z[i] = f[i]
    BY DEF Touched
  <1>3. /\ y = [i \in DOMAIN f |-> IF i = "modified" THEN TRUE ELSE IF i = "cache" THEN {new} ELSE f[i]]
        /\ z = [i \in DOMAIN z |-> z[i]]
    BY DEF Touched
  <1>. HIDE DEF z
  <1>4. \A i \in fields : y[i] = z[i]
    BY <1>1, <1>2
  <1>5. y = z
    BY <1>1, <1>2, <1>3, <1>4
  <1>. QED  BY <1>5 DEF z

LEMMA StackFacts ==
    ASSUME StorageInv, ValuesInv
    PROVE  /\ Len(stack) \in Nat /\ IsSequence(stack)
           /\ \A i \in 2..Len(stack) :
                /\ i - 1 \in Nat /\ ShapeOK(stack[i]) /\ Present(ledger, stack, i - 1, stack[i].map)
                /\ ~reentered => Fits(ledger, stack, i - 1, stack[i].map, stack[i].effects.vals)
           /\ Len(stack) > 0 /\ ~reentered => OneFrameEach(stack)
           /\ Present(ledger, stack, 0, <<>>)
  <1>1. Len(stack) \in Nat /\ IsSequence(stack)
    BY StackLength
  <1>2. \A i \in 2..Len(stack) : i - 1 \in Nat
    BY <1>1
  <1>. QED  BY <1>1, <1>2 DEF ValuesInv, PresentInv, FitsInv

\* A frame's change of its instance storage is a change of its contract's store,
\* which no frame below it sees.
LEMMA InstanceChangeValues ==
    ASSUME StorageInv, ValuesInv, Running, NEW new, NEW store, InstanceChange(new, store),
           ~reentered => new = store
    PROVE  ValuesInv'
  <1>. DEFINE n == Len(stack)
              f == stack[n]
              g == Touched(f, new)
              key == InstKey(Me)
              old == effects.vals[key]
              inst == [old EXCEPT !.store = store]
              vals == With(effects.vals, key, inst)
              u == [stack EXCEPT ![n] = g]
  <1>1. n \in 2..n /\ n \in Nat /\ n > 0 /\ ShapeOK(f) /\ FrameKey(f) = key /\ f.contract = Me
    BY TopLemma, RunningLemma DEF Me
  <1>2. stack' = u
    <2>1. stack' = [stack EXCEPT ![n] = [f EXCEPT !.cache = {new}, !.modified = TRUE]]
      BY DEF InstanceChange
    <2>. QED  BY <1>1, <2>1, TouchedLemma
  <1>3. UNCHANGED <<ledger, mode, storage, reentered>> /\ effects'.vals = vals /\ mode # "idle"
    BY DEF InstanceChange, Quiet, Affect, Running
  <1>4. /\ g.contract = f.contract /\ FrameKey(g) = key /\ g.map = f.map /\ g.effects = f.effects
        /\ ShapeOK(g) /\ OwnStore(g) = new /\ g.modified
    BY <1>1 DEF Touched, FrameKey, ShapeOK, OwnStore
  <1>. HIDE DEF g
  <1>5. Len(u) = n /\ \A i \in 1..n : u[i] = IF i = n THEN g ELSE stack[i]
    BY <1>1, ReplaceLemma, StackFacts, Zenon
  <1>. HIDE DEF u
  <1>6. /\ \A i \in 2..n : /\ FrameKey(u[i]) = FrameKey(stack[i]) /\ u[i].contract = stack[i].contract
                           /\ ShapeOK(u[i]) /\ u[i].map = stack[i].map /\ u[i].effects = stack[i].effects
        /\ u[n] = g /\ \A i \in 2..n : i # n => u[i] = stack[i]
    <2>1. \A i \in 2..n : i \in 1..n
      OBVIOUS
    <2>. HIDE DEF f, key, n
    <2>2. \A i \in 2..n : ShapeOK(stack[i])
      BY StackFacts DEF n
    <2>. QED  BY <1>1, <1>4, <1>5, <2>1, <2>2 DEF f, n
  <1>7. \A i \in 2..n : \A j \in 2..i - 1 : u[j] = stack[j]
    BY <1>1, <1>6
  <1>8. n = Len(stack') /\ stack' = u
    BY <1>2, <1>5
  <1>9. PresentInv'
    <2>1. Present(ledger, u, 0, <<>>)
      BY BaseLemma, StackFacts
    <2>2. Present(ledger, u, n, storage.map)
      BY <1>1, <1>6, NowFits DEF FitsAfter, Present
    <2>3. \A i \in 2..n : Present(ledger, u, i - 1, u[i].map)
      BY <1>6, <1>7, BelowLemma, StackFacts
    <2>. HIDE DEF n
    <2>. QED  BY <1>3, <1>6, <1>8, <2>1, <2>2, <2>3 DEF PresentInv
  <1>10. ASSUME ~reentered
         PROVE  /\ OneFrameEach(u) /\ Fits(ledger, u, n, storage.map, vals)
                /\ \A i \in 2..n : Fits(ledger, u, i - 1, u[i].map, u[i].effects.vals)
    <2>1. OneFrameEach(stack) /\ Fits(ledger, stack, n, storage.map, effects.vals)
      BY <1>1, <1>10, StackFacts, NowFits DEF FitsAfter
    <2>2. OneFrameEach(u)
      BY <1>5, <1>6, <2>1 DEF OneFrameEach
    <2>3. \A i \in 2..n : Fits(ledger, u, i - 1, u[i].map, u[i].effects.vals)
      BY <1>6, <1>7, <1>10, BelowLemma, StackFacts
    <2>4. key \in DOMAIN effects.vals /\ IsInst(old)
      BY <1>1, <2>1 DEF Fits, FrameFits
    <2>5. IsInst(inst) /\ inst.exec = old.exec /\ inst.store = store
      BY <2>4, StoreLemma DEF IsInst
    <2>6. Becomes(effects.vals, vals, key, {inst}) /\ key \in DOMAIN vals /\ vals[key] = inst
      BY WithLemma DEF Becomes
    <2>. HIDE DEF inst, vals
    <2>7. ASSUME NEW k \in AllKeys, \A i \in 2..n : u[i].modified => FrameKey(u[i]) # k
          PROVE  Held(ledger, storage.map, k) = ValAt(vals, k)
      <3>1. k # key
        BY <1>1, <1>4, <1>6, <2>7
      <3>2. ValAt(vals, k) = ValAt(effects.vals, k)
        BY <2>6, <3>1, ValAtLemma DEF Becomes
      <3>3. \A i \in 2..n : stack[i].modified => FrameKey(stack[i]) # k
        BY <1>1, <1>6, <2>7, <3>1
      <3>. QED  BY <2>1, <3>2, <3>3 DEF Fits
    <2>8. ASSUME NEW i \in 2..n  PROVE FrameFits(ledger, u[i], storage.map, vals)
      <3>1. FrameFits(ledger, stack[i], storage.map, effects.vals)
        BY <2>1, <2>8 DEF Fits
      <3>2. CASE i = n
        BY <1>1, <1>4, <1>6, <1>10, <2>5, <2>6, <3>1, <3>2 DEF FrameFits
      <3>3. CASE i # n
        <4>1. u[i] = stack[i] /\ stack[i].contract # stack[n].contract
          BY <1>1, <1>6, <2>1, <2>8, <3>3 DEF OneFrameEach
        <4>2. FrameKey(stack[i]) # key
          BY <1>1, <4>1, KeyLemma DEF FrameKey
        <4>. QED  BY <2>6, <3>1, <4>1, <4>2 DEF FrameFits, Becomes
      <3>. QED  BY <3>2, <3>3
    <2>. QED  BY <2>2, <2>3, <2>7, <2>8 DEF Fits
  <1>11. FitsInv'
    <2>. HIDE DEF n, vals
    <2>. QED  BY <1>3, <1>8, <1>10 DEF FitsInv
  <1>. QED  BY <1>9, <1>11 DEF ValuesInv

LEMMA InstanceValues ==
    ASSUME StorageInv, ValuesInv, Running,
           \/ \E k, v : PutInstanceData(k, v)
           \/ \E k : DelInstanceData(k)
    PROVE  ValuesInv'
  <1>1. InstanceStorage = OwnStore(Top)
    <2>1. ShapeOK(Top)
      BY TopLemma
    <2>. QED  BY <2>1 DEF ShapeOK, InstanceStorage, OwnStore
  <1>2. ~reentered => StoreNow = OwnStore(Top)
    <2>. SUFFICES ASSUME ~reentered  PROVE StoreNow = OwnStore(Top)
      OBVIOUS
    <2>1. Fits(ledger, stack, Len(stack), storage.map, effects.vals)
      BY NowFits, RunningLemma DEF FitsAfter
    <2>2. FrameFits(ledger, stack[Len(stack)], storage.map, effects.vals)
      BY <2>1, TopLemma DEF Fits
    <2>. QED  BY <2>2, TopLemma DEF FrameFits, StoreNow
  <1>3. ASSUME NEW k, NEW v, PutInstanceData(k, v)  PROVE ValuesInv'
    <2>1. InstanceChange(With(InstanceStorage, k, v), With(StoreNow, k, v))
      BY <1>3, Zenon DEF PutInstanceData
    <2>2. ~reentered => With(InstanceStorage, k, v) = With(StoreNow, k, v)
      BY <1>1, <1>2
    <2>. QED  BY <2>1, <2>2, InstanceChangeValues
  <1>4. ASSUME NEW k, DelInstanceData(k)  PROVE ValuesInv'
    <2>1. InstanceChange(Without(InstanceStorage, k), Without(StoreNow, k))
      BY <1>4, Zenon DEF DelInstanceData
    <2>2. ~reentered => Without(InstanceStorage, k) = Without(StoreNow, k)
      BY <1>1, <1>2
    <2>. QED  BY <2>1, <2>2, InstanceChangeValues
  <1>. QED  BY <1>3, <1>4

LEMMA AppendLemma ==
    ASSUME NEW s, IsSequence(s), NEW f
    PROVE  LET u == Append(s, f) IN
           Len(u) = Len(s) + 1 /\ u[Len(s) + 1] = f /\ \A i \in 1..Len(s) : u[i] = s[i]
  <1>1. s \in Seq(Range(s) \cup {f}) /\ Len(s) \in Nat
    BY DEF IsSequence
  <1>2. \A i \in 1..Len(s) + 1 : Append(s, f)[i] = IF i = Len(s) + 1 THEN f ELSE s[i]
    BY <1>1
  <1>. QED  BY <1>1, <1>2

\* A frame starts with the instance as storage has it, which is what the frames
\* below wrote: none of them is of the same contract, unless it re-enters itself.
LEMMA PushValues ==
    ASSUME StorageInv, ValuesInv, Running, NEW c \in Contracts, NEW kind, NEW keys,
           storage' = ReadAll(storage, keys), InstKey(c) \in keys,
           MayAccess(InstKey(c), "ro"), Peek(storage, InstKey(c)) # {},
           stack' = Append(stack, NewFrame(c, kind, storage')),
           reentered' = (reentered \/ kind = "self"),
           kind = "self" \/ c \notin Callers,
           UNCHANGED <<ledger, mode, effects>>
    PROVE  ValuesInv'
  <1>. DEFINE n == Len(stack)
              f == NewFrame(c, kind, storage')
              key == InstKey(c)
              inst == Instance(storage', c)
              u == Append(stack, f)
              vals == effects.vals
  <1>1. n \in Nat /\ n > 0 /\ Ready(storage) /\ mode # "idle"
    BY RunningLemma
  <1>2. Ready(storage') /\ SameVals(storage.map, storage'.map) /\ Known(storage', key)
    BY <1>1, ReadLemma, ReadHeld, KnownLemma DEF Good
  <1>3. Held(ledger, storage'.map, key) = {inst} /\ key \in AllKeys
    <2>1. Held(ledger, storage.map, key) # {}
      <3>1. Vals(Peek(storage, key)) # {}
        BY DEF Vals
      <3>. QED  BY <1>1, <3>1, PeekHeld
    <2>2. Vals(Peek(storage', key)) = Held(ledger, storage'.map, key)
      BY <1>2, PeekHeld
    <2>3. Vals({}) = {}
      BY DEF Vals
    <2>4. Peek(storage', key) # {}
      BY <1>2, <2>1, <2>2, <2>3 DEF SameVals
    <2>. QED  BY <1>2, <2>4, InstanceHeld, KeyLemma
  <1>4. FitsAfter(storage'.map, vals)
    BY <1>1, <1>2, LookFits
  <1>5. /\ f.contract = c /\ FrameKey(f) = key /\ f.map = storage'.map /\ f.effects = effects
        /\ f.modified = FALSE /\ OwnStore(f) = inst.store /\ ShapeOK(f)
    BY DEF NewFrame, FrameKey, OwnStore, ShapeOK
  <1>. HIDE DEF f, inst
  <1>6. Len(u) = n + 1 /\ u[n + 1] = f /\ \A i \in 1..n : u[i] = stack[i]
    <2>1. IsSequence(stack)
      BY StackFacts
    <2>. QED  BY <2>1, AppendLemma, SMT
  <1>7. stack' = u
    BY DEF f
  <1>. HIDE DEF u, key
  <1>8. /\ \A i \in 2..n : u[i] = stack[i]
        /\ \A i \in 2..n + 1 : i \in 2..n \/ i = n + 1
        /\ \A i \in 2..n : \A j \in 2..i - 1 : u[j] = stack[j]
    BY <1>1, <1>6
  <1>9. Present(ledger, u, n, storage'.map)
    BY <1>1, <1>4, <1>8, BelowLemma DEF FitsAfter
  <1>10. Present(ledger, u, n + 1, storage'.map)
    BY <1>3, <1>5, <1>6, <1>8, <1>9 DEF Present
  <1>11. ASSUME NEW i \in 2..n + 1
         PROVE  ShapeOK(u[i]) /\ Present(ledger, u, i - 1, u[i].map)
    <2>1. CASE i = n + 1
      <3>1. i - 1 = n
        BY <1>1, <2>1
      <3>. QED  BY <1>5, <1>6, <1>9, <2>1, <3>1
    <2>2. CASE i \in 2..n
      BY <1>8, <2>2, BelowLemma, StackFacts
    <2>. QED  BY <1>8, <2>1, <2>2
  <1>12. PresentInv'
    <2>1. Present(ledger, u, 0, <<>>)
      BY BaseLemma, StackFacts
    <2>. HIDE DEF n
    <2>. QED  BY <1>1, <1>6, <1>7, <1>10, <1>11, <2>1 DEF PresentInv
  <1>13. ASSUME ~reentered, kind # "self"
         PROVE  /\ OneFrameEach(u) /\ Fits(ledger, u, n + 1, storage'.map, vals)
                /\ \A i \in 2..n + 1 : Fits(ledger, u, i - 1, u[i].map, u[i].effects.vals)
    <2>1. OneFrameEach(stack) /\ Fits(ledger, stack, n, storage'.map, vals)
      BY <1>1, <1>4, <1>13, StackFacts DEF FitsAfter
    <2>2. \A i \in 2..n : u[i].contract # c
      BY <1>8, <1>13 DEF Callers
    <2>3. OneFrameEach(u)
      <3>. SUFFICES ASSUME NEW i \in 2..n + 1, NEW j \in 2..n + 1, u[i].contract = u[j].contract
                    PROVE  i = j
        BY <1>6 DEF OneFrameEach
      <3>1. CASE i \in 2..n /\ j \in 2..n
        BY <1>8, <2>1, <3>1 DEF OneFrameEach
      <3>2. CASE i = n + 1 \/ j = n + 1
        BY <1>5, <1>6, <1>8, <2>2, <3>2
      <3>. QED  BY <1>8, <3>1, <3>2
    <2>4. Fits(ledger, u, n, storage'.map, vals)
      BY <1>1, <1>8, <2>1, BelowLemma
    <2>5. \A i \in 2..n : FrameKey(stack[i]) # key
      BY <1>8, <2>2, KeyLemma DEF FrameKey, key
    <2>6. FrameFits(ledger, f, storage'.map, vals)
      <3>1. Held(ledger, storage'.map, key) = ValAt(vals, key)
        BY <1>3, <2>1, <2>5 DEF Fits
      <3>2. key \in DOMAIN vals /\ vals[key] = inst
        BY <1>3, <3>1 DEF ValAt
      <3>3. IsInst(inst)
        BY <1>3, <1>9 DEF Present, key
      <3>. QED  BY <1>3, <1>5, <3>2, <3>3 DEF FrameFits
    <2>7. Fits(ledger, u, n + 1, storage'.map, vals)
      <3>1. \A i \in 2..n : i \in 2..n + 1
        BY <1>1
      <3>. HIDE DEF n
      <3>2. ASSUME NEW i \in 2..n + 1  PROVE FrameFits(ledger, u[i], storage'.map, vals)
        <4>1. CASE i \in 2..n
          BY <2>4, <4>1 DEF Fits
        <4>2. CASE i = n + 1
          BY <1>6, <2>6, <4>2
        <4>. QED  BY <1>8, <4>1, <4>2
      <3>. QED  BY <2>4, <3>1, <3>2 DEF Fits
    <2>8. ASSUME NEW i \in 2..n + 1
          PROVE  Fits(ledger, u, i - 1, u[i].map, u[i].effects.vals)
      <3>1. CASE i = n + 1
        <4>1. i - 1 = n
          BY <1>1, <3>1
        <4>. QED  BY <1>5, <1>6, <2>4, <3>1, <4>1
      <3>2. CASE i \in 2..n
        BY <1>8, <1>13, <3>2, BelowLemma, StackFacts
      <3>. QED  BY <1>8, <3>1, <3>2
    <2>. QED  BY <2>3, <2>7, <2>8
  <1>14. FitsInv'
    <2>. HIDE DEF n
    <2>. QED  BY <1>6, <1>7, <1>13 DEF FitsInv
  <1>. QED  BY <1>12, <1>14 DEF ValuesInv

LEMMA CallValues ==
    ASSUME StorageInv, ValuesInv, Running, NEW c \in Contracts, NEW kind, Call(c, kind)
    PROVE  ValuesInv'
  <1>. DEFINE keys == CallKeys(c, storage)
  <1>1. UNCHANGED <<ledger, mode, effects>> /\ Len(stack) > 0 /\ Ready(storage)
    BY RunningLemma DEF Call, Raise, Quiet
  <1>2. \/ UNCHANGED <<storage, stack, reentered>>
        \/ storage' = ReadAll(storage, keys) /\ UNCHANGED <<stack, reentered>>
        \/ /\ \A k \in keys : MayAccess(k, "ro")
           /\ storage' = ReadAll(storage, keys) /\ Peek(storage, InstKey(c)) # {}
           /\ stack' = Append(stack, NewFrame(c, kind, storage'))
           /\ reentered' = (reentered \/ kind = "self")
           /\ kind = "self" \/ c \notin Callers
    BY Zenon DEF Call, Raise, Quiet
  <1>3. InstKey(c) \in keys
    BY DEF CallKeys
  <1>. HIDE DEF keys
  <1>4. CASE UNCHANGED <<storage, stack, reentered>>
    BY <1>1, <1>4, NowFits, KeepStack
  <1>5. CASE storage' = ReadAll(storage, keys) /\ UNCHANGED <<stack, reentered>>
    <2>1. FitsAfter(storage'.map, effects'.vals)
      BY <1>1, <1>5, ReadHeld, LookFits
    <2>. QED  BY <1>1, <1>5, <2>1, KeepStack
  <1>6. CASE /\ \A k \in keys : MayAccess(k, "ro")
             /\ storage' = ReadAll(storage, keys) /\ Peek(storage, InstKey(c)) # {}
             /\ stack' = Append(stack, NewFrame(c, kind, storage'))
             /\ reentered' = (reentered \/ kind = "self")
             /\ kind = "self" \/ c \notin Callers
    BY <1>1, <1>3, <1>6, PushValues
  <1>. QED  BY <1>2, <1>4, <1>5, <1>6

LEMMA FailValues ==
    ASSUME StorageInv, ValuesInv, Fail
    PROVE  ValuesInv'
  <1>1. UNCHANGED <<ledger, mode, stack, reentered, storage, effects>> /\ Len(stack) > 0
    BY RunningLemma DEF Fail, Raise
  <1>. QED  BY <1>1, NowFits, KeepStack

\* The frames below are left as they were.
LEMMA PopValues ==
    ASSUME StorageInv, ValuesInv, Len(stack) > 1, stack' = Front(stack),
           UNCHANGED <<ledger, mode, reentered>>, mode # "idle",
           Present(ledger, stack, Len(stack) - 1, storage'.map),
           ~reentered => Fits(ledger, stack, Len(stack) - 1, storage'.map, effects'.vals)
    PROVE  ValuesInv'
  <1>. DEFINE n == Len(stack)
              u == Front(stack)
              p == n - 1
  <1>1. n \in Nat /\ n > 0 /\ p \in Nat /\ p < n
    BY StackFacts
  <1>2. Len(u) = p /\ \A i \in 1..p : i \in 1..n /\ u[i] = stack[i]
    BY <1>1, StackFacts, PopLemma, Zenon
  <1>3. /\ \A i \in 2..p : i \in 2..n /\ u[i] = stack[i]
        /\ \A i \in 2..p : \A j \in 2..i - 1 : u[j] = stack[j]
    <2>. HIDE DEF u
    <2>. QED  BY <1>1, <1>2
  <1>4. stack' = u /\ Len(stack') = p
    BY <1>2
  <1>. HIDE DEF u
  <1>5. Present(ledger, u, p, storage'.map)
    BY <1>1, <1>3, BelowLemma
  <1>6. Present(ledger, u, 0, <<>>)
    BY BaseLemma, StackFacts
  <1>7. \A i \in 2..p : ShapeOK(u[i]) /\ Present(ledger, u, i - 1, u[i].map)
    BY <1>3, BelowLemma, StackFacts
  <1>. HIDE DEF p
  <1>8. PresentInv'
    BY <1>4, <1>5, <1>6, <1>7 DEF PresentInv
  <1>9. ASSUME ~reentered
        PROVE  /\ OneFrameEach(u) /\ Fits(ledger, u, p, storage'.map, effects'.vals)
               /\ \A i \in 2..p : Fits(ledger, u, i - 1, u[i].map, u[i].effects.vals)
    <2>1. OneFrameEach(u)
      <3>1. OneFrameEach(stack)
        BY <1>1, <1>9, StackFacts
      <3>. QED  BY <1>2, <1>3, <3>1 DEF OneFrameEach
    <2>2. Fits(ledger, u, p, storage'.map, effects'.vals)
      BY <1>1, <1>3, <1>9, BelowLemma DEF p
    <2>3. \A i \in 2..p : Fits(ledger, u, i - 1, u[i].map, u[i].effects.vals)
      BY <1>3, <1>9, BelowLemma, StackFacts
    <2>. QED  BY <2>1, <2>2, <2>3
  <1>10. FitsInv'
    BY <1>4, <1>9 DEF FitsInv
  <1>. QED  BY <1>8, <1>10 DEF ValuesInv

\* A rollback restores values and history alike.
LEMMA UnwindValues ==
    ASSUME StorageInv, ValuesInv, Unwind
    PROVE  ValuesInv'
  <1>. DEFINE n == Len(stack)
  <1>1. n \in Nat /\ n > 0 /\ UNCHANGED ledger
    BY StackFacts DEF Unwind, StorageInv, StackOK
  <1>2. CASE n = 1
    <2>1. stack' = <<>> /\ Len(stack') = 0
      BY <1>2 DEF Unwind, Reset
    <2>2. Present(ledger', stack', 0, <<>>)
      BY <1>1, BaseLemma, StackFacts
    <2>. QED  BY <2>1, <2>2 DEF ValuesInv, PresentInv, FitsInv
  <1>3. CASE n # 1
    <2>1. /\ storage' = [storage EXCEPT !.map = stack[n].map] /\ effects' = stack[n].effects
          /\ stack' = Front(stack) /\ UNCHANGED <<mode, reentered>>
      BY <1>3 DEF Unwind, Top, Last
    <2>2. storage'.map = stack[n].map
      BY <2>1 DEF StorageInv, StoreOK
    <2>a. \A x \in Nat : x > 0 /\ x # 1 => x > 1 /\ x \in 2..x
      OBVIOUS
    <2>3. n > 1 /\ n \in 2..n
      BY <1>1, <1>3, <2>a, Zenon
    <2>4. mode # "idle"
      BY <1>1 DEF ValuesInv, PresentInv
    <2>5. /\ Present(ledger, stack, n - 1, stack[n].map)
          /\ ~reentered => Fits(ledger, stack, n - 1, stack[n].map, stack[n].effects.vals)
      BY <2>3, StackFacts
    <2>6. stack' = Front(stack) /\ UNCHANGED <<ledger, mode, reentered>>
          /\ effects'.vals = stack[n].effects.vals
      BY <1>1, <2>1
    <2>. QED  BY <2>2, <2>3, <2>4, <2>5, <2>6, PopValues
  <1>. QED  BY <1>2, <1>3

\* A frame that ends writes its instance storage, with the executable there is.
LEMMA ReturnValues ==
    ASSUME StorageInv, ValuesInv, Return
    PROVE  ValuesInv'
  <1>. DEFINE n == Len(stack)
              f == stack[n]
              key == InstKey(Me)
              vals == effects.vals
  <1>1. Running /\ UNCHANGED <<ledger, mode, effects, reentered>>
    BY DEF Return, Raise, Quiet
  <1>2. Ready(storage) /\ n \in Nat /\ n > 0 /\ n > 1 /\ mode # "idle"
    BY <1>1, RunningLemma
  <1>3. \/ UNCHANGED <<stack, storage>>
        \/ /\ Top.modified => MayAccess(key, "rw")
           /\ storage' = Persisted(storage, Top) /\ stack' = Front(stack)
    BY DEF Return, Raise, Quiet
  <1>4. CASE UNCHANGED <<stack, storage>>
    BY <1>1, <1>2, <1>4, NowFits, KeepStack
  <1>5. CASE /\ Top.modified => MayAccess(key, "rw")
             /\ storage' = Persisted(storage, Top) /\ stack' = Front(stack)
    <2>1. n \in 2..n /\ Top = f /\ ShapeOK(f) /\ FrameKey(f) = key /\ key \in AllKeys
      BY <1>1, TopLemma
    <2>2. FitsAfter(storage.map, vals)
      BY <1>2, NowFits
    <2>3. \A i \in 2..n - 1 : i \in 2..n /\ i # n
      BY <1>2
    <2>4. \A i \in 2..n : i \in 2..n - 1 \/ i = n
      BY <1>2
    <2>5. CASE ~f.modified
      <3>1. storage' = storage
        BY <1>5, <2>1, <2>5 DEF Persisted
      <3>. DEFINE p == n - 1
      <3>a. (\A i \in 2..p : i \in 2..n /\ i # n) /\ (\A i \in 2..n : i \in 2..p \/ i = n)
        BY <2>3, <2>4
      <3>. HIDE DEF p, n, f
      <3>2. Present(ledger, stack, p, storage.map)
        BY <2>2, <3>a DEF FitsAfter, Present, n
      <3>3. ASSUME ~reentered  PROVE Fits(ledger, stack, p, storage.map, vals)
        <4>1. Fits(ledger, stack, n, storage.map, vals)
          BY <2>2, <3>3 DEF FitsAfter, n
        <4>2. ~stack[n].modified
          BY <2>5 DEF f
        <4>. QED  BY <3>a, <4>1, <4>2 DEF Fits
      <3>. QED  BY <1>1, <1>2, <1>5, <3>1, <3>2, <3>3, PopValues DEF p, n
    <2>6. CASE f.modified
      <3>. DEFINE v == Instance(storage, Me)
                  w == [v EXCEPT !.store = CHOOSE m \in f.cache : TRUE]
                  p == n - 1
      <3>1. storage' = PutValue(storage, key, w)
        BY <1>5, <2>1, <2>6 DEF Persisted, store_contract_instance, Me
      <3>2. Known(storage, key)
        BY <1>1, <1>5, <2>1, <2>6, KnownLemma
      <3>3. Held(ledger, storage.map, key) = {v} /\ IsInst(v)
        BY <1>1, <1>2, <3>2, OwnInstance DEF SameVals
      <3>. HIDE DEF v
      <3>4. w = [exec |-> v.exec, store |-> OwnStore(f)]
        <4>. DEFINE s == CHOOSE m \in f.cache : TRUE
        <4>1. OwnStore(f) = s
          BY <2>6 DEF OwnStore
        <4>. HIDE DEF s
        <4>2. [v EXCEPT !.store = s] = [exec |-> v.exec, store |-> s]
          BY <3>3, StoreLemma
        <4>. QED  BY <4>1, <4>2 DEF s
      <3>5. IsInst(w) /\ w.exec = v.exec /\ w.store = OwnStore(f)
        BY <3>4 DEF IsInst
      <3>. HIDE DEF w
      <3>6. Writes(storage.map, storage'.map, key, {w})
        BY <1>2, <3>1, PutValueHeld
      <3>a. (\A i \in 2..p : i \in 2..n /\ i # n) /\ (\A i \in 2..n : i \in 2..p \/ i = n)
        BY <2>3, <2>4
      <3>. HIDE DEF p, n, f, key
      <3>7. Present(ledger, stack, p, storage'.map)
        BY <2>2, <3>5, <3>6, <3>a DEF FitsAfter, Present, Writes, n
      <3>8. ASSUME ~reentered  PROVE Fits(ledger, stack, p, storage'.map, vals)
        <4>1. Fits(ledger, stack, n, storage.map, vals)
          BY <2>2, <3>8 DEF FitsAfter, n
        <4>2. /\ key \in DOMAIN vals /\ IsInst(vals[key]) /\ vals[key].store = OwnStore(f)
              /\ v.exec = vals[key].exec
          BY <2>1, <3>3, <4>1 DEF Fits, FrameFits, f
        <4>3. vals[key] = w
          BY <3>5, <4>2 DEF IsInst
        <4>4. ASSUME NEW k \in AllKeys, \A i \in 2..p : stack[i].modified => FrameKey(stack[i]) # k
              PROVE  Held(ledger, storage'.map, k) = ValAt(vals, k)
          <5>1. CASE k = key
            BY <3>6, <4>2, <4>3, <5>1 DEF Writes, ValAt
          <5>2. CASE k # key
            <6>1. \A i \in 2..n : stack[i].modified => FrameKey(stack[i]) # k
              BY <2>1, <3>a, <4>4, <5>2 DEF f
            <6>. QED  BY <3>6, <4>1, <5>2, <6>1 DEF Writes, Fits
          <5>. QED  BY <5>1, <5>2
        <4>5. ASSUME NEW i \in 2..p  PROVE FrameFits(ledger, stack[i], storage'.map, vals)
          <5>1. OneFrameEach(stack) /\ i \in 2..n /\ i # n /\ n \in 2..n
            BY <1>2, <2>1, <3>8, <3>a, <4>5, StackFacts DEF n
          <5>2. stack[i].contract # stack[n].contract
            BY <5>1 DEF OneFrameEach, n
          <5>3. FrameKey(stack[i]) # key
            BY <2>1, <5>2, KeyLemma DEF FrameKey, f
          <5>4. FrameFits(ledger, stack[i], storage.map, vals)
            BY <4>1, <5>1 DEF Fits
          <5>. QED  BY <3>6, <5>3, <5>4 DEF FrameFits, Writes
        <4>. QED  BY <4>4, <4>5 DEF Fits
      <3>. QED  BY <1>1, <1>2, <1>5, <3>7, <3>8, PopValues DEF p, n
    <2>. QED  BY <2>1, <2>5, <2>6 DEF ShapeOK
  <1>. QED  BY <1>3, <1>4, <1>5

(***************************************************************************)
(* Values and transactions.                                                *)
(***************************************************************************)

\* The instances on the ledger are instances.
LedgerInstances(l) == \A c \in Contracts : InstKey(c) \in DOMAIN l => IsInst(l[InstKey(c)].val)

LEMMA LedgerLemma ==
    ASSUME NEW l, NEW s
    PROVE  Present(l, s, 0, <<>>) <=> LedgerInstances(l)
  <1>1. \A k : Held(l, <<>>, k) = IF k \in DOMAIN l THEN {l[k].val} ELSE {}
    BY DEF Held, Vals
  <1>. QED  BY <1>1 DEF Present, LedgerInstances

LEMMA IdleValues ==
    ASSUME LedgerInstances(ledger'), stack' = <<>>
    PROVE  ValuesInv'
  <1>1. Len(stack') = 0
    OBVIOUS
  <1>2. Present(ledger', stack', 0, <<>>)
    BY LedgerLemma
  <1>. QED  BY <1>1, <1>2 DEF ValuesInv, PresentInv, FitsInv

\* A transaction starts with what the ledger holds.
LEMMA InvokeValues ==
    ASSUME StorageInv, ValuesInv, NEW m \in {"enforcing", "recording"}, NEW fp, NEW c \in Contracts,
           Invoke(m, fp, c)
    PROVE  ValuesInv'
  <1>. DEFINE st == IF m = "enforcing" THEN EnforcingStorage(fp) ELSE RecordingStorage(c)
              key == InstKey(c)
              vals == ValuesOf(ledger)
              g == [contract |-> c, kind |-> "call", instance |-> ledger[key].val,
                    cache |-> {}, modified |-> FALSE, map |-> st.map, events |-> 0, effects |-> FirstEffects]
              u == <<HostFunctionFrame(st), g>>
  <1>1. /\ key \in DOMAIN ledger /\ mode' = m /\ storage' = st /\ effects' = FirstEffects
        /\ stack' = u /\ UNCHANGED ledger
    BY Zenon DEF Invoke
  <1>2. \A k \in DOMAIN st.map : st.map[k] = Snapshot(k)
    BY DEF EnforcingStorage, RecordingStorage
  <1>3. FirstEffects.vals = vals
    BY DEF FirstEffects
  <1>. HIDE DEF FirstEffects
  <1>4. /\ g.contract = c /\ FrameKey(g) = key /\ g.map = st.map /\ g.effects = FirstEffects
        /\ g.modified = FALSE /\ OwnStore(g) = ledger[key].val.store /\ ShapeOK(g)
    BY DEF FrameKey, OwnStore, ShapeOK
  <1>. HIDE DEF st, g
  <1>5. Len(u) = 2 /\ u[2] = g
    OBVIOUS
  <1>. HIDE DEF u
  <1>6. \A k : Held(ledger, st.map, k) = IF k \in DOMAIN ledger THEN {ledger[k].val} ELSE {}
    BY <1>2 DEF Held, Snapshot, Vals
  <1>7. /\ DOMAIN vals = DOMAIN ledger /\ \A k \in DOMAIN ledger : vals[k] = ledger[k].val
        /\ \A k : ValAt(vals, k) = IF k \in DOMAIN ledger THEN {ledger[k].val} ELSE {}
    BY DEF ValuesOf, ValAt
  <1>. HIDE DEF vals
  <1>8. LedgerInstances(ledger) /\ Present(ledger, u, 0, <<>>)
    BY LedgerLemma, StackFacts
  <1>9. key \in AllKeys /\ IsInst(ledger[key].val)
    BY <1>1, <1>8, KeyLemma DEF LedgerInstances
  <1>10. 2..1 = {} /\ 2..2 = {2} /\ 2 - 1 = 1
    OBVIOUS
  <1>11. Present(ledger, u, 1, st.map)
    BY <1>6, <1>8, <1>10 DEF Present, LedgerInstances
  <1>12. Present(ledger, u, 2, st.map)
    <2>1. \A i \in 2..2 : Held(ledger, st.map, FrameKey(u[i])) # {}
      BY <1>1, <1>4, <1>5, <1>6, <1>10
    <2>. QED  BY <1>11, <2>1 DEF Present
  <1>13. Fits(ledger, u, 1, st.map, vals)
    BY <1>6, <1>7, <1>10 DEF Fits
  <1>14. Fits(ledger, u, 2, st.map, vals)
    <2>1. FrameFits(ledger, g, st.map, vals)
      BY <1>1, <1>4, <1>6, <1>7, <1>9 DEF FrameFits
    <2>. QED  BY <1>5, <1>6, <1>7, <1>10, <2>1 DEF Fits
  <1>15. OneFrameEach(u)
    BY <1>5, <1>10 DEF OneFrameEach
  <1>16. \A i \in 2..2 : i = 2 /\ i - 1 = 1
    OBVIOUS
  <1>17. PresentInv'
    BY <1>1, <1>4, <1>5, <1>8, <1>11, <1>12, <1>16 DEF PresentInv
  <1>18. FitsInv'
    BY <1>1, <1>3, <1>4, <1>5, <1>13, <1>14, <1>15, <1>16 DEF FitsInv
  <1>. QED  BY <1>17, <1>18 DEF ValuesInv

\* What a commit writes are the values that storage holds.
LEMMA ChangedVals ==
    ASSUME StorageInv, NEW k
    PROVE  Vals(Changed(k)) = Held(ledger, storage.map, k)
  <1>1. CASE k \notin DOMAIN storage.map
    BY <1>1 DEF Changed, Snapshot, Held
  <1>2. CASE k \in DOMAIN storage.map
    <2>1. \A e \in storage.map[k] : [e EXCEPT !.live = NewLive(k, e)].val = e.val
      <3>. SUFFICES ASSUME NEW e \in storage.map[k]
                    PROVE  [e EXCEPT !.live = NewLive(k, e)].val = e.val
        OBVIOUS
      <3>1. EntryOK(e)
        BY <1>2 DEF StorageInv, StoreOK, MapOK, EntriesOK
      <3>. QED  BY <3>1, LiveLemma
    <2>. DEFINE f(e) == [e EXCEPT !.live = NewLive(k, e)]
    <2>2. Changed(k) = {f(e) : e \in storage.map[k]} /\ Held(ledger, storage.map, k) = Vals(storage.map[k])
      BY <1>2 DEF Changed, Held
    <2>3. \A e \in storage.map[k] : f(e).val = e.val
      BY <2>1
    <2>. HIDE DEF f
    <2>. QED  BY <2>2, <2>3 DEF Vals
  <1>. QED  BY <1>1, <1>2

LEMMA CommitValues ==
    ASSUME StorageInv, ValuesInv, Commit
    PROVE  ValuesInv'
  <1>1. stack' = <<>> /\ Len(stack) > 0 /\ LedgerInstances(ledger)
    BY StackFacts, LedgerLemma DEF Commit, Finished, Reset
  <1>2. CASE mode = "recording"
    BY <1>1, <1>2, IdleValues DEF Commit
  <1>3. CASE mode # "recording"
    <2>1. ledger' = [k \in {x \in AllKeys : Changed(x) # {}} |-> CHOOSE e \in Changed(k) : TRUE]
      BY <1>3 DEF Commit
    <2>2. \A k \in DOMAIN ledger' : ledger'[k].val \in Held(ledger, storage.map, k)
      <3>. SUFFICES ASSUME NEW k \in DOMAIN ledger'  PROVE ledger'[k].val \in Held(ledger, storage.map, k)
        OBVIOUS
      <3>1. Changed(k) # {} /\ ledger'[k] = CHOOSE e \in Changed(k) : TRUE
        BY <2>1
      <3>2. ledger'[k].val \in Vals(Changed(k))
        BY <3>1 DEF Vals
      <3>. QED  BY <3>2, ChangedVals
    <2>3. Present(ledger, stack, Len(stack), storage.map)
      BY <1>1, NowFits DEF FitsAfter
    <2>4. LedgerInstances(ledger')
      BY <2>2, <2>3 DEF LedgerInstances, Present
    <2>. QED  BY <1>1, <2>4, IdleValues
  <1>. QED  BY <1>2, <1>3

LEMMA NetworkValues ==
    ASSUME StorageInv, ValuesInv, CloseLedger \/ \E k : Restore(k)
    PROVE  ValuesInv'
  <1>1. stack' = <<>> /\ LedgerInstances(ledger)
    BY StackFacts, LedgerLemma DEF CloseLedger, Restore, ValuesInv, PresentInv
  <1>2. ASSUME CloseLedger
        PROVE  DOMAIN ledger' \subseteq DOMAIN ledger /\ \A x \in DOMAIN ledger' : ledger'[x].val = ledger[x].val
    BY <1>2 DEF CloseLedger
  <1>3. ASSUME NEW k, Restore(k)
        PROVE  DOMAIN ledger' \subseteq DOMAIN ledger /\ \A x \in DOMAIN ledger' : ledger'[x].val = ledger[x].val
    <2>. DEFINE l == get_min_live_until_ledger("persistent")
                e == [ledger[k] EXCEPT !.live = l]
    <2>1. k \in DOMAIN ledger /\ ledger' = [ledger EXCEPT ![k] = e]
      BY <1>3 DEF Restore
    <2>2. e.val = ledger[k].val
      BY <2>1, LiveLemma DEF StorageInv, LedgerOK
    <2>. HIDE DEF e
    <2>. QED  BY <2>1, <2>2
  <1>4. LedgerInstances(ledger')
    BY <1>1, <1>2, <1>3 DEF LedgerInstances
  <1>. QED  BY <1>1, <1>4, IdleValues

(***************************************************************************)
(* Every step.                                                             *)
(***************************************************************************)

LEMMA FrameEvents ==
    ASSUME StorageInv, ValuesInv, EventsInv, Running,
           \/ \E k, v : PutInstanceData(k, v)
           \/ \E k : DelInstanceData(k)
    PROVE  EventsInv'
  <1>1. PICK new, store : InstanceChange(new, store)
    BY Zenon DEF PutInstanceData, DelInstanceData
  <1>. DEFINE n == Len(stack)
              f == stack[n]
              g == Touched(f, new)
              u == [stack EXCEPT ![n] = g]
  <1>2. n \in 2..n /\ n \in Nat /\ n > 0 /\ ShapeOK(f)
    BY TopLemma, RunningLemma
  <1>3. stack' = u
    <2>1. stack' = [stack EXCEPT ![n] = [f EXCEPT !.cache = {new}, !.modified = TRUE]]
      BY <1>1 DEF InstanceChange
    <2>. QED  BY <1>2, <2>1, TouchedLemma
  <1>4. g.events = f.events /\ g.effects = f.effects
    BY DEF Touched
  <1>5. UNCHANGED events /\ effects'.events = effects.events
    BY <1>1 DEF InstanceChange, Affect
  <1>. HIDE DEF g
  <1>6. Len(u) = n /\ \A i \in 1..n : u[i] = IF i = n THEN g ELSE stack[i]
    BY <1>2, ReplaceLemma, StackFacts, Zenon
  <1>7. \A i \in 2..n : i \in 1..n
    OBVIOUS
  <1>. HIDE DEF u, n
  <1>8. \A i \in 2..n : u[i].events = stack[i].events /\ u[i].effects = stack[i].effects
    BY <1>4, <1>6, <1>7
  <1>. QED  BY <1>2, <1>3, <1>5, <1>6, <1>8, SilentLemma DEF n

LEMMA CallEvents ==
    ASSUME StorageInv, EventsInv, Running, NEW c, NEW kind, Call(c, kind)
    PROVE  EventsInv'
  <1>. DEFINE f == NewFrame(c, kind, storage')
              u == Append(stack, f)
              n == Len(stack)
  <1>1. UNCHANGED <<events, effects>> /\ (UNCHANGED stack \/ stack' = u)
    BY Zenon DEF Call, Raise, Quiet
  <1>2. f.events = Len(events) /\ f.effects = effects
    BY DEF NewFrame
  <1>3. n \in Nat /\ n > 0 /\ IsSequence(stack)
    BY RunningLemma, StackLength
  <1>. HIDE DEF f
  <1>4. Len(u) = n + 1 /\ u[n + 1] = f /\ \A i \in 1..n : u[i] = stack[i]
    BY <1>3, AppendLemma, SMT
  <1>. HIDE DEF u
  <1>5. (\A i \in 2..n : u[i] = stack[i]) /\ \A i \in 2..n + 1 : i \in 2..n \/ i = n + 1
    BY <1>3, <1>4
  <1>6. CASE UNCHANGED stack
    BY <1>1, <1>3, <1>6, SilentLemma
  <1>7. CASE stack' = u
    <2>1. n + 1 \in Nat /\ n + 1 > n
      BY <1>3
    <2>. HIDE DEF n
    <2>2. \A i \in 2..Len(stack') :
               \/ /\ i \in 2..Len(stack)
                  /\ stack'[i].events = stack[i].events /\ stack'[i].effects = stack[i].effects
               \/ /\ i = Len(stack') /\ i > Len(stack)
                  /\ stack'[i].events = Len(events) /\ stack'[i].effects.events = effects.events
      BY <1>2, <1>4, <1>5, <1>7, <2>1 DEF n
    <2>. QED  BY <1>1, <1>3, <1>4, <1>7, <2>1, <2>2, SilentLemma DEF n
  <1>. QED  BY <1>1, <1>6, <1>7

LEMMA EndEvents ==
    ASSUME StorageInv, EventsInv, Fail \/ Return
    PROVE  EventsInv'
  <1>. DEFINE n == Len(stack)
              u == Front(stack)
  <1>1. Running /\ UNCHANGED <<events, effects>> /\ (UNCHANGED stack \/ stack' = u)
    BY DEF Fail, Return, Raise, Quiet
  <1>2. n \in Nat /\ n > 0 /\ IsSequence(stack)
    BY <1>1, RunningLemma, StackLength
  <1>3. CASE UNCHANGED stack
    BY <1>1, <1>2, <1>3, SilentLemma
  <1>4. CASE stack' = u
    <2>1. Len(u) = n - 1 /\ \A i \in 1..n - 1 : i \in 1..n /\ u[i] = stack[i]
      BY <1>2, PopLemma, Zenon
    <2>. HIDE DEF u
    <2>2. n - 1 \in Nat /\ \A i \in 2..n - 1 : i \in 2..n /\ u[i] = stack[i]
      BY <1>2, <2>1
    <2>. QED  BY <1>1, <1>2, <1>4, <2>1, <2>2, SilentLemma
  <1>. QED  BY <1>1, <1>3, <1>4

LEMMA IdleEvents ==
    ASSUME StorageInv, ValuesInv, EventsInv, Commit \/ CloseLedger \/ \E k : Restore(k)
    PROVE  EventsInv'
  <1>1. stack' = <<>> /\ (events' = <<>> \/ UNCHANGED events)
    BY DEF Commit, Reset, CloseLedger, Restore, ValuesInv, PresentInv
  <1>2. Len(stack') = 0 /\ Len(<<>>) = 0 /\ IsSequence(<<>>)
    BY <1>1 DEF IsSequence
  <1>3. IsSequence(events') /\ \A i \in 1..Len(events') : IsEvent(events'[i])
    <2>1. CASE events' = <<>>
      BY <1>2, <2>1
    <2>2. CASE events' = events
      BY <2>2 DEF EventsInv
    <2>. QED  BY <1>1, <2>1, <2>2
  <1>. QED  BY <1>2, <1>3 DEF EventsInv

LEMMA DataEvents ==
    ASSUME StorageInv, EventsInv, Running,
           \/ \E k, v, d : PutContractData(k, v, d)
           \/ \E k, d : GetContractData(k, d)
           \/ \E k, d : DelContractData(k, d)
           \/ \E k, d, t : ExtendContractDataTtl(k, d, t)
           \/ \E t : ExtendInstanceAndCodeTtl(t)
           \/ \E h : UploadContractWasm(h)
           \/ \E c, h : CreateContract(c, h)
           \/ \E h : UpdateCurrentContractWasm(h)
           \/ \E v : ContractEvent(v)
    PROVE  EventsInv'
  <1>. DEFINE Is(topics) == \E ro, rw, ok, st, vals : Using(ro, rw, ok, st, vals, topics)
  <1>1. ASSUME NEW k, NEW v, NEW d, PutContractData(k, v, d)  PROVE Is({})
    BY <1>1, Zenon DEF PutContractData
  <1>2. ASSUME NEW k, NEW d, GetContractData(k, d)  PROVE Is({})
    BY <1>2, Zenon DEF GetContractData
  <1>3. ASSUME NEW k, NEW d, DelContractData(k, d)  PROVE Is({})
    BY <1>3, Zenon DEF DelContractData
  <1>4. ASSUME NEW k, NEW d, NEW t, ExtendContractDataTtl(k, d, t)  PROVE Is({})
    BY <1>4, Zenon DEF ExtendContractDataTtl
  <1>5. ASSUME NEW t, ExtendInstanceAndCodeTtl(t)  PROVE Is({})
    BY <1>5, Zenon DEF ExtendInstanceAndCodeTtl
  <1>6. ASSUME NEW h, UploadContractWasm(h)  PROVE Is({})
    BY <1>6, Zenon DEF UploadContractWasm
  <1>7. ASSUME NEW c, NEW h, CreateContract(c, h)  PROVE Is({})
    BY <1>7, Zenon DEF CreateContract
  <1>8. ASSUME NEW h, UpdateCurrentContractWasm(h)  PROVE Is({<<Me, h>>})
    BY <1>8, Zenon DEF UpdateCurrentContractWasm
  <1>9. ASSUME NEW v, ContractEvent(v)  PROVE Is({<<Me, v>>})
    BY <1>9, Zenon DEF ContractEvent
  <1>10. ASSUME NEW topics, Is(topics), topics = {} \/ \E t : topics = {t}  PROVE EventsInv'
    BY <1>10, UsingEvents
  <1>. HIDE DEF Is
  <1>11. \A t : Is({t}) => EventsInv'
    BY <1>10
  <1>. QED  BY <1>1, <1>2, <1>3, <1>4, <1>5, <1>6, <1>7, <1>8, <1>9, <1>10, <1>11

LEMMA EffectsStep == StorageInv /\ ValuesInv /\ EventsInv /\ [Next]_vars => ValuesInv' /\ EventsInv'
  <1>. SUFFICES ASSUME StorageInv, ValuesInv, EventsInv, [Next]_vars  PROVE ValuesInv' /\ EventsInv'
    OBVIOUS
  <1>1. CASE UNCHANGED vars
    BY <1>1 DEF vars, ValuesInv, PresentInv, FitsInv, EventsInv, IsSequence, IsEvent
  <1>2. CASE \/ \E fp \in Footprints, c \in Contracts : "enforcing" \in Modes /\ Invoke("enforcing", fp, c)
             \/ \E c \in Contracts : "recording" \in Modes /\ Invoke("recording", <<>>, c)
    BY <1>2, InvokeValues, InvokeEvents
  <1>3. CASE \/ \E k \in DataKeys, v \in Values, d \in LedgerDurabilities : Running /\ PutContractData(k, v, d)
             \/ \E k \in DataKeys, d \in LedgerDurabilities : Running /\ GetContractData(k, d)
             \/ \E k \in DataKeys, d \in LedgerDurabilities : Running /\ DelContractData(k, d)
             \/ \E k \in DataKeys, d \in LedgerDurabilities, t \in ExtendTo :
                    Running /\ ExtendContractDataTtl(k, d, t)
    BY <1>3, DataValues, DataEvents, Zenon
  <1>4. CASE \E t \in ExtendTo : Running /\ ExtendInstanceAndCodeTtl(t)
    BY <1>4, ExtendInstanceValues, DataEvents, Zenon
  <1>5. CASE \/ \E k \in DataKeys, v \in Values : Running /\ PutInstanceData(k, v)
             \/ \E k \in DataKeys : Running /\ DelInstanceData(k)
    BY <1>5, InstanceValues, FrameEvents, Zenon
  <1>6. CASE \E h \in Hashes : Running /\ UploadContractWasm(h)
    BY <1>6, UploadValues, DataEvents, Zenon
  <1>7. CASE \E c \in Contracts, h \in Hashes : Running /\ CreateContract(c, h)
    BY <1>7, CreateValues, DataEvents, Zenon
  <1>8. CASE \E h \in Hashes : Running /\ UpdateCurrentContractWasm(h)
    BY <1>8, UpdateValues, DataEvents, Zenon
  <1>9. CASE \E v \in Values : Running /\ ContractEvent(v)
    BY <1>9, EventValues, DataEvents, Zenon
  <1>10. CASE \E c \in Contracts, kind \in {"call", "try", "self"} : Running /\ Call(c, kind)
    BY <1>10, CallValues, CallEvents, Zenon
  <1>11. CASE Fail \/ Return
    BY <1>11, FailValues, ReturnValues, EndEvents, Zenon
  <1>12. CASE Unwind
    BY <1>12, UnwindValues, RollbackEvents
  <1>13. CASE Commit \/ CloseLedger \/ \E k \in AllKeys : Restore(k)
    BY <1>13, CommitValues, NetworkValues, IdleEvents, Zenon
  <1>. QED  BY <1>1, <1>2, <1>3, <1>4, <1>5, <1>6, <1>7, <1>8, <1>9, <1>10, <1>11, <1>12, <1>13, Zenon DEF Next

LEMMA EffectsInit == Init => ValuesInv /\ EventsInv
  <1>. SUFFICES ASSUME Init PROVE ValuesInv /\ EventsInv
    OBVIOUS
  <1>1. stack = <<>> /\ events = <<>> /\ Len(stack) = 0
    BY DEF Init
  <1>2. LedgerInstances(ledger)
    <2>. SUFFICES ASSUME NEW c \in Contracts, InstKey(c) \in DOMAIN ledger
                  PROVE  IsInst(ledger[InstKey(c)].val)
      BY DEF LedgerInstances
    <2>. DEFINE v == [exec |-> CHOOSE h \in Uploaded : TRUE, store |-> <<>>]
    <2>1. InstKey(c)[1] = "inst"
      BY DEF InstKey
    <2>2. ledger[InstKey(c)].val = v
      BY <2>1 DEF Init
    <2>3. IsInst(v)
      BY DEF IsInst
    <2>. QED  BY <2>2, <2>3, Zenon
  <1>3. Present(ledger, stack, 0, <<>>)
    BY <1>2, LedgerLemma
  <1>. QED  BY <1>1, <1>3 DEF ValuesInv, PresentInv, FitsInv, EventsInv, IsSequence

LEMMA EffectsInvariant == Spec => [](ValuesInv /\ EventsInv)
  BY EffectsInit, EffectsStep, StorageInvariant, PTL DEF Spec

LEMMA FinishedLemma == StorageInv /\ ValuesInv /\ EventsInv => CommitIsSurvivingWrites
  <1>. SUFFICES ASSUME StorageInv, ValuesInv, EventsInv, Finished
                PROVE  /\ ~reentered => \A k \in AllKeys :
                              {e.val : e \in Changed(k)} =
                                  {effects.vals[x] : x \in {k} \cap DOMAIN effects.vals}
                       /\ Externalized = effects.events
    BY DEF CommitIsSurvivingWrites
  <1>1. Len(stack) = 1 /\ Len(stack) > 0
    BY DEF Finished
  <1>2. ASSUME ~reentered, NEW k \in AllKeys
        PROVE  Vals(Changed(k)) = ValAt(effects.vals, k)
    <2>1. Fits(ledger, stack, 1, storage.map, effects.vals)
      BY <1>1, <1>2, NowFits DEF FitsAfter
    <2>2. \A i \in 2..1 : stack[i].modified => FrameKey(stack[i]) # k
      OBVIOUS
    <2>3. Held(ledger, storage.map, k) = ValAt(effects.vals, k)
      BY <1>2, <2>1, <2>2 DEF Fits
    <2>. QED  BY <2>3, ChangedVals
  <1>3. Externalized = effects.events
    <2>1. DOMAIN events = 1..Len(events)
      BY IsSequenceLemma DEF EventsInv, IsSequence
    <2>2. Externalized = Shown(events, Len(events))
      BY <2>1 DEF Externalized, Shown
    <2>. QED  BY <1>1, <2>2 DEF EventsInv
  <1>. QED  BY <1>2, <1>3 DEF Vals, ValAt

\* What a transaction is about to change on the ledger are the writes of the frames
\* that were not rolled back, and what it reports are their events.
THEOREM CommitCorrect == Spec => []CommitIsSurvivingWrites
  BY FinishedLemma, EffectsInvariant, StorageInvariant, PTL
=============================================================================
