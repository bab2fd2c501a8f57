-------------------------- MODULE HostCalls_proofs --------------------------
(***************************************************************************)
(* A signed entry serves one transaction, its nodes only their context, and *)
(* a rollback returns what was used: for any contracts, accounts, entries,  *)
(* depth of calls, and number of transactions and ledgers.                  *)
(*                                                                         *)
(* The invariant relates three stacks: the frames with the nonces and the   *)
(* snapshot each was pushed with, the match states of the entries'          *)
(* trackers, and the calls of __check_auth in progress.                     *)
(***************************************************************************)
EXTENDS HostCalls, Totals_proofs, SequenceTheorems, WellFoundedInduction, TLAPS

(***************************************************************************)
(* Sequences of any values.                                                *)
(***************************************************************************)

IsSequence(s) == s \in Seq({s[i] : i \in DOMAIN s})

LEMMA SequenceLemma ==
    ASSUME NEW s, IsSequence(s)
    PROVE  /\ Len(s) \in Nat /\ DOMAIN s = 1..Len(s)
           /\ s = [i \in 1..Len(s) |-> s[i]]
           /\ s # <<>> => Len(s) > 0
           /\ s = <<>> => Len(s) = 0
  <1>1. Len(s) \in Nat /\ DOMAIN s = 1..Len(s) /\ s = [i \in 1..Len(s) |-> s[i]]
    BY LenProperties, Zenon DEF IsSequence
  <1>2. s = <<>> => Len(s) = 0
    BY EmptySeq
  <1>3. Len(s) = 0 => s = <<>>
    BY EmptySeq DEF IsSequence
  <1>. QED  BY <1>1, <1>2, <1>3

LEMMA AnySequence ==
    ASSUME NEW n \in Nat, NEW s, DOMAIN s = 1..n, s = [i \in 1..n |-> s[i]]
    PROVE  IsSequence(s) /\ Len(s) = n
  <1>. DEFINE S == {s[i] : i \in DOMAIN s}
  <1>1. \A i \in 1..n : s[i] \in S
    OBVIOUS
  <1>2. s \in [1..n -> S]
    BY <1>1
  <1>. HIDE DEF S
  <1>3. s \in Seq(S)
    BY <1>2
  <1>4. Len(s) = n
    BY <1>3
  <1>. QED  BY <1>3, <1>4 DEF IsSequence, S

LEMMA AppendLemma ==
    ASSUME NEW s, IsSequence(s), NEW x
    PROVE  /\ IsSequence(Append(s, x))
           /\ Append(s, x) # <<>>
           /\ Len(Append(s, x)) = Len(s) + 1
           /\ \A i \in 1..Len(s) : Append(s, x)[i] = s[i]
           /\ Append(s, x)[Len(s) + 1] = x
  <1>. DEFINE S == {s[i] : i \in DOMAIN s} \cup {x}
              r == Append(s, x)
  <1>1. s \in Seq(S) /\ x \in S
    <2>1. s \in Seq({s[i] : i \in DOMAIN s})
      BY DEF IsSequence
    <2>2. {s[i] : i \in DOMAIN s} \subseteq S
      OBVIOUS
    <2>. QED  BY <2>1, <2>2, SeqMonotonic, Zenon
  <1>. HIDE DEF S
  <1>2. /\ r \in Seq(S) /\ Len(r) = Len(s) + 1
        /\ \A i \in 1..Len(s) : r[i] = s[i]
        /\ r[Len(s) + 1] = x
    BY <1>1, AppendProperties
  <1>3. Len(s) \in Nat
    BY SequenceLemma
  <1>4. r = [i \in 1..Len(r) |-> r[i]] /\ DOMAIN r = 1..Len(r) /\ Len(r) \in Nat
    BY <1>2, LenProperties, Zenon
  <1>. HIDE DEF r
  <1>5. IsSequence(r)
    BY <1>4, AnySequence
  <1>6. r # <<>>
    BY <1>2, <1>3, EmptySeq
  <1>. QED  BY <1>2, <1>5, <1>6 DEF r

LEMMA FrontLemma ==
    ASSUME NEW s, IsSequence(s), s # <<>>
    PROVE  /\ IsSequence(Front(s))
           /\ Len(Front(s)) = Len(s) - 1
           /\ \A i \in 1..Len(s) - 1 : Front(s)[i] = s[i]
           /\ Len(s) = 1 => Front(s) = <<>>
  <1>. DEFINE S == {s[i] : i \in DOMAIN s}
              r == SubSeq(s, 1, Len(s) - 1)
  <1>1. s \in Seq(S)
    BY DEF IsSequence
  <1>2. Len(s) \in Nat /\ Len(s) > 0
    BY SequenceLemma
  <1>. HIDE DEF S
  <1>3. /\ r \in Seq(S) /\ Len(r) = Len(s) - 1
        /\ \A i \in 1..Len(s) - 1 : r[i] = s[i]
    <2>. DEFINE n == Len(s) - 1
    <2>1. n \in 1 - 1..Len(s) /\ 1 \in 1..Len(s) + 1 /\ 1..n \subseteq 1..Len(s)
      BY <1>2
    <2>2. /\ SubSeq(s, 1, n) \in Seq(S)
          /\ Len(SubSeq(s, 1, n)) = IF 1 <= n THEN n - 1 + 1 ELSE 0
          /\ \A i \in 1..n - 1 + 1 : SubSeq(s, 1, n)[i] = s[1 + i - 1]
      BY <1>1, <2>1, SubSeqProperties
    <2>. HIDE DEF n
    <2>0. n \in Nat
      BY <1>2 DEF n
    <2>3. n - 1 + 1 = n /\ (IF 1 <= n THEN n - 1 + 1 ELSE 0) = n /\ \A i \in 1..n : 1 + i - 1 = i
      BY <2>0
    <2>4. Len(SubSeq(s, 1, n)) = n /\ \A i \in 1..n : SubSeq(s, 1, n)[i] = s[1 + i - 1]
      BY <2>2, <2>3, Zenon
    <2>5. \A i \in 1..n : SubSeq(s, 1, n)[i] = s[i]
      BY <2>3, <2>4, Zenon
    <2>. QED  BY <2>2, <2>4, <2>5, Zenon DEF n
  <1>4. r = [i \in 1..Len(r) |-> r[i]] /\ DOMAIN r = 1..Len(r) /\ Len(r) \in Nat
    BY <1>3, LenProperties, Zenon
  <1>5. Len(s) = 1 => r = <<>>
    BY <1>3, EmptySeq
  <1>. HIDE DEF r
  <1>6. IsSequence(r)
    BY <1>4, AnySequence
  <1>. QED  BY <1>3, <1>5, <1>6 DEF r, Front

LEMMA LowestLemma ==
    ASSUME NEW S \in SUBSET Nat, S # {}
    PROVE  Lowest(S) \in S /\ \A y \in S : Lowest(S) <= y
  <1>. DEFINE R == OpToRel(<, Nat)
  <1>1. \A x, y \in Nat : <<y, x>> \in R <=> y < x
    BY DEF OpToRel
  <1>2. IsWellFoundedOn(R, Nat)
    BY NatLessThanWellFounded
  <1>. HIDE DEF R
  <1>3. PICK x \in S : \A y \in S : ~(<<y, x>> \in R)
    BY <1>2, WFMin
  <1>4. \A y \in S : x <= y
    <2>. SUFFICES ASSUME NEW y \in S
                 PROVE  x <= y
      OBVIOUS
    <2>1. x \in Nat /\ y \in Nat
      OBVIOUS
    <2>2. ~(y < x)
      BY <1>1, <1>3, <2>1
    <2>. QED  BY <2>1, <2>2
  <1>. QED  BY <1>4 DEF Lowest

(***************************************************************************)
(* The inductive invariant.                                                *)
(***************************************************************************)

\* The fields of the records.
IsManager(m) ==
    /\ m = [recording |-> m.recording, call_stack |-> m.call_stack, invoker |-> m.invoker,
            by_handle |-> m.by_handle, account |-> m.account]
    /\ m.recording \in BOOLEAN

IsInvocation(v) ==
    v = [address |-> v.address, tree |-> v.tree, exhausted |-> v.exhausted,
         match_stack |-> v.match_stack, root_frame |-> v.root_frame, processed |-> v.processed]

IsEntry(t) ==
    /\ t = [invocation |-> t.invocation, verified |-> t.verified, borrowed |-> t.borrowed,
            source |-> t.source, nonce |-> t.nonce, expiration |-> t.expiration,
            signatures |-> t.signatures]
    /\ IsInvocation(t.invocation)
    /\ t.verified \in BOOLEAN /\ t.borrowed \in BOOLEAN /\ t.source \in BOOLEAN /\ t.expiration \in Nat

IsFrame(f) ==
    f = [kind |-> f.kind, fn |-> f.fn, tracker |-> f.tracker, snap |-> f.snap,
         nonces |-> f.nonces, trace |-> f.trace, grants |-> f.grants]

AccountsOK(m) ==
    DOMAIN m.account \subseteq Nat \ {0} /\ \A k \in DOMAIN m.account : IsEntry(m.account[k])

NoncesOK(n) == \A k \in DOMAIN n : n[k] \in Int

Extends(n, l) == DOMAIN l \subseteq DOMAIN n /\ \A k \in DOMAIN l : n[k] = l[k]

\* This transaction consumed nonce k, for as long as a signature up to e could be used.
Backed(n, l, s, k, e) ==
    e \in Nat /\ k \in DOMAIN n /\ k \notin DOMAIN l /\ n[k] >= e /\ s <= e

EntryBacked(t, n, l, s) == t.source \/ Backed(n, l, s, NonceKey(t), t.expiration)

GrantBacked(g, n, l, s) == g.source \/ Backed(n, l, s, <<g.address, g.payload[1]>>, g.payload[2])

\* The host function's frame is at the bottom, and was pushed with the ledger's nonces.
StackOK(stack, n, l) ==
    /\ IsSequence(stack)
    /\ \A i \in DOMAIN stack : IsFrame(stack[i]) /\ (stack[i].kind = "host_fn" <=> i = 1)
    /\ stack = <<>> => n = l
    /\ stack # <<>> => stack[1].nonces = l

\* What a frame was granted rests on a consumed nonce, now and after the frames above
\* have been rolled back.
GrantsOK(stack, n, l, s) ==
    /\ Extends(n, l) /\ NoncesOK(n)
    /\ \A i \in DOMAIN stack : Extends(stack[i].nonces, l) /\ NoncesOK(stack[i].nonces)
    /\ \A i \in DOMAIN stack : \A g \in stack[i].grants :
          /\ GrantBacked(g, n, l, s)
          /\ \A j \in DOMAIN stack : i < j => GrantBacked(g, stack[j].nonces, l, s)

Checks(f, k) == f.kind = "check_auth" /\ f.tracker = k

\* What rolling frame j back would restore.
SnapshotOK(m, stack, j, l, s) ==
    /\ DOMAIN stack[j].snap.account = DOMAIN m.account
    /\ \A k \in DOMAIN m.account :
          /\ stack[j].snap.account[k].verified \in BOOLEAN
          /\ stack[j].snap.account[k].taken /\ stack[j].snap.account[k].verified =>
                EntryBacked(m.account[k], stack[j].nonces, l, s)
          /\ ~stack[j].snap.account[k].taken <=> \E i \in DOMAIN stack : i <= j /\ Checks(stack[i], k)

\* A verified entry has its nonce consumed; the borrowed entries are those whose
\* __check_auth is in progress.
TrackersOK(m, stack, n, l, s) ==
    /\ AccountsOK(m)
    /\ \A k \in DOMAIN m.account :
          /\ m.account[k].verified => EntryBacked(m.account[k], n, l, s)
          /\ m.account[k].borrowed => ~m.account[k].verified /\ \E j \in DOMAIN stack : Checks(stack[j], k)
    /\ \A j \in DOMAIN stack : stack[j].kind = "check_auth" =>
          stack[j].tracker \in DOMAIN m.account /\ m.account[stack[j].tracker].borrowed
    /\ \A i, j \in DOMAIN stack :
          stack[i].kind = "check_auth" /\ stack[j].kind = "check_auth" /\ stack[i].tracker = stack[j].tracker
             => i = j
    /\ \A j \in DOMAIN stack : SnapshotOK(m, stack, j, l, s)

NoGrants(stack) == \A i \in DOMAIN stack : stack[i].grants = {} /\ stack[i].kind # "check_auth"

\* The nonce of an entry that was used is on the ledger until the signature expires.
UsedConsumed ==
    \A u \in used :
        /\ u.payload[2] \in Nat
        /\ \/ seq > u.payload[2]
           \/ /\ <<u.address, u.payload[1]>> \in DOMAIN ledger
              /\ ledger[<<u.address, u.payload[1]>>] >= u.payload[2]

\* The manager m, the stack, the nonces n and the error e in flight fit together, with
\* the nonces l on the ledger of number s.  After an internal error, which nothing
\* recovers from, the trackers need not.
Sound(m, stack, n, e, l, s) ==
    /\ IsManager(m)
    /\ StackOK(stack, n, l)
    /\ m.recording => NoGrants(stack)
    /\ ~m.recording =>
          /\ GrantsOK(stack, n, l, s)
          /\ e # "internal" => TrackersOK(m, stack, n, l, s)

HostInv ==
    /\ seq \in Nat /\ NoncesOK(ledger)
    /\ Idle => raised = "none" /\ (~am.recording => DOMAIN am.account = {})
    /\ Sound(am, frames, nonces, raised, ledger, seq)
    /\ UsedConsumed /\ NoReplay

(***************************************************************************)
(* The operations of the manager keep what was signed.                     *)
(***************************************************************************)

\* A tracker is moved, and its entry stays.
Moved(v, r) == IsInvocation(r) /\ r.address = v.address /\ r.tree = v.tree

LEMMA InvocationLemma ==
    ASSUME NEW v, NEW e, NEW m, NEW f, NEW p, NEW r,
           r = [address |-> v.address, tree |-> v.tree, exhausted |-> e, match_stack |-> m,
                root_frame |-> f, processed |-> p]
    PROVE  Moved(v, r)
  <1>1. /\ r.address = v.address /\ r.tree = v.tree /\ r.exhausted = e /\ r.match_stack = m
        /\ r.root_frame = f /\ r.processed = p
    OBVIOUS
  <1>. QED  BY <1>1 DEF Moved, IsInvocation

RootMatched(v, p, f) == [MatchFrame(v, p) EXCEPT !.root_frame = f]

LEMMA MoveLemma ==
    ASSUME NEW v, IsInvocation(v)
    PROVE  /\ Moved(v, v)
           /\ Moved(v, push_frame(v))
           /\ Moved(v, pop_frame(v))
           /\ \A x : Moved(v, rollback_invocation(v, x))
           /\ \A p : Moved(v, MatchFrame(v, p))
           /\ \A p, f : Moved(v, RootMatched(v, p, f))
  <1>1. Moved(v, v)
    BY DEF Moved
  <1>2. ASSUME NEW x, NEW r, r = [v EXCEPT !.match_stack = x]
        PROVE  Moved(v, r)
    <2>1. r = [address |-> v.address, tree |-> v.tree, exhausted |-> v.exhausted, match_stack |-> x,
               root_frame |-> v.root_frame, processed |-> v.processed]
      BY <1>2 DEF IsInvocation
    <2>. QED  BY <2>1, InvocationLemma
  <1>3. ASSUME NEW x, NEW y, NEW r, r = [v EXCEPT !.match_stack = x, !.processed = y]
        PROVE  Moved(v, r)
    <2>1. r = [address |-> v.address, tree |-> v.tree, exhausted |-> v.exhausted, match_stack |-> x,
               root_frame |-> v.root_frame, processed |-> y]
      BY <1>3 DEF IsInvocation
    <2>. QED  BY <2>1, InvocationLemma
  <1>4. ASSUME NEW x, NEW y, NEW z, NEW r,
               r = [v EXCEPT !.exhausted = x, !.root_frame = y, !.processed = z]
        PROVE  Moved(v, r)
    <2>1. r = [address |-> v.address, tree |-> v.tree, exhausted |-> x, match_stack |-> v.match_stack,
               root_frame |-> y, processed |-> z]
      BY <1>4 DEF IsInvocation
    <2>. QED  BY <2>1, InvocationLemma
  <1>5. ASSUME NEW x, NEW y, NEW r, r = [v EXCEPT !.exhausted = x, !.match_stack = y]
        PROVE  Moved(v, r) /\ \A z : Moved(v, [r EXCEPT !.root_frame = z])
    <2>1. r = [address |-> v.address, tree |-> v.tree, exhausted |-> x, match_stack |-> y,
               root_frame |-> v.root_frame, processed |-> v.processed]
      BY <1>5 DEF IsInvocation
    <2>2. ASSUME NEW z
          PROVE  Moved(v, [r EXCEPT !.root_frame = z])
      <3>1. [r EXCEPT !.root_frame = z] =
              [address |-> v.address, tree |-> v.tree, exhausted |-> x, match_stack |-> y,
               root_frame |-> z, processed |-> v.processed]
        BY <2>1
      <3>. QED  BY <3>1, InvocationLemma
    <2>. QED  BY <2>1, <2>2, InvocationLemma
  <1>6. Moved(v, push_frame(v))
    <2>. DEFINE x == Append(v.match_stack, Unmatched)
    <2>1. push_frame(v) = [v EXCEPT !.match_stack = x]
      BY Zenon DEF push_frame
    <2>. HIDE DEF x
    <2>. QED  BY <1>2, <2>1
  <1>7. Moved(v, pop_frame(v))
    <2>. DEFINE x == IF v.match_stack = <<>> THEN <<>> ELSE Front(v.match_stack)
                y == v.processed \/ (v.root_frame # NoFrame /\ v.root_frame > Len(x))
    <2>1. pop_frame(v) = [v EXCEPT !.match_stack = x, !.processed = y]
      BY Zenon DEF pop_frame
    <2>. HIDE DEF x, y
    <2>. QED  BY <1>3, <2>1
  <1>8. ASSUME NEW e
        PROVE  Moved(v, rollback_invocation(v, e))
    <2>. DEFINE y == IF <<>> \in e THEN v.root_frame ELSE NoFrame
                z == v.processed /\ <<>> \in e
    <2>1. rollback_invocation(v, e) = [v EXCEPT !.exhausted = e, !.root_frame = y, !.processed = z]
      BY Zenon DEF rollback_invocation
    <2>. HIDE DEF y, z
    <2>. QED  BY <1>4, <2>1
  <1>9. ASSUME NEW p
        PROVE  /\ Moved(v, MatchFrame(v, p))
               /\ \A f : Moved(v, RootMatched(v, p, f))
    <2>. DEFINE x == v.exhausted \cup {p}
                y == [v.match_stack EXCEPT ![Len(v.match_stack)] = {p}]
                r == MatchFrame(v, p)
    <2>1. r = [v EXCEPT !.exhausted = x, !.match_stack = y]
      BY DEF MatchFrame
    <2>. HIDE DEF x, y, r
    <2>2. Moved(v, r) /\ \A f : Moved(v, [r EXCEPT !.root_frame = f])
      BY <1>5, <2>1
    <2>. QED  BY <2>2, Zenon DEF r, RootMatched
  <1>. QED  BY <1>1, <1>6, <1>7, <1>8, <1>9, Zenon

LEMMA ExtendLemma ==
    ASSUME NEW v, IsInvocation(v), NEW fn, NEW allow
    PROVE  Moved(v, maybe_extend_invocation_match(v, fn, allow))
  <1>. DEFINE r == maybe_extend_invocation_match(v, fn, allow)
  <1>1. \/ r = v
        \/ \E p : r = MatchFrame(v, p)
        \/ \E p, f : r = RootMatched(v, p, f)
    BY Zenon DEF maybe_extend_invocation_match, RootMatched
  <1>. SUFFICES Moved(v, r)
    OBVIOUS
  <1>. HIDE DEF r
  <1>2. CASE r = v
    BY <1>2, MoveLemma
  <1>3. CASE \E p : r = MatchFrame(v, p)
    BY <1>3, MoveLemma
  <1>4. CASE \E p, f : r = RootMatched(v, p, f)
    BY <1>4, MoveLemma
  <1>. QED  BY <1>1, <1>2, <1>3, <1>4

\* An entry with its tracker moved.
SameEntry(t, r) ==
    /\ r.invocation.address = t.invocation.address /\ r.invocation.tree = t.invocation.tree
    /\ r.nonce = t.nonce /\ r.expiration = t.expiration /\ r.source = t.source
    /\ r.signatures = t.signatures

SameEntries(m, r) ==
    /\ AccountsOK(r) /\ DOMAIN r.account = DOMAIN m.account
    /\ \A k \in DOMAIN m.account : SameEntry(m.account[k], r.account[k])

SameStatus(m, r) ==
    \A k \in DOMAIN m.account :
        r.account[k].verified = m.account[k].verified /\ r.account[k].borrowed = m.account[k].borrowed

\* The manager after an operation that moves trackers.
SameManager(m, r) ==
    /\ IsManager(r) /\ r.recording = m.recording
    /\ AccountsOK(m) => SameEntries(m, r) /\ SameStatus(m, r)

LEMMA EntryLemma ==
    ASSUME NEW t, IsEntry(t)
    PROVE  SameEntry(t, t)
  BY DEF SameEntry

LEMMA EntryMoved ==
    ASSUME NEW t, IsEntry(t), NEW v, Moved(t.invocation, v), NEW r, r = [t EXCEPT !.invocation = v]
    PROVE  IsEntry(r) /\ SameEntry(t, r) /\ r.verified = t.verified /\ r.borrowed = t.borrowed
  <1>1. r = [invocation |-> v, verified |-> t.verified, borrowed |-> t.borrowed,
            source |-> t.source, nonce |-> t.nonce, expiration |-> t.expiration,
            signatures |-> t.signatures]
    BY DEF IsEntry
  <1>2. /\ r.invocation = v /\ r.verified = t.verified /\ r.borrowed = t.borrowed /\ r.source = t.source
        /\ r.nonce = t.nonce /\ r.expiration = t.expiration /\ r.signatures = t.signatures
    BY <1>1
  <1>. QED  BY <1>1, <1>2 DEF IsEntry, SameEntry, Moved

Marked(t, v, b) == [t EXCEPT !.verified = v, !.borrowed = b]

LEMMA EntryMarked ==
    ASSUME NEW t, IsEntry(t), NEW v \in BOOLEAN, NEW b \in BOOLEAN, NEW r, r = Marked(t, v, b)
    PROVE  /\ IsEntry(r) /\ SameEntry(t, r) /\ r.verified = v /\ r.borrowed = b
           /\ r.invocation = t.invocation
  <1>1. r = [invocation |-> t.invocation, verified |-> v, borrowed |-> b,
            source |-> t.source, nonce |-> t.nonce, expiration |-> t.expiration,
            signatures |-> t.signatures]
    BY DEF IsEntry, Marked
  <1>2. /\ r.invocation = t.invocation /\ r.verified = v /\ r.borrowed = b /\ r.source = t.source
        /\ r.nonce = t.nonce /\ r.expiration = t.expiration /\ r.signatures = t.signatures
    BY <1>1
  <1>. QED  BY <1>1, <1>2 DEF IsEntry, SameEntry

\* A manager with other fields.
LEMMA ManagerLemma ==
    ASSUME NEW m, IsManager(m), NEW c, NEW v, NEW h, NEW a, NEW r,
           r = [recording |-> m.recording, call_stack |-> c, invoker |-> v, by_handle |-> h,
                account |-> a]
    PROVE  /\ IsManager(r) /\ r.recording = m.recording
           /\ r.account = a /\ r.invoker = v /\ r.call_stack = c /\ r.by_handle = h
  <1>1. /\ r.recording = m.recording /\ r.account = a /\ r.invoker = v /\ r.call_stack = c
        /\ r.by_handle = h
    OBVIOUS
  <1>. QED  BY <1>1 DEF IsManager

MovedEntry(t, r) == r = t \/ \E v : Moved(t.invocation, v) /\ r = [t EXCEPT !.invocation = v]

LEMMA AccountLemma ==
    ASSUME NEW m, AccountsOK(m), NEW r, DOMAIN r.account = DOMAIN m.account,
           \A k \in DOMAIN m.account : MovedEntry(m.account[k], r.account[k])
    PROVE  SameEntries(m, r) /\ SameStatus(m, r)
  <1>1. ASSUME NEW k \in DOMAIN m.account
        PROVE  /\ IsEntry(r.account[k]) /\ SameEntry(m.account[k], r.account[k])
               /\ r.account[k].verified = m.account[k].verified
               /\ r.account[k].borrowed = m.account[k].borrowed
    <2>. DEFINE t == m.account[k]
                u == r.account[k]
    <2>1. IsEntry(t) /\ MovedEntry(t, u)
      BY DEF AccountsOK
    <2>. SUFFICES /\ IsEntry(u) /\ SameEntry(t, u)
                  /\ u.verified = t.verified /\ u.borrowed = t.borrowed
      OBVIOUS
    <2>. HIDE DEF t, u
    <2>2. CASE u = t
      BY <2>1, <2>2, EntryLemma
    <2>3. CASE u # t
      <3>1. PICK v : Moved(t.invocation, v) /\ u = [t EXCEPT !.invocation = v]
        BY <2>1, <2>3, Zenon DEF MovedEntry
      <3>. QED  BY <2>1, <3>1, EntryMoved
    <2>. QED  BY <2>2, <2>3
  <1>2. AccountsOK(r)
    BY <1>1 DEF AccountsOK
  <1>. QED  BY <1>1, <1>2 DEF SameEntries, SameStatus

LEMMA FreeLemma ==
    ASSUME NEW m, AccountsOK(m), NEW r,
           \/ r.account = OnFree(push_frame, m.account)
           \/ r.account = OnFree(pop_frame, m.account)
    PROVE  SameEntries(m, r) /\ SameStatus(m, r)
  <1>1. DOMAIN r.account = DOMAIN m.account
    BY DEF OnFree
  <1>2. ASSUME NEW k \in DOMAIN m.account
        PROVE  MovedEntry(m.account[k], r.account[k])
    <2>. DEFINE v == m.account[k].invocation
    <2>1. Moved(v, push_frame(v)) /\ Moved(v, pop_frame(v))
      BY MoveLemma DEF AccountsOK, IsEntry
    <2>2. \/ r.account[k] = m.account[k]
          \/ r.account[k] = [m.account[k] EXCEPT !.invocation = push_frame(v)]
          \/ r.account[k] = [m.account[k] EXCEPT !.invocation = pop_frame(v)]
      BY DEF OnFree
    <2>. HIDE DEF v
    <2>3. \/ r.account[k] = m.account[k]
          \/ \E x : Moved(v, x) /\ r.account[k] = [m.account[k] EXCEPT !.invocation = x]
      BY <2>1, <2>2, Zenon
    <2>. QED  BY <2>3, Zenon DEF MovedEntry, v
  <1>. QED  BY <1>1, <1>2, AccountLemma

LEMMA PushLemma ==
    ASSUME NEW m, IsManager(m), NEW fn
    PROVE  /\ SameManager(m, PushCall(m, fn))
           /\ PushCall(m, fn).call_stack = Append(m.call_stack, fn)
           /\ PushCall(m, fn).account = OnFree(push_frame, m.account)
  <1>. DEFINE c == Append(m.call_stack, fn)
              a == OnFree(push_frame, m.account)
              v == [i \in DOMAIN m.invoker |-> push_frame(m.invoker[i])]
              q == [m EXCEPT !.call_stack = c]
              r == PushCall(m, fn)
  <1>1. q = [recording |-> m.recording, call_stack |-> c, invoker |-> m.invoker,
             by_handle |-> m.by_handle, account |-> m.account]
    <2>. HIDE DEF c
    <2>. QED  BY DEF IsManager
  <1>2. q.account = m.account /\ q.invoker = m.invoker
    BY <1>1
  <1>3. r = [q EXCEPT !.account = a, !.invoker = v]
    <2>1. r = push_tracker_frame(q)
      BY DEF PushCall
    <2>2. push_tracker_frame(q) =
            [q EXCEPT !.account = OnFree(push_frame, q.account),
                      !.invoker = [i \in DOMAIN q.invoker |-> push_frame(q.invoker[i])]]
      <3>. HIDE DEF q
      <3>. QED  BY DEF push_tracker_frame
    <2>. HIDE DEF q, r
    <2>. QED  BY <1>2, <2>1, <2>2, Zenon
  <1>. SUFFICES SameManager(m, r) /\ r.call_stack = c /\ r.account = a
    OBVIOUS
  <1>. HIDE DEF c, a, v, q, r
  <1>4. r = [recording |-> m.recording, call_stack |-> c, invoker |-> v,
             by_handle |-> m.by_handle, account |-> a]
    BY <1>1, <1>3
  <1>5. IsManager(r) /\ r.recording = m.recording /\ r.account = a /\ r.call_stack = c
    BY <1>4, ManagerLemma
  <1>6. r.account = OnFree(push_frame, m.account)
    BY <1>5 DEF a
  <1>7. AccountsOK(m) => SameEntries(m, r) /\ SameStatus(m, r)
    BY <1>6, FreeLemma
  <1>. QED  BY <1>5, <1>7 DEF SameManager

LEMMA PopLemma ==
    ASSUME NEW m, IsManager(m)
    PROVE  /\ SameManager(m, PopCall(m))
           /\ m.call_stack # <<>> =>
                 /\ PopCall(m).call_stack = Front(m.call_stack)
                 /\ PopCall(m).account = OnFree(pop_frame, m.account)
  <1>. DEFINE c == Front(m.call_stack)
              a == OnFree(pop_frame, m.account)
              v == InScope([i \in DOMAIN m.invoker |-> pop_frame(m.invoker[i])])
              r == PopCall(m)
  <1>1. CASE m.call_stack = <<>>
    <2>1. r = m
      BY <1>1 DEF PopCall
    <2>2. AccountsOK(m) => SameEntries(m, m) /\ SameStatus(m, m)
      BY AccountLemma DEF MovedEntry
    <2>. QED  BY <1>1, <2>1, <2>2 DEF SameManager
  <1>2. CASE m.call_stack # <<>>
    <2>1. r = [m EXCEPT !.call_stack = c, !.account = a, !.invoker = v]
      BY <1>2, Zenon DEF PopCall
    <2>. SUFFICES SameManager(m, r) /\ r.call_stack = c /\ r.account = a
      OBVIOUS
    <2>. HIDE DEF c, a, v, r
    <2>2. r = [recording |-> m.recording, call_stack |-> c, invoker |-> v,
               by_handle |-> m.by_handle, account |-> a]
      BY <2>1 DEF IsManager
    <2>3. IsManager(r) /\ r.recording = m.recording /\ r.account = a /\ r.call_stack = c
      BY <2>2, ManagerLemma
    <2>4. r.account = OnFree(pop_frame, m.account)
      BY <2>3 DEF a
    <2>5. AccountsOK(m) => SameEntries(m, r) /\ SameStatus(m, r)
      BY <2>4, FreeLemma
    <2>. QED  BY <2>3, <2>5 DEF SameManager
  <1>. QED  BY <1>1, <1>2

LEMMA SameLemma ==
    ASSUME NEW m, IsManager(m)
    PROVE  SameManager(m, m)
  <1>1. AccountsOK(m) => SameEntries(m, m) /\ SameStatus(m, m)
    BY AccountLemma DEF MovedEntry
  <1>. QED  BY <1>1 DEF SameManager

LEMMA SameTransitive ==
    ASSUME NEW m, NEW r, NEW q, SameManager(m, r), SameManager(r, q)
    PROVE  SameManager(m, q)
  <1>1. ASSUME AccountsOK(m)
        PROVE  SameEntries(m, q) /\ SameStatus(m, q)
    <2>1. SameEntries(m, r) /\ SameStatus(m, r)
      BY <1>1 DEF SameManager
    <2>2. SameEntries(r, q) /\ SameStatus(r, q)
      BY <2>1 DEF SameManager, SameEntries
    <2>. QED  BY <2>1, <2>2 DEF SameEntries, SameStatus, SameEntry
  <1>. QED  BY <1>1 DEF SameManager

\* One entry of the account trackers is replaced.
WithEntry(m, i, x) == [m EXCEPT !.account[i] = x]

LEMMA AccountExcept ==
    ASSUME NEW m, IsManager(m), NEW i \in DOMAIN m.account, NEW x, NEW r,
           r = WithEntry(m, i, x)
    PROVE  /\ IsManager(r) /\ r.recording = m.recording /\ r.call_stack = m.call_stack
           /\ DOMAIN r.account = DOMAIN m.account
           /\ r.account[i] = x
           /\ \A k \in DOMAIN m.account : k # i => r.account[k] = m.account[k]
  <1>. DEFINE a == [m.account EXCEPT ![i] = x]
  <1>1. DOMAIN a = DOMAIN m.account /\ a[i] = x /\ \A k \in DOMAIN m.account : k # i => a[k] = m.account[k]
    OBVIOUS
  <1>2. r = [m EXCEPT !.account = a]
    BY DEF WithEntry
  <1>. HIDE DEF a
  <1>3. r = [recording |-> m.recording, call_stack |-> m.call_stack, invoker |-> m.invoker,
             by_handle |-> m.by_handle, account |-> a]
    BY <1>2 DEF IsManager
  <1>4. IsManager(r) /\ r.recording = m.recording /\ r.account = a /\ r.call_stack = m.call_stack
    BY <1>3, ManagerLemma
  <1>. QED  BY <1>1, <1>4

LEMMA AccountMoved ==
    ASSUME NEW m, IsManager(m), NEW i \in DOMAIN m.account, NEW v, NEW r,
           AccountsOK(m) => Moved(m.account[i].invocation, v),
           r = WithEntry(m, i, [m.account[i] EXCEPT !.invocation = v])
    PROVE  SameManager(m, r) /\ DOMAIN r.account = DOMAIN m.account
  <1>. DEFINE x == [m.account[i] EXCEPT !.invocation = v]
  <1>1. r = WithEntry(m, i, x)
    OBVIOUS
  <1>. HIDE DEF x
  <1>2. /\ IsManager(r) /\ r.recording = m.recording
        /\ DOMAIN r.account = DOMAIN m.account
        /\ r.account[i] = x
        /\ \A k \in DOMAIN m.account : k # i => r.account[k] = m.account[k]
    BY <1>1, AccountExcept
  <1>3. AccountsOK(m) => MovedEntry(m.account[i], r.account[i])
    BY <1>2, Zenon DEF MovedEntry, x
  <1>4. \A k \in DOMAIN m.account : k # i => MovedEntry(m.account[k], r.account[k])
    BY <1>2 DEF MovedEntry
  <1>5. AccountsOK(m) => SameEntries(m, r) /\ SameStatus(m, r)
    BY <1>2, <1>3, <1>4, AccountLemma
  <1>. QED  BY <1>2, <1>5 DEF SameManager

LEMMA InvokerExcept ==
    ASSUME NEW m, IsManager(m), NEW v, NEW r, r = [m EXCEPT !.invoker = v]
    PROVE  SameManager(m, r) /\ r.account = m.account /\ r.call_stack = m.call_stack
  <1>1. r = [recording |-> m.recording, call_stack |-> m.call_stack, invoker |-> v,
             by_handle |-> m.by_handle, account |-> m.account]
    BY DEF IsManager
  <1>2. /\ IsManager(r) /\ r.recording = m.recording /\ r.account = m.account
        /\ r.call_stack = m.call_stack
    BY <1>1, ManagerLemma
  <1>3. AccountsOK(m) => SameEntries(m, r) /\ SameStatus(m, r)
    BY <1>2, AccountLemma DEF MovedEntry
  <1>. QED  BY <1>2, <1>3 DEF SameManager

\* The manager after entry i of the address matched a call of fn.
UsesEntry(m, i, address, fn, q) ==
    /\ m.account[i].invocation.address = address
    /\ \E v, allow :
          /\ v = maybe_extend_invocation_match(m.account[i].invocation, fn, allow)
          /\ v # m.account[i].invocation
          /\ q = WithEntry(m, i, [m.account[i] EXCEPT !.invocation = v])

LEMMA EnforcingLemma ==
    ASSUME NEW m, IsManager(m), AccountsOK(m), NEW address, NEW fn, NEW r,
           r = require_auth_enforcing(m, address, fn)
    PROVE  /\ SameManager(m, r.am)
           /\ r.out \in {"denied", "ok", "authenticate"}
           /\ r.out = "denied" => r.tracker = 0
           /\ r.out # "denied" =>
                 /\ r.tracker \in DOMAIN m.account
                 /\ ~m.account[r.tracker].borrowed
                 /\ m.account[r.tracker].verified <=> r.out = "ok"
                 /\ UsesEntry(m, r.tracker, address, fn, r.am)
  <1>. DEFINE allow == ~HasActiveTracker(m, address)
              E(i) == maybe_extend_invocation_match(m.account[i].invocation, fn, allow)
              matches == {i \in DOMAIN m.account :
                            /\ ~m.account[i].borrowed
                            /\ m.account[i].invocation.address = address
                            /\ E(i) # m.account[i].invocation}
              i == Lowest(matches)
              a == [m EXCEPT !.account[i].invocation = E(i)]
              o == IF m.account[i].verified THEN "ok" ELSE "authenticate"
  <1>1. r = IF matches = {} THEN Result(m, "denied", 0) ELSE Result(a, o, i)
    BY Zenon DEF require_auth_enforcing
  <1>2. ASSUME NEW k \in DOMAIN m.account
        PROVE  Moved(m.account[k].invocation, E(k))
    BY ExtendLemma DEF AccountsOK, IsEntry
  <1>3. matches \subseteq DOMAIN m.account /\ \A k \in matches : /\ ~m.account[k].borrowed
                                                           /\ m.account[k].invocation.address = address
                                                           /\ E(k) # m.account[k].invocation
    OBVIOUS
  <1>. HIDE DEF E, matches
  <1>4. CASE matches = {}
    <2>1. r = [am |-> m, out |-> "denied", tracker |-> 0]
      BY <1>1, <1>4 DEF Result
    <2>. QED  BY <2>1, SameLemma
  <1>5. CASE matches # {}
    <2>1. matches \in SUBSET Nat
      BY <1>3 DEF AccountsOK
    <2>2. i \in matches
      BY <1>5, <2>1, LowestLemma
    <2>. HIDE DEF i
    <2>3. i \in DOMAIN m.account /\ ~m.account[i].borrowed /\ Moved(m.account[i].invocation, E(i))
      BY <1>2, <1>3, <2>2
    <2>4. SameManager(m, a)
      <3>1. a = WithEntry(m, i, [m.account[i] EXCEPT !.invocation = E(i)])
        BY DEF WithEntry
      <3>. HIDE DEF a
      <3>. QED  BY <2>3, <3>1, AccountMoved
    <2>8. UsesEntry(m, i, address, fn, a)
      <3>1. /\ E(i) = maybe_extend_invocation_match(m.account[i].invocation, fn, allow)
            /\ E(i) # m.account[i].invocation /\ m.account[i].invocation.address = address
        BY <1>3, <2>2, Zenon DEF E
      <3>2. a = WithEntry(m, i, [m.account[i] EXCEPT !.invocation = E(i)])
        BY DEF WithEntry
      <3>. HIDE DEF a, allow
      <3>. QED  BY <3>1, <3>2, Zenon DEF UsesEntry
    <2>5. /\ o \in {"ok", "authenticate"}
          /\ m.account[i].verified <=> o = "ok"
      OBVIOUS
    <2>. HIDE DEF a, o, allow
    <2>6. r = [am |-> a, out |-> o, tracker |-> i]
      BY <1>1, <1>5 DEF Result
    <2>7. r.am = a /\ r.out = o /\ r.tracker = i
      BY <2>6
    <2>. QED  BY <2>3, <2>4, <2>5, <2>7, <2>8
  <1>. QED  BY <1>4, <1>5

LEMMA ResultLemma ==
    ASSUME NEW m, NEW o, NEW i
    PROVE  Result(m, o, i).am = m /\ Result(m, o, i).out = o /\ Result(m, o, i).tracker = i
  BY DEF Result

LEMMA RecordingLemma ==
    ASSUME NEW m, IsManager(m), NEW object, NEW address, NEW fn, NEW source, NEW disable, NEW r,
           r = require_auth_recording(m, object, address, fn, source, disable)
    PROVE  /\ IsManager(r.am) /\ r.am.recording = m.recording
           /\ r.out \in {"denied", "ok", "recorded"} /\ r.tracker = 0
  <1>. DEFINE use == RecordingTracker(m, object, address)
              i == Lowest(use)
              h == IF object \in DOMAIN m.by_handle /\ use # {m.by_handle[object]}
                   THEN [o \in DOMAIN m.by_handle \ {object} |-> m.by_handle[o]] ELSE m.by_handle
              c == [m EXCEPT !.by_handle = h]
  <1>1. \/ r = Result(c, "denied", 0)
        \/ r = Result([c EXCEPT !.account[i].invocation = record_invocation(c.account[i].invocation, fn)],
                      "ok", 0)
        \/ r = Result([c EXCEPT
                          !.account = Append(c.account, new_recording_tracker(m, address, fn, source)),
                          !.by_handle = c.by_handle @@ (object :> Len(m.account) + 1)], "recorded", 0)
    BY Zenon DEF require_auth_recording
  <1>2. IsManager(c) /\ c.recording = m.recording
    <2>. HIDE DEF h
    <2>1. c = [recording |-> m.recording, call_stack |-> m.call_stack, invoker |-> m.invoker,
               by_handle |-> h, account |-> m.account]
      BY DEF IsManager
    <2>. HIDE DEF c
    <2>. QED  BY <2>1, ManagerLemma
  <1>. HIDE DEF use, i, h, c
  <1>3. ASSUME NEW a, NEW b, NEW q, q = [c EXCEPT !.account = a, !.by_handle = b]
        PROVE  IsManager(q) /\ q.recording = m.recording
    <2>1. q = [recording |-> c.recording, call_stack |-> c.call_stack, invoker |-> c.invoker,
               by_handle |-> b, account |-> a]
      BY <1>2, <1>3 DEF IsManager
    <2>. QED  BY <1>2, <2>1, ManagerLemma
  <1>4. ASSUME NEW a, NEW q, q = [c EXCEPT !.account = a]
        PROVE  IsManager(q) /\ q.recording = m.recording
    <2>1. q = [recording |-> c.recording, call_stack |-> c.call_stack, invoker |-> c.invoker,
               by_handle |-> c.by_handle, account |-> a]
      BY <1>2, <1>4 DEF IsManager
    <2>. QED  BY <1>2, <2>1, ManagerLemma
  <1>5. CASE r = Result(c, "denied", 0)
    BY <1>2, <1>5, ResultLemma
  <1>6. CASE r = Result([c EXCEPT !.account[i].invocation = record_invocation(c.account[i].invocation, fn)],
                        "ok", 0)
    <2>. DEFINE a == [c.account EXCEPT ![i] = [c.account[i] EXCEPT
                        !.invocation = record_invocation(c.account[i].invocation, fn)]]
                q == [c EXCEPT !.account = a]
    <2>1. r = Result(q, "ok", 0)
      BY <1>6
    <2>. HIDE DEF a
    <2>2. IsManager(q) /\ q.recording = m.recording
      BY <1>4
    <2>. HIDE DEF q
    <2>. QED  BY <2>1, <2>2, ResultLemma
  <1>7. CASE r = Result([c EXCEPT
                          !.account = Append(c.account, new_recording_tracker(m, address, fn, source)),
                          !.by_handle = c.by_handle @@ (object :> Len(m.account) + 1)], "recorded", 0)
    <2>. DEFINE a == Append(c.account, new_recording_tracker(m, address, fn, source))
                b == c.by_handle @@ (object :> Len(m.account) + 1)
                q == [c EXCEPT !.account = a, !.by_handle = b]
    <2>1. r = Result(q, "recorded", 0)
      BY <1>7, Zenon
    <2>. HIDE DEF a, b
    <2>2. IsManager(q) /\ q.recording = m.recording
      BY <1>3
    <2>. HIDE DEF q
    <2>. QED  BY <2>1, <2>2, ResultLemma
  <1>. QED  BY <1>1, <1>5, <1>6, <1>7

\* require_auth uses an entry that can be used, and changes only what trackers matched.
LEMMA AuthLemma ==
    ASSUME NEW m, IsManager(m), NEW object, NEW fn, NEW r, r = AuthResult(m, object, fn)
    PROVE  /\ m.recording =>
                 /\ IsManager(r.am) /\ r.am.recording
                 /\ r.out \in {"denied", "ok", "recorded", "internal"} /\ r.tracker = 0
           /\ ~m.recording /\ AccountsOK(m) =>
                 /\ SameManager(m, r.am)
                 /\ r.out \in {"denied", "ok", "authenticate", "internal"}
                 /\ r.out = "authenticate" \/ (r.out = "ok" /\ r.tracker # 0) =>
                       /\ r.tracker \in DOMAIN m.account
                       /\ ~m.account[r.tracker].borrowed
                       /\ m.account[r.tracker].verified <=> r.out = "ok"
                       /\ UsesEntry(m, r.tracker, AddressOf[object], fn, r.am)
                 /\ r.out = "ok" /\ r.tracker = 0 =>
                       r.am.account = m.account /\ r.am.call_stack = m.call_stack
  <1>. DEFINE address == AddressOf[object]
              i == Lowest(InvokerMatches(m, address, fn))
  <1>1. \/ r = Result(m, "ok", 0)
        \/ r = maybe_check_invoker_contract_auth(m, i, fn)
        \/ m.recording /\ r = require_auth_recording(m, object, address, fn, address = Source, DisableNonRoot)
        \/ ~m.recording /\ r = require_auth_enforcing(m, address, fn)
    BY Zenon DEF AuthResult
  <1>. HIDE DEF address, i
  <1>3. CASE r = Result(m, "ok", 0)
    BY <1>3, SameLemma, ResultLemma DEF SameManager
  <1>4. CASE r = maybe_check_invoker_contract_auth(m, i, fn)
    <2>1. CASE r = Result(m, "internal", 0)
      BY <2>1, SameLemma, ResultLemma DEF SameManager
    <2>2. CASE r # Result(m, "internal", 0)
      <3>. DEFINE v == [m.invoker EXCEPT ![i] = maybe_extend_invocation_match(m.invoker[i], fn, TRUE)]
                  q == [m EXCEPT !.invoker = v]
      <3>1. r = Result(q, "ok", 0)
        BY <1>4, <2>2, Zenon DEF maybe_check_invoker_contract_auth
      <3>. HIDE DEF v
      <3>2. SameManager(m, q) /\ q.account = m.account /\ q.call_stack = m.call_stack
        BY InvokerExcept
      <3>. HIDE DEF q
      <3>. QED  BY <3>1, <3>2, ResultLemma DEF SameManager
    <2>. QED  BY <2>1, <2>2
  <1>5. CASE m.recording /\ r = require_auth_recording(m, object, address, fn, address = Source, DisableNonRoot)
    BY <1>5, RecordingLemma
  <1>6. CASE ~m.recording /\ r = require_auth_enforcing(m, address, fn)
    <2>1. ~m.recording /\ r = require_auth_enforcing(m, address, fn)
      BY <1>6
    <2>2. 0 \notin DOMAIN m.account \/ ~AccountsOK(m)
      BY DEF AccountsOK
    <2>. QED  BY <2>1, <2>2, EnforcingLemma DEF address
  <1>. QED  BY <1>1, <1>3, <1>4, <1>5, <1>6

(***************************************************************************)
(* The stack: frames pushed, popped, and granted something.                *)
(***************************************************************************)

SameFrame(f, g) ==
    /\ IsFrame(g) /\ g.kind = f.kind /\ g.fn = f.fn /\ g.tracker = f.tracker /\ g.snap = f.snap
    /\ g.nonces = f.nonces

\* The first d frames of the stack, up to what they were granted.
Below(r, stack, d) ==
    /\ IsSequence(r) /\ Len(r) = d
    /\ \A i \in 1..d : SameFrame(stack[i], r[i])

LEMMA BackedLemma ==
    ASSUME NEW n, NEW n2, NEW l, NEW s, Extends(n2, n)
    PROVE  /\ \A k, e : Backed(n, l, s, k, e) => Backed(n2, l, s, k, e)
           /\ \A t : EntryBacked(t, n, l, s) => EntryBacked(t, n2, l, s)
           /\ \A g : GrantBacked(g, n, l, s) => GrantBacked(g, n2, l, s)
           /\ Extends(n, l) => Extends(n2, l)
  <1>1. \A k, e : Backed(n, l, s, k, e) => Backed(n2, l, s, k, e)
    BY DEF Backed, Extends
  <1>2. Extends(n, l) => Extends(n2, l)
    BY DEF Extends
  <1>. QED  BY <1>1, <1>2 DEF EntryBacked, GrantBacked

LEMMA StackBelow ==
    ASSUME NEW stack, NEW n, NEW l, StackOK(stack, n, l), NEW d \in 0..Len(stack),
           NEW r, Below(r, stack, d), NEW n2, d = 0 => n2 = l
    PROVE  StackOK(r, n2, l)
  <1>1. Len(stack) \in Nat /\ DOMAIN stack = 1..Len(stack) /\ IsSequence(stack)
    BY SequenceLemma DEF StackOK
  <1>2. IsSequence(r) /\ Len(r) = d /\ DOMAIN r = 1..d
    BY SequenceLemma DEF Below
  <1>3. r = <<>> <=> d = 0
    BY <1>1, <1>2, SequenceLemma
  <1>4. \A i \in DOMAIN r : IsFrame(r[i]) /\ (r[i].kind = "host_fn" <=> i = 1)
    BY <1>1, <1>2 DEF Below, SameFrame, StackOK
  <1>5. r # <<>> => r[1].nonces = l
    <2>. HAVE r # <<>>
    <2>1. 1 \in 1..d /\ stack # <<>>
      BY <1>1, <1>3, SequenceLemma
    <2>. QED  BY <2>1 DEF Below, SameFrame, StackOK
  <1>. QED  BY <1>2, <1>3, <1>4, <1>5 DEF StackOK

LEMMA GrantsBelow ==
    ASSUME NEW stack, NEW n, NEW l, NEW s, IsSequence(stack), GrantsOK(stack, n, l, s),
           NEW d \in 0..Len(stack), NEW r, Below(r, stack, d),
           NEW n2, NoncesOK(n2), Extends(n2, l),
           \A i \in 1..d : \A g \in stack[i].grants : GrantBacked(g, n2, l, s),
           \A i \in 1..d : \A g \in r[i].grants :
              g \in stack[i].grants \/ (i = d /\ GrantBacked(g, n2, l, s))
    PROVE  GrantsOK(r, n2, l, s)
  <1>1. Len(stack) \in Nat /\ DOMAIN stack = 1..Len(stack)
    BY SequenceLemma
  <1>2. DOMAIN r = 1..d /\ 1..d \subseteq DOMAIN stack
    BY <1>1, SequenceLemma DEF Below
  <1>3. \A i \in DOMAIN r : Extends(r[i].nonces, l) /\ NoncesOK(r[i].nonces)
    BY <1>2 DEF Below, SameFrame, GrantsOK
  <1>4. ASSUME NEW i \in DOMAIN r, NEW g \in r[i].grants
        PROVE  /\ GrantBacked(g, n2, l, s)
               /\ \A j \in DOMAIN r : i < j => GrantBacked(g, r[j].nonces, l, s)
    <2>1. CASE g \in stack[i].grants
      BY <1>2, <2>1 DEF Below, SameFrame, GrantsOK
    <2>2. CASE g \notin stack[i].grants
      BY <1>1, <1>2, <2>2
    <2>. QED  BY <2>1, <2>2
  <1>. QED  BY <1>3, <1>4 DEF GrantsOK

LEMMA PushStack ==
    ASSUME NEW stack, NEW n, NEW l, NEW s, StackOK(stack, n, l), stack # <<>>,
           NEW f, IsFrame(f), f.kind # "host_fn", f.grants = {}, f.nonces = n
    PROVE  /\ StackOK(Append(stack, f), n, l)
           /\ GrantsOK(stack, n, l, s) => GrantsOK(Append(stack, f), n, l, s)
           /\ NoGrants(stack) /\ f.kind # "check_auth" => NoGrants(Append(stack, f))
  <1>. DEFINE r == Append(stack, f)
  <1>1. /\ IsSequence(stack) /\ Len(stack) \in Nat /\ Len(stack) > 0
        /\ DOMAIN stack = 1..Len(stack)
    BY SequenceLemma DEF StackOK
  <1>2. /\ IsSequence(r) /\ r # <<>> /\ Len(r) = Len(stack) + 1
        /\ \A i \in 1..Len(stack) : r[i] = stack[i]
        /\ r[Len(stack) + 1] = f
    BY <1>1, AppendLemma
  <1>. HIDE DEF r
  <1>3. DOMAIN r = 1..Len(stack) + 1
    BY <1>2, SequenceLemma
  <1>4. ASSUME NEW i \in DOMAIN r
        PROVE  (i \in DOMAIN stack /\ r[i] = stack[i]) \/ (i = Len(stack) + 1 /\ r[i] = f)
    BY <1>1, <1>2, <1>3
  <1>5. \A i \in DOMAIN r : IsFrame(r[i]) /\ (r[i].kind = "host_fn" <=> i = 1)
    BY <1>1, <1>4 DEF StackOK
  <1>6. r[1].nonces = l
    BY <1>1, <1>2 DEF StackOK
  <1>7. StackOK(r, n, l)
    BY <1>2, <1>5, <1>6 DEF StackOK
  <1>8. ASSUME GrantsOK(stack, n, l, s)
        PROVE  GrantsOK(r, n, l, s)
    <2>1. Extends(n, l) /\ NoncesOK(n) /\ \A i \in DOMAIN r : Extends(r[i].nonces, l) /\ NoncesOK(r[i].nonces)
      BY <1>4, <1>8 DEF GrantsOK
    <2>2. ASSUME NEW i \in DOMAIN r, NEW g \in r[i].grants
          PROVE  /\ GrantBacked(g, n, l, s)
                 /\ \A j \in DOMAIN r : i < j => GrantBacked(g, r[j].nonces, l, s)
      <3>1. i \in DOMAIN stack /\ g \in stack[i].grants
        BY <1>4, <2>2
      <3>2. GrantBacked(g, n, l, s)
        BY <1>8, <3>1 DEF GrantsOK
      <3>3. ASSUME NEW j \in DOMAIN r, i < j
            PROVE  GrantBacked(g, r[j].nonces, l, s)
        BY <1>4, <1>8, <3>1, <3>2, <3>3 DEF GrantsOK
      <3>. QED  BY <3>2, <3>3
    <2>. QED  BY <2>1, <2>2 DEF GrantsOK
  <1>9. NoGrants(stack) /\ f.kind # "check_auth" => NoGrants(r)
    BY <1>4 DEF NoGrants
  <1>. QED  BY <1>7, <1>8, <1>9 DEF r

LEMMA SameBacked ==
    ASSUME NEW t, NEW r, SameEntry(t, r), NEW n, NEW l, NEW s
    PROVE  EntryBacked(t, n, l, s) <=> EntryBacked(r, n, l, s)
  BY DEF SameEntry, EntryBacked, NonceKey

\* The borrowed entries are those that are checked.
LEMMA BorrowedLemma ==
    ASSUME NEW m, NEW stack, NEW n, NEW l, NEW s, TrackersOK(m, stack, n, l, s),
           NEW k \in DOMAIN m.account
    PROVE  m.account[k].borrowed <=> \E j \in DOMAIN stack : Checks(stack[j], k)
  BY DEF TrackersOK, Checks

\* The trackers after frames were popped, or none.
LEMMA TrackersBelow ==
    ASSUME NEW m, NEW stack, NEW n, NEW l, NEW s, IsSequence(stack), TrackersOK(m, stack, n, l, s),
           NEW d \in 0..Len(stack), NEW r, Below(r, stack, d), NEW q, SameEntries(m, q), NEW n2,
           \A k \in DOMAIN m.account :
              /\ q.account[k].verified => EntryBacked(q.account[k], n2, l, s)
              /\ q.account[k].borrowed => ~q.account[k].verified
              /\ q.account[k].borrowed <=> \E j \in 1..d : Checks(stack[j], k)
    PROVE  TrackersOK(q, r, n2, l, s)
  <1>1. Len(stack) \in Nat /\ DOMAIN stack = 1..Len(stack)
    BY SequenceLemma
  <1>2. DOMAIN r = 1..d /\ 1..d \subseteq DOMAIN stack
    BY <1>1, SequenceLemma DEF Below
  <1>3. DOMAIN q.account = DOMAIN m.account /\ AccountsOK(q)
    BY DEF SameEntries
  <1>4. ASSUME NEW i \in DOMAIN r
        PROVE  /\ i \in DOMAIN stack /\ r[i].kind = stack[i].kind /\ r[i].tracker = stack[i].tracker
               /\ r[i].snap = stack[i].snap /\ r[i].nonces = stack[i].nonces
               /\ \A k : Checks(r[i], k) <=> Checks(stack[i], k)
    BY <1>2 DEF Below, SameFrame, Checks
  <1>5. ASSUME NEW k \in DOMAIN m.account
        PROVE  /\ q.account[k].verified => EntryBacked(q.account[k], n2, l, s)
               /\ q.account[k].borrowed =>
                     ~q.account[k].verified /\ \E j \in DOMAIN r : Checks(r[j], k)
    BY <1>2, <1>4
  <1>6. ASSUME NEW j \in DOMAIN r, r[j].kind = "check_auth"
        PROVE  r[j].tracker \in DOMAIN m.account /\ q.account[r[j].tracker].borrowed
    <2>1. stack[j].tracker \in DOMAIN m.account /\ Checks(stack[j], stack[j].tracker)
      BY <1>4, <1>6 DEF TrackersOK, Checks
    <2>. QED  BY <1>2, <1>4, <2>1
  <1>7. \A i, j \in DOMAIN r :
           r[i].kind = "check_auth" /\ r[j].kind = "check_auth" /\ r[i].tracker = r[j].tracker => i = j
    BY <1>4 DEF TrackersOK
  <1>8. ASSUME NEW j \in DOMAIN r
        PROVE  SnapshotOK(q, r, j, l, s)
    <2>1. SnapshotOK(m, stack, j, l, s)
      BY <1>4 DEF TrackersOK
    <2>2. ASSUME NEW k \in DOMAIN m.account
          PROVE  EntryBacked(m.account[k], stack[j].nonces, l, s) <=>
                 EntryBacked(q.account[k], stack[j].nonces, l, s)
      BY SameBacked DEF SameEntries
    <2>3. ASSUME NEW k
          PROVE  (\E i \in DOMAIN stack : i <= j /\ Checks(stack[i], k)) <=>
                 (\E i \in DOMAIN r : i <= j /\ Checks(r[i], k))
      <3>1. ASSUME NEW i \in DOMAIN stack, i <= j
            PROVE  i \in DOMAIN r
        BY <1>1, <1>2, <3>1
      <3>. QED  BY <1>4, <3>1
    <2>. QED  BY <1>3, <1>4, <2>1, <2>2, <2>3 DEF SnapshotOK
  <1>. QED  BY <1>3, <1>5, <1>6, <1>7, <1>8 DEF TrackersOK

LEMMA SnapshotLemma ==
    ASSUME NEW m
    PROVE  /\ DOMAIN snapshot(m).account = DOMAIN m.account
           /\ \A k \in DOMAIN m.account :
                 /\ snapshot(m).account[k].taken <=> ~m.account[k].borrowed
                 /\ snapshot(m).account[k].verified = m.account[k].verified
  BY DEF snapshot

\* The trackers after a frame was pushed.
LEMMA TrackersPush ==
    ASSUME NEW m, NEW stack, NEW n, NEW l, NEW s, IsSequence(stack), TrackersOK(m, stack, n, l, s),
           NEW q, SameEntries(m, q), NEW f, f.nonces = n, f.snap = snapshot(q),
           \A k \in DOMAIN m.account :
              /\ q.account[k].verified = m.account[k].verified
              /\ q.account[k].borrowed <=> m.account[k].borrowed \/ Checks(f, k),
           f.kind = "check_auth" =>
              /\ f.tracker \in DOMAIN m.account
              /\ ~m.account[f.tracker].borrowed /\ ~m.account[f.tracker].verified
    PROVE  TrackersOK(q, Append(stack, f), n, l, s)
  <1>. DEFINE r == Append(stack, f)
              d == Len(stack) + 1
  <1>1. Len(stack) \in Nat /\ DOMAIN stack = 1..Len(stack)
    BY SequenceLemma
  <1>2. /\ IsSequence(r) /\ Len(r) = d
        /\ \A i \in 1..Len(stack) : r[i] = stack[i]
        /\ r[d] = f
    BY <1>1, AppendLemma
  <1>. SUFFICES TrackersOK(q, r, n, l, s)
    OBVIOUS
  <1>. HIDE DEF r
  <1>3. DOMAIN r = 1..d /\ d \in DOMAIN r /\ d \notin DOMAIN stack /\ DOMAIN stack \subseteq DOMAIN r
    BY <1>1, <1>2, SequenceLemma
  <1>4. ASSUME NEW i \in DOMAIN r
        PROVE  (i \in DOMAIN stack /\ r[i] = stack[i] /\ i < d) \/ (i = d /\ r[i] = f)
    BY <1>1, <1>2, <1>3
  <1>0. d \in Nat
    BY <1>1
  <1>. HIDE DEF d
  <1>5. DOMAIN q.account = DOMAIN m.account /\ AccountsOK(q)
    BY DEF SameEntries
  <1>6. ASSUME NEW k \in DOMAIN m.account
        PROVE  /\ m.account[k].verified => EntryBacked(q.account[k], n, l, s)
               /\ \A x : EntryBacked(m.account[k], x, l, s) <=> EntryBacked(q.account[k], x, l, s)
    <2>1. \A x : EntryBacked(m.account[k], x, l, s) <=> EntryBacked(q.account[k], x, l, s)
      BY SameBacked DEF SameEntries
    <2>. QED  BY <2>1 DEF TrackersOK
  <1>7. ASSUME NEW k \in DOMAIN m.account
        PROVE  (\E j \in DOMAIN r : Checks(r[j], k)) <=> q.account[k].borrowed
    BY <1>2, <1>3, <1>4, BorrowedLemma
  <1>8. ASSUME NEW k \in DOMAIN m.account
        PROVE  /\ q.account[k].verified => EntryBacked(q.account[k], n, l, s)
               /\ q.account[k].borrowed =>
                     ~q.account[k].verified /\ \E j \in DOMAIN r : Checks(r[j], k)
    BY <1>6, <1>7 DEF TrackersOK, Checks
  <1>9. ASSUME NEW j \in DOMAIN r, r[j].kind = "check_auth"
        PROVE  r[j].tracker \in DOMAIN m.account /\ q.account[r[j].tracker].borrowed
    BY <1>4, <1>9 DEF TrackersOK, Checks
  <1>10. ASSUME NEW i \in DOMAIN r, NEW j \in DOMAIN r, r[i].kind = "check_auth", r[j].kind = "check_auth",
                r[i].tracker = r[j].tracker
         PROVE  i = j
    BY <1>4, <1>10 DEF TrackersOK, Checks
  <1>11. ASSUME NEW j \in DOMAIN r
         PROVE  SnapshotOK(q, r, j, l, s)
    <2>1. CASE j \in DOMAIN stack
      <3>1. SnapshotOK(m, stack, j, l, s)
        BY <2>1 DEF TrackersOK
      <3>2. r[j] = stack[j] /\ j < d /\ j \in Nat
        BY <1>1, <1>3, <1>4, <2>1
      <3>3. ASSUME NEW k
            PROVE  (\E i \in DOMAIN stack : i <= j /\ Checks(stack[i], k)) <=>
                   (\E i \in DOMAIN r : i <= j /\ Checks(r[i], k))
        BY <1>0, <1>3, <1>4, <3>2
      <3>. QED  BY <1>5, <1>6, <3>1, <3>2, <3>3 DEF SnapshotOK
    <2>2. CASE j = d
      <3>1. /\ DOMAIN r[j].snap.account = DOMAIN m.account
            /\ \A k \in DOMAIN m.account :
                 /\ r[j].snap.account[k].taken <=> ~q.account[k].borrowed
                 /\ r[j].snap.account[k].verified = q.account[k].verified
        BY <1>2, <1>5, <2>2, SnapshotLemma
      <3>2. \A i \in DOMAIN r : i <= j
        BY <1>0, <1>3, <2>2
      <3>3. r[j].nonces = n
        BY <1>2, <2>2
      <3>4. \A k \in DOMAIN m.account : q.account[k].verified \in BOOLEAN
        BY <1>5 DEF AccountsOK, IsEntry
      <3>. QED  BY <1>5, <1>7, <1>8, <3>1, <3>2, <3>3, <3>4 DEF SnapshotOK
    <2>. QED  BY <1>4, <2>1, <2>2
  <1>. QED  BY <1>5, <1>8, <1>9, <1>10, <1>11 DEF TrackersOK

LEMMA FrameLemma ==
    ASSUME NEW kind, NEW fn, NEW m, NEW i, NEW f, f = Frame(kind, fn, m, i)
    PROVE  /\ IsFrame(f) /\ f.kind = kind /\ f.fn = fn /\ f.tracker = i /\ f.snap = snapshot(m)
           /\ f.nonces = nonces /\ f.grants = {}
  <1>. DEFINE x == snapshot(m)
  <1>1. f = [kind |-> kind, fn |-> fn, tracker |-> i, snap |-> x, nonces |-> nonces,
             trace |-> trace, grants |-> {}]
    BY DEF Frame
  <1>. HIDE DEF x
  <1>2. /\ f.kind = kind /\ f.fn = fn /\ f.tracker = i /\ f.snap = x
        /\ f.nonces = nonces /\ f.trace = trace /\ f.grants = {}
    BY <1>1
  <1>. QED  BY <1>1, <1>2 DEF IsFrame, x

\* The stack with the top frame granted the nodes of x.
WithGrants(stack, x) == [stack EXCEPT ![Len(stack)].grants = @ \cup x]

LEMMA GrantedLemma ==
    ASSUME NEW stack, IsSequence(stack), stack # <<>>, \A i \in DOMAIN stack : IsFrame(stack[i]), NEW x
    PROVE  /\ Below(WithGrants(stack, x), stack, Len(stack))
           /\ \A i \in 1..Len(stack) : \A g \in WithGrants(stack, x)[i].grants :
                 g \in stack[i].grants \/ (i = Len(stack) /\ g \in x)
           /\ \A i \in 1..Len(stack) - 1 : WithGrants(stack, x)[i].grants = stack[i].grants
           /\ WithGrants(stack, x)[Len(stack)].grants = stack[Len(stack)].grants \cup x
  <1>. DEFINE d == Len(stack)
              y == stack[d].grants \cup x
              f == [stack[d] EXCEPT !.grants = y]
              r == WithGrants(stack, x)
  <1>1. /\ d \in Nat /\ d > 0 /\ DOMAIN stack = 1..d
        /\ stack = [i \in 1..d |-> stack[i]]
    BY SequenceLemma
  <1>2. r = [stack EXCEPT ![d] = f]
    BY DEF WithGrants
  <1>. HIDE DEF d, f, r
  <1>3. /\ r = [i \in 1..d |-> r[i]] /\ DOMAIN r = 1..d
        /\ r[d] = f /\ \A i \in 1..d : i # d => r[i] = stack[i]
    BY <1>1, <1>2
  <1>4. IsSequence(r) /\ Len(r) = d
    BY <1>1, <1>3, AnySequence
  <1>5. IsFrame(stack[d])
    BY <1>1
  <1>6. SameFrame(stack[d], f) /\ f.grants = y
    <2>. DEFINE g == stack[d]
    <2>. HIDE DEF y
    <2>1. f = [kind |-> g.kind, fn |-> g.fn, tracker |-> g.tracker, snap |-> g.snap,
               nonces |-> g.nonces, trace |-> g.trace, grants |-> y]
      BY <1>5 DEF IsFrame, f
    <2>2. /\ f.kind = g.kind /\ f.fn = g.fn /\ f.tracker = g.tracker /\ f.snap = g.snap
          /\ f.nonces = g.nonces /\ f.trace = g.trace /\ f.grants = y
      BY <2>1
    <2>. QED  BY <2>1, <2>2 DEF SameFrame, IsFrame
  <1>7. \A i \in 1..d : i # d => SameFrame(stack[i], stack[i])
    BY <1>1 DEF SameFrame
  <1>8. Below(r, stack, d)
    BY <1>1, <1>3, <1>4, <1>6, <1>7 DEF Below
  <1>9. \A i \in 1..d : \A g \in r[i].grants : g \in stack[i].grants \/ (i = d /\ g \in x)
    BY <1>3, <1>6 DEF y
  <1>10. r[d].grants = stack[d].grants \cup x
    BY <1>3, <1>6 DEF y
  <1>11. \A i \in 1..d - 1 : r[i].grants = stack[i].grants
    <2>1. \A i \in 1..d - 1 : i \in 1..d /\ i # d
      BY <1>1
    <2>. QED  BY <1>3, <2>1
  <1>. QED  BY <1>8, <1>9, <1>10, <1>11 DEF r, d

LEMMA BelowFront ==
    ASSUME NEW stack, IsSequence(stack), stack # <<>>, \A i \in DOMAIN stack : IsFrame(stack[i])
    PROVE  /\ Len(stack) - 1 \in 0..Len(stack)
           /\ Below(Front(stack), stack, Len(stack) - 1)
           /\ \A i \in 1..Len(stack) - 1 : Front(stack)[i] = stack[i]
  <1>1. Len(stack) \in Nat /\ Len(stack) > 0 /\ DOMAIN stack = 1..Len(stack)
    BY SequenceLemma
  <1>2. /\ IsSequence(Front(stack)) /\ Len(Front(stack)) = Len(stack) - 1
        /\ \A i \in 1..Len(stack) - 1 : Front(stack)[i] = stack[i]
    BY FrontLemma
  <1>3. \A i \in 1..Len(stack) - 1 : IsFrame(stack[i])
    BY <1>1
  <1>. QED  BY <1>1, <1>2, <1>3 DEF Below, SameFrame

LEMMA BelowSame ==
    ASSUME NEW stack, IsSequence(stack), \A i \in DOMAIN stack : IsFrame(stack[i])
    PROVE  Len(stack) \in 0..Len(stack) /\ Below(stack, stack, Len(stack))
  BY SequenceLemma DEF Below, SameFrame

\* Return: the frame below gets what the frame that returns was granted.
LEMMA PoppedLemma ==
    ASSUME IsSequence(frames), frames # <<>>, \A i \in DOMAIN frames : IsFrame(frames[i])
    PROVE  /\ Below(Popped, frames, Len(frames) - 1)
           /\ Top = frames[Len(frames)]
           /\ \A i \in 1..Len(frames) - 1 : \A g \in Popped[i].grants :
                 g \in frames[i].grants \/ (i = Len(frames) - 1 /\ g \in Top.grants)
           /\ Len(frames) > 1 =>
                 /\ \A i \in 1..Len(frames) - 2 : Popped[i].grants = frames[i].grants
                 /\ Popped[Len(frames) - 1].grants = frames[Len(frames) - 1].grants \cup Top.grants
  <1>. DEFINE d == Len(frames)
  <1>1. d \in Nat /\ d > 0 /\ DOMAIN frames = 1..d
    BY SequenceLemma
  <1>2. Top = frames[d]
    BY DEF Top, Last
  <1>3. /\ Below(Front(frames), frames, d - 1)
        /\ \A i \in 1..d - 1 : Front(frames)[i] = frames[i]
    BY BelowFront
  <1>4. CASE d = 1
    <2>1. Popped = <<>> /\ Front(frames) = <<>>
      BY <1>4, FrontLemma DEF Popped
    <2>. QED  BY <1>2, <1>3, <1>4, <2>1
  <1>5. CASE d # 1
    <2>. DEFINE r == Front(frames)
                x == Top.grants
    <2>1. IsSequence(r) /\ Len(r) = d - 1
      BY FrontLemma
    <2>2. Popped = WithGrants(r, x)
      BY <1>5, <2>1 DEF Popped, WithGrants
    <2>. HIDE DEF r, x
    <2>3. r # <<>> /\ DOMAIN r = 1..d - 1
      BY <1>1, <1>5, <2>1, SequenceLemma
    <2>4. \A i \in DOMAIN r : IsFrame(r[i])
      BY <1>3, <2>3 DEF Below, SameFrame, r
    <2>5. /\ Below(Popped, r, d - 1)
          /\ \A i \in 1..d - 1 : \A g \in Popped[i].grants :
                g \in r[i].grants \/ (i = d - 1 /\ g \in x)
          /\ \A i \in 1..(d - 1) - 1 : Popped[i].grants = r[i].grants
          /\ Popped[d - 1].grants = r[d - 1].grants \cup x
      <3>. DEFINE w == WithGrants(r, x)
      <3>1. /\ Below(w, r, Len(r))
            /\ \A i \in 1..Len(r) : \A g \in w[i].grants : g \in r[i].grants \/ (i = Len(r) /\ g \in x)
            /\ \A i \in 1..Len(r) - 1 : w[i].grants = r[i].grants
            /\ w[Len(r)].grants = r[Len(r)].grants \cup x
        BY <2>1, <2>3, <2>4, GrantedLemma
      <3>. HIDE DEF w
      <3>2. Popped = w
        BY <2>2 DEF w
      <3>. QED  BY <2>1, <3>1, <3>2, Zenon
    <2>6. /\ \A i \in 1..d - 2 : Popped[i].grants = frames[i].grants
          /\ Popped[d - 1].grants = frames[d - 1].grants \cup x
      <3>1. (d - 1) - 1 = d - 2 /\ d - 1 \in 1..d - 1 /\ \A i \in 1..d - 2 : i \in 1..d - 1
        BY <1>1, <1>5
      <3>. QED  BY <1>3, <2>5, <3>1, Zenon DEF r
    <2>. QED  BY <1>2, <1>3, <2>5, <2>6 DEF Below, SameFrame, r, x
  <1>. QED  BY <1>4, <1>5

(***************************************************************************)
(* Nonces, and the marks of an entry.                                      *)
(***************************************************************************)

LEMMA ConsumeLemma ==
    ASSUME NEW t, IsEntry(t), NonceOK(t), seq \in Nat, NoncesOK(nonces), Extends(nonces, ledger),
           NEW n, n = verify_and_consume_nonce(t, nonces, seq)
    PROVE  /\ NoncesOK(n) /\ Extends(n, nonces) /\ Extends(n, ledger)
           /\ EntryBacked(t, n, ledger, seq)
  <1>1. CASE t.source
    BY <1>1 DEF verify_and_consume_nonce, EntryBacked, Extends
  <1>2. CASE ~t.source
    <2>. DEFINE k == NonceKey(t)
                e == t.expiration
                x == IF e > min_live_until_ledger(seq) THEN e ELSE min_live_until_ledger(seq)
    <2>1. n = [c \in DOMAIN nonces \cup {k} |-> IF c # k THEN nonces[c] ELSE x]
      BY <1>2 DEF verify_and_consume_nonce, consume_nonce
    <2>2. seq <= e /\ k \notin DOMAIN nonces
      BY <1>2 DEF NonceOK, CanConsumeNonce
    <2>3. e \in Nat /\ x \in Int /\ x >= e
      BY AuthAssumption DEF IsEntry, min_live_until_ledger
    <2>. HIDE DEF k, e, x
    <2>4. NoncesOK(n) /\ Extends(n, nonces) /\ Extends(n, ledger)
      BY <2>1, <2>2, <2>3 DEF NoncesOK, Extends
    <2>5. k \notin DOMAIN ledger /\ k \in DOMAIN n /\ n[k] = x
      BY <2>1, <2>2 DEF Extends
    <2>6. Backed(n, ledger, seq, k, e)
      BY <2>2, <2>3, <2>5 DEF Backed
    <2>. QED  BY <2>4, <2>6 DEF EntryBacked, k, e
  <1>. QED  BY <1>1, <1>2 DEF IsEntry

LEMMA GrantLemma ==
    ASSUME NEW m, NEW i, NEW d, NEW n, NEW l, NEW s
    PROVE  GrantBacked(Grant(m, i, d), n, l, s) <=> EntryBacked(m.account[i], n, l, s)
  <1>. DEFINE t == m.account[i]
              g == Grant(m, i, d)
  <1>1. g.source = t.source /\ g.address = t.invocation.address /\ g.payload = get_signature_payload(t)
    BY DEF Grant
  <1>2. g.payload[1] = t.nonce /\ g.payload[2] = t.expiration
    BY <1>1 DEF get_signature_payload
  <1>. HIDE DEF t, g
  <1>. QED  BY <1>1, <1>2 DEF GrantBacked, EntryBacked, NonceKey, t, g

LEMMA AccountField ==
    ASSUME NEW m, IsManager(m), NEW a, NEW r, r = [m EXCEPT !.account = a]
    PROVE  IsManager(r) /\ r.recording = m.recording
  <1>1. r = [recording |-> m.recording, call_stack |-> m.call_stack, invoker |-> m.invoker,
             by_handle |-> m.by_handle, account |-> a]
    BY DEF IsManager
  <1>. QED  BY <1>1, ManagerLemma

LEMMA MarkLemma ==
    ASSUME NEW m, IsManager(m), AccountsOK(m), NEW i \in DOMAIN m.account,
           NEW v \in BOOLEAN, NEW b \in BOOLEAN, NEW r,
           r = WithEntry(m, i, Marked(m.account[i], v, b))
    PROVE  /\ IsManager(r) /\ r.recording = m.recording /\ r.call_stack = m.call_stack
           /\ SameEntries(m, r)
           /\ r.account[i].verified = v /\ r.account[i].borrowed = b
           /\ r.account[i].invocation = m.account[i].invocation
           /\ \A k \in DOMAIN m.account : k # i => r.account[k] = m.account[k]
  <1>. DEFINE x == Marked(m.account[i], v, b)
  <1>0. r = WithEntry(m, i, x)
    OBVIOUS
  <1>1. /\ IsEntry(x) /\ SameEntry(m.account[i], x) /\ x.verified = v /\ x.borrowed = b
        /\ x.invocation = m.account[i].invocation
    <2>1. IsEntry(m.account[i])
      BY DEF AccountsOK
    <2>. QED  BY <2>1, EntryMarked
  <1>. HIDE DEF x
  <1>2. /\ IsManager(r) /\ r.recording = m.recording /\ r.call_stack = m.call_stack
        /\ DOMAIN r.account = DOMAIN m.account
        /\ r.account[i] = x
        /\ \A k \in DOMAIN m.account : k # i => r.account[k] = m.account[k]
    BY <1>0, AccountExcept
  <1>3. ASSUME NEW k \in DOMAIN m.account
        PROVE  IsEntry(r.account[k]) /\ SameEntry(m.account[k], r.account[k])
    <2>1. IsEntry(m.account[k])
      BY DEF AccountsOK
    <2>. QED  BY <1>1, <1>2, <2>1, EntryLemma
  <1>4. SameEntries(m, r)
    BY <1>2, <1>3 DEF SameEntries, AccountsOK
  <1>. QED  BY <1>1, <1>2, <1>4

BorrowedAs(m, i, b) == [m EXCEPT !.account[i].borrowed = b]

LEMMA BorrowLemma ==
    ASSUME NEW m, IsManager(m), AccountsOK(m), NEW i \in DOMAIN m.account, NEW b \in BOOLEAN, NEW r,
           r = BorrowedAs(m, i, b)
    PROVE  /\ IsManager(r) /\ r.recording = m.recording /\ r.call_stack = m.call_stack
           /\ SameEntries(m, r)
           /\ r.account[i].verified = m.account[i].verified /\ r.account[i].borrowed = b
           /\ r.account[i].invocation = m.account[i].invocation
           /\ \A k \in DOMAIN m.account : k # i => r.account[k] = m.account[k]
  <1>. DEFINE t == m.account[i]
  <1>1. IsEntry(t)
    BY DEF AccountsOK
  <1>2. r = WithEntry(m, i, [t EXCEPT !.borrowed = b])
    BY DEF BorrowedAs, WithEntry
  <1>. HIDE DEF t
  <1>3. [t EXCEPT !.borrowed = b] = Marked(t, t.verified, b)
    BY <1>1 DEF IsEntry, Marked
  <1>4. t.verified \in BOOLEAN
    BY <1>1 DEF IsEntry
  <1>5. r = WithEntry(m, i, Marked(m.account[i], t.verified, b))
    BY <1>2, <1>3, Zenon DEF t
  <1>. QED  BY <1>4, <1>5, MarkLemma DEF t

LEMMA VerifiedLemma ==
    ASSUME NEW m, IsManager(m), AccountsOK(m), NEW i \in DOMAIN m.account, NEW r, r = Verified(m, i)
    PROVE  /\ IsManager(r) /\ r.recording = m.recording /\ r.call_stack = m.call_stack
           /\ SameEntries(m, r)
           /\ r.account[i].verified /\ ~r.account[i].borrowed
           /\ r.account[i].invocation = m.account[i].invocation
           /\ \A k \in DOMAIN m.account : k # i => r.account[k] = m.account[k]
  <1>. DEFINE v == TRUE
              b == FALSE
  <1>1. r = WithEntry(m, i, Marked(m.account[i], v, b))
    BY DEF Verified, WithEntry, Marked
  <1>2. v \in BOOLEAN /\ b \in BOOLEAN
    OBVIOUS
  <1>. HIDE DEF v, b
  <1>3. /\ IsManager(r) /\ r.recording = m.recording /\ r.call_stack = m.call_stack
        /\ SameEntries(m, r)
        /\ r.account[i].verified = v /\ r.account[i].borrowed = b
        /\ r.account[i].invocation = m.account[i].invocation
        /\ \A k \in DOMAIN m.account : k # i => r.account[k] = m.account[k]
    BY <1>1, <1>2, MarkLemma
  <1>. QED  BY <1>3 DEF v, b

(***************************************************************************)
(* What the steps of a transaction keep.                                   *)
(***************************************************************************)

\* A step of the manager that moves trackers only.
LEMMA SameSound ==
    ASSUME NEW m, NEW stack, NEW n, NEW e, NEW l, NEW s, Sound(m, stack, n, e, l, s),
           NEW q, SameManager(m, q), NEW e2, e = "internal" => e2 = "internal"
    PROVE  Sound(q, stack, n, e2, l, s)
  <1>1. IsManager(q) /\ q.recording = m.recording
    BY DEF SameManager
  <1>2. ASSUME ~m.recording, e2 # "internal"
        PROVE  TrackersOK(q, stack, n, l, s)
    <2>1. TrackersOK(m, stack, n, l, s) /\ IsSequence(stack) /\ \A i \in DOMAIN stack : IsFrame(stack[i])
      BY <1>2 DEF Sound, StackOK
    <2>2. SameEntries(m, q) /\ SameStatus(m, q)
      BY <2>1 DEF TrackersOK, SameManager
    <2>3. DOMAIN stack = 1..Len(stack) /\ Len(stack) \in 0..Len(stack) /\ Below(stack, stack, Len(stack))
      BY <2>1, SequenceLemma, BelowSame
    <2>4. ASSUME NEW k \in DOMAIN m.account
          PROVE  /\ q.account[k].verified => EntryBacked(q.account[k], n, l, s)
                 /\ q.account[k].borrowed => ~q.account[k].verified
                 /\ q.account[k].borrowed <=> \E j \in 1..Len(stack) : Checks(stack[j], k)
      <3>1. EntryBacked(m.account[k], n, l, s) <=> EntryBacked(q.account[k], n, l, s)
        BY <2>2, SameBacked DEF SameEntries
      <3>2. m.account[k].borrowed <=> \E j \in 1..Len(stack) : Checks(stack[j], k)
        BY <2>1, <2>3, BorrowedLemma
      <3>. QED  BY <2>1, <2>2, <3>1, <3>2 DEF SameStatus, TrackersOK
    <2>. QED  BY <2>1, <2>2, <2>3, <2>4, TrackersBelow
  <1>. QED  BY <1>1, <1>2 DEF Sound

LEMMA RecordingSound ==
    ASSUME NEW m, NEW stack, NEW n, NEW e, NEW l, NEW s, Sound(m, stack, n, e, l, s), m.recording,
           stack # <<>>, NEW q, IsManager(q), q.recording, NEW n2, NEW e2
    PROVE  Sound(q, stack, n2, e2, l, s)
  <1>1. StackOK(stack, n2, l)
    BY DEF Sound, StackOK
  <1>. QED  BY <1>1 DEF Sound

\* A frame is pushed, of a call or of create_contract.
LEMMA PushSound ==
    ASSUME NEW m, NEW stack, NEW n, NEW l, NEW s, Sound(m, stack, n, "none", l, s), stack # <<>>,
           NEW q, SameManager(m, q), NEW f, IsFrame(f), f.kind # "host_fn", f.kind # "check_auth",
           f.grants = {}, f.nonces = n, f.snap = snapshot(q)
    PROVE  Sound(q, Append(stack, f), n, "none", l, s) /\ Append(stack, f) # <<>>
  <1>. DEFINE r == Append(stack, f)
  <1>1. IsManager(q) /\ q.recording = m.recording
    BY DEF SameManager
  <1>2. StackOK(stack, n, l) /\ IsSequence(stack)
    BY DEF Sound, StackOK
  <1>3. /\ StackOK(r, n, l)
        /\ GrantsOK(stack, n, l, s) => GrantsOK(r, n, l, s)
        /\ NoGrants(stack) => NoGrants(r)
    BY <1>2, PushStack
  <1>4. r # <<>>
    BY <1>2, AppendLemma
  <1>5. ASSUME ~m.recording
        PROVE  TrackersOK(q, r, n, l, s)
    <2>1. TrackersOK(m, stack, n, l, s)
      BY <1>5 DEF Sound
    <2>2. SameEntries(m, q) /\ SameStatus(m, q)
      BY <2>1 DEF TrackersOK, SameManager
    <2>3. \A k \in DOMAIN m.account :
             /\ q.account[k].verified = m.account[k].verified
             /\ q.account[k].borrowed <=> m.account[k].borrowed \/ Checks(f, k)
      BY <2>2 DEF SameStatus, Checks
    <2>. QED  BY <1>2, <2>1, <2>2, <2>3, TrackersPush
  <1>. HIDE DEF r
  <1>6. Sound(q, r, n, "none", l, s)
    BY <1>1, <1>3, <1>5 DEF Sound
  <1>. QED  BY <1>4, <1>6 DEF r

\* An entry is used, after its nonce is consumed if need be.
LEMMA GrantSound ==
    ASSUME NEW m, NEW stack, NEW n, NEW l, NEW s, Sound(m, stack, n, "none", l, s), stack # <<>>,
           ~m.recording, NEW q, IsManager(q), q.recording = m.recording, SameEntries(m, q),
           NEW n2, NoncesOK(n2), Extends(n2, n), Extends(n2, l),
           \A k \in DOMAIN m.account :
              /\ q.account[k].verified => EntryBacked(q.account[k], n2, l, s)
              /\ q.account[k].borrowed => ~q.account[k].verified
              /\ q.account[k].borrowed <=> m.account[k].borrowed,
           NEW x, \A g \in x : GrantBacked(g, n2, l, s)
    PROVE  Sound(q, WithGrants(stack, x), n2, "none", l, s) /\ WithGrants(stack, x) # <<>>
  <1>. DEFINE r == WithGrants(stack, x)
              d == Len(stack)
  <1>1. /\ IsSequence(stack) /\ d \in Nat /\ DOMAIN stack = 1..d /\ d > 0 /\ d \in 0..d
        /\ StackOK(stack, n, l) /\ TrackersOK(m, stack, n, l, s) /\ GrantsOK(stack, n, l, s)
        /\ \A i \in DOMAIN stack : IsFrame(stack[i])
    BY SequenceLemma DEF Sound, StackOK
  <1>2. /\ Below(r, stack, d)
        /\ \A i \in 1..d : \A g \in r[i].grants : g \in stack[i].grants \/ (i = d /\ g \in x)
    BY <1>1, GrantedLemma
  <1>. HIDE DEF r, d
  <1>3. StackOK(r, n2, l)
    <2>1. d \in 0..Len(stack) /\ (d = 0 => n2 = l)
      BY <1>1 DEF d
    <2>. QED  BY <1>1, <1>2, <2>1, StackBelow
  <1>4. \A i \in 1..d : \A g \in stack[i].grants : GrantBacked(g, n2, l, s)
    BY <1>1, BackedLemma DEF GrantsOK
  <1>5. GrantsOK(r, n2, l, s)
    BY <1>1, <1>2, <1>4, GrantsBelow DEF d
  <1>6. \A k \in DOMAIN m.account : q.account[k].borrowed <=> \E j \in 1..d : Checks(stack[j], k)
    BY <1>1, BorrowedLemma
  <1>7. TrackersOK(q, r, n2, l, s)
    BY <1>1, <1>2, <1>6, TrackersBelow DEF d
  <1>8. r # <<>>
    BY <1>1, <1>2, SequenceLemma DEF Below
  <1>9. Sound(q, r, n2, "none", l, s)
    BY <1>3, <1>5, <1>7 DEF Sound
  <1>. QED  BY <1>8, <1>9 DEF r

Borrow(m, i) == [m EXCEPT !.account[i].borrowed = TRUE]

Release(m, i) == [m EXCEPT !.account[i].borrowed = FALSE]

LEMMA BorrowTrue ==
    ASSUME NEW m, IsManager(m), AccountsOK(m), NEW i \in DOMAIN m.account, NEW r, r = Borrow(m, i)
    PROVE  /\ IsManager(r) /\ r.recording = m.recording /\ SameEntries(m, r)
           /\ r.call_stack = m.call_stack /\ r.account[i].invocation = m.account[i].invocation
           /\ r.account[i].verified = m.account[i].verified /\ r.account[i].borrowed
           /\ \A k \in DOMAIN m.account : k # i => r.account[k] = m.account[k]
  <1>. DEFINE b == TRUE
  <1>1. r = BorrowedAs(m, i, b) /\ b \in BOOLEAN
    BY DEF BorrowedAs, Borrow
  <1>. HIDE DEF b
  <1>2. /\ IsManager(r) /\ r.recording = m.recording /\ SameEntries(m, r)
        /\ r.call_stack = m.call_stack /\ r.account[i].invocation = m.account[i].invocation
        /\ r.account[i].verified = m.account[i].verified /\ r.account[i].borrowed = b
        /\ \A k \in DOMAIN m.account : k # i => r.account[k] = m.account[k]
    BY <1>1, BorrowLemma
  <1>. QED  BY <1>2 DEF b

LEMMA BorrowFalse ==
    ASSUME NEW m, IsManager(m), AccountsOK(m), NEW i \in DOMAIN m.account, NEW r, r = Release(m, i)
    PROVE  /\ IsManager(r) /\ r.recording = m.recording /\ SameEntries(m, r)
           /\ r.call_stack = m.call_stack /\ r.account[i].invocation = m.account[i].invocation
           /\ r.account[i].verified = m.account[i].verified /\ ~r.account[i].borrowed
           /\ \A k \in DOMAIN m.account : k # i => r.account[k] = m.account[k]
  <1>. DEFINE b == FALSE
  <1>1. r = BorrowedAs(m, i, b) /\ b \in BOOLEAN
    BY DEF BorrowedAs, Release
  <1>. HIDE DEF b
  <1>2. /\ IsManager(r) /\ r.recording = m.recording /\ SameEntries(m, r)
        /\ r.call_stack = m.call_stack /\ r.account[i].invocation = m.account[i].invocation
        /\ r.account[i].verified = m.account[i].verified /\ r.account[i].borrowed = b
        /\ \A k \in DOMAIN m.account : k # i => r.account[k] = m.account[k]
    BY <1>1, BorrowLemma
  <1>. QED  BY <1>2 DEF b

\* The frame of __check_auth is pushed, while its entry is borrowed.
LEMMA CheckSound ==
    ASSUME NEW m, NEW stack, NEW n, NEW l, NEW s, Sound(m, stack, n, "none", l, s), stack # <<>>,
           ~m.recording, NEW p, SameManager(m, p), NEW i \in DOMAIN m.account,
           ~m.account[i].borrowed, ~m.account[i].verified,
           NEW b, IsManager(b), b.recording = p.recording, SameEntries(p, b),
           b.account[i].verified = p.account[i].verified, b.account[i].borrowed,
           \A k \in DOMAIN p.account : k # i => b.account[k] = p.account[k],
           NEW q, NEW fn, q = PushCall(b, fn),
           NEW f, IsFrame(f), f.kind = "check_auth", f.tracker = i, f.grants = {}, f.nonces = n,
           f.snap = snapshot(q)
    PROVE  Sound(q, Append(stack, f), n, "none", l, s) /\ Append(stack, f) # <<>>
  <1>. DEFINE r == Append(stack, f)
  <1>1. TrackersOK(m, stack, n, l, s) /\ StackOK(stack, n, l) /\ GrantsOK(stack, n, l, s) /\ IsSequence(stack)
    BY DEF Sound, StackOK
  <1>2. IsManager(p) /\ p.recording = m.recording /\ SameEntries(m, p) /\ SameStatus(m, p)
    BY <1>1 DEF SameManager, TrackersOK
  <1>3. AccountsOK(p) /\ DOMAIN p.account = DOMAIN m.account
    BY <1>2 DEF SameEntries
  <1>. HIDE DEF r
  <1>4. SameManager(b, q)
    BY PushLemma
  <1>5. /\ IsManager(q) /\ q.recording = m.recording /\ SameEntries(b, q) /\ SameStatus(b, q)
    BY <1>2, <1>4 DEF SameManager, SameEntries
  <1>6. SameEntries(m, q)
    BY <1>2, <1>5 DEF SameEntries, SameEntry
  <1>7. ASSUME NEW k \in DOMAIN m.account
         PROVE  /\ q.account[k].verified = m.account[k].verified
                /\ q.account[k].borrowed <=> m.account[k].borrowed \/ Checks(f, k)
    <2>1. /\ q.account[k].verified = b.account[k].verified
          /\ q.account[k].borrowed = b.account[k].borrowed
          /\ p.account[k].verified = m.account[k].verified
          /\ p.account[k].borrowed = m.account[k].borrowed
      BY <1>2, <1>5 DEF SameStatus, SameEntries
    <2>2. Checks(f, k) <=> k = i
      BY DEF Checks
    <2>. QED  BY <1>3, <2>1, <2>2
  <1>8. TrackersOK(q, r, n, l, s)
    <2>1. f.kind = "check_auth" =>
            /\ f.tracker \in DOMAIN m.account
            /\ ~m.account[f.tracker].borrowed /\ ~m.account[f.tracker].verified
      OBVIOUS
    <2>. QED  BY <1>1, <1>6, <1>7, <2>1, TrackersPush DEF r
  <1>9. StackOK(r, n, l) /\ GrantsOK(r, n, l, s)
    BY <1>1, PushStack DEF r
  <1>10. r # <<>>
    BY <1>1, AppendLemma DEF r
  <1>11. Sound(q, r, n, "none", l, s)
    BY <1>5, <1>8, <1>9 DEF Sound
  <1>. QED  BY <1>10, <1>11 DEF r

LEMMA RequireLemma ==
    ASSUME NEW m, NEW stack, NEW object, Sound(m, stack, nonces, "none", ledger, seq), stack # <<>>,
           seq \in Nat, raised = "none", Require(m, stack, object)
    PROVE  Sound(am', frames', nonces', raised', ledger, seq) /\ frames' # <<>>
  <1>. DEFINE R == AuthResult(m, object, Last(m.call_stack))
              q == R.am
              i == R.tracker
              t == q.account[i]
              a == AddressOf[object]
              g == Grant(q, i, Len(stack))
  <1>1. IsManager(m)
    BY DEF Sound
  <1>2. /\ m.recording =>
              /\ IsManager(q) /\ q.recording
              /\ R.out \in {"denied", "ok", "recorded", "internal"} /\ i = 0
        /\ ~m.recording /\ AccountsOK(m) =>
              /\ SameManager(m, q)
              /\ R.out \in {"denied", "ok", "authenticate", "internal"}
              /\ R.out = "authenticate" \/ (R.out = "ok" /\ i # 0) =>
                    /\ i \in DOMAIN m.account
                    /\ ~m.account[i].borrowed
                    /\ m.account[i].verified <=> R.out = "ok"
    BY <1>1, AuthLemma
  <1>3. Granted(stack, q, i) = IF i = 0 THEN stack ELSE WithGrants(stack, {g})
    BY DEF Granted, WithGrants
  <1>4. \/ R.out = "ok" /\ am' = q /\ frames' = Granted(stack, q, i) /\ raised' = raised /\ nonces' = nonces
        \/ R.out = "recorded" /\ am' = q /\ frames' = stack /\ raised' = raised
        \/ /\ R.out \in {"denied", "internal"} /\ am' = m /\ frames' = stack /\ nonces' = nonces
        \/ /\ R.out = "authenticate" /\ am' = q /\ frames' = stack /\ nonces' = nonces
           /\ raised' \in {"fatal", "recoverable"}
        \/ /\ R.out = "authenticate" /\ NonceOK(t)
           /\ am' = Verified(q, i) /\ frames' = Granted(stack, q, i)
           /\ nonces' = verify_and_consume_nonce(t, nonces, seq) /\ raised' = raised
        \/ /\ R.out = "authenticate" /\ nonces' = nonces /\ raised' = raised
           /\ am' = PushCall([q EXCEPT !.account[i].borrowed = TRUE], CheckAuthFn(a))
           /\ frames' = Append(stack, Frame("check_auth", CheckAuthFn(a), am', i))
    <2>1. Require(m, stack, object)
      OBVIOUS
    <2>2. \A x : NonceError(x) \in {"fatal", "recoverable"}
      BY DEF NonceError
    <2>. QED  BY <2>1, <2>2, Zenon DEF Require
  <1>. HIDE DEF R, t, a, g
  <1>5. CASE m.recording
    <2>1. IsManager(q) /\ q.recording /\ i = 0 /\ R.out \in {"denied", "ok", "recorded", "internal"}
      BY <1>2, <1>5
    <2>2. (am' = q \/ am' = m) /\ frames' = stack
      BY <1>3, <1>4, <2>1
    <2>3. IsManager(am') /\ am'.recording
      BY <1>1, <1>5, <2>1, <2>2
    <2>. HIDE DEF q, i
    <2>. QED  BY <1>5, <2>2, <2>3, RecordingSound
  <1>6. CASE ~m.recording
    <2>1. TrackersOK(m, stack, nonces, ledger, seq) /\ GrantsOK(stack, nonces, ledger, seq)
      BY <1>6 DEF Sound
    <2>2. AccountsOK(m)
      BY <2>1 DEF TrackersOK
    <2>. HIDE DEF q, i
    <2>3. /\ SameManager(m, q)
          /\ R.out \in {"denied", "ok", "authenticate", "internal"}
          /\ R.out = "authenticate" \/ (R.out = "ok" /\ i # 0) =>
                /\ i \in DOMAIN m.account
                /\ ~m.account[i].borrowed
                /\ m.account[i].verified <=> R.out = "ok"
      BY <1>2, <1>6, <2>2 DEF q, i
    <2>4. /\ IsManager(q) /\ q.recording = m.recording /\ SameEntries(m, q) /\ SameStatus(m, q)
          /\ AccountsOK(q) /\ DOMAIN q.account = DOMAIN m.account
      BY <2>2, <2>3 DEF SameManager, SameEntries
    <2>5. ASSUME NEW k \in DOMAIN m.account, NEW n
          PROVE  EntryBacked(m.account[k], n, ledger, seq) <=> EntryBacked(q.account[k], n, ledger, seq)
      BY <2>4, SameBacked DEF SameEntries
    <2>6. ASSUME am' = q, frames' = stack, nonces' = nonces
          PROVE  Sound(am', frames', nonces', raised', ledger, seq) /\ frames' # <<>>
      BY <2>3, <2>6, SameSound
    <2>7. CASE R.out = "ok" /\ am' = q /\ frames' = Granted(stack, q, i) /\ raised' = raised /\ nonces' = nonces
      <3>1. CASE i = 0
        BY <1>3, <2>6, <2>7, <3>1
      <3>2. CASE i # 0
        <4>1. i \in DOMAIN m.account /\ m.account[i].verified
          BY <2>3, <2>7, <3>2
        <4>2. EntryBacked(q.account[i], nonces, ledger, seq)
          BY <2>1, <2>5, <4>1 DEF TrackersOK
        <4>3. \A x \in {g} : GrantBacked(x, nonces, ledger, seq)
          BY <4>2, GrantLemma DEF g
        <4>4. \A k \in DOMAIN m.account :
                 /\ q.account[k].verified => EntryBacked(q.account[k], nonces, ledger, seq)
                 /\ q.account[k].borrowed => ~q.account[k].verified
                 /\ q.account[k].borrowed <=> m.account[k].borrowed
          BY <2>1, <2>4, <2>5 DEF TrackersOK, SameStatus
        <4>5. NoncesOK(nonces) /\ Extends(nonces, nonces) /\ Extends(nonces, ledger)
          BY <2>1 DEF GrantsOK, Extends
        <4>6. Sound(q, WithGrants(stack, {g}), nonces, "none", ledger, seq) /\ WithGrants(stack, {g}) # <<>>
          BY <1>6, <2>4, <4>3, <4>4, <4>5, GrantSound
        <4>. QED  BY <1>3, <2>7, <3>2, <4>6
      <3>. QED  BY <3>1, <3>2
    <2>8. CASE R.out \in {"denied", "internal"} /\ am' = m /\ frames' = stack /\ nonces' = nonces
      <3>1. SameManager(m, m)
        BY <1>1, SameLemma
      <3>. QED  BY <2>8, <3>1, SameSound
    <2>9. CASE /\ R.out = "authenticate" /\ am' = q /\ frames' = stack /\ nonces' = nonces
               /\ raised' \in {"fatal", "recoverable"}
      BY <2>6, <2>9
    <2>10. CASE /\ R.out = "authenticate" /\ NonceOK(t)
                /\ am' = Verified(q, i) /\ frames' = Granted(stack, q, i)
                /\ nonces' = verify_and_consume_nonce(t, nonces, seq) /\ raised' = raised
      <3>. DEFINE n == verify_and_consume_nonce(t, nonces, seq)
                  p == Verified(q, i)
      <3>1. i \in DOMAIN m.account /\ i # 0 /\ ~m.account[i].borrowed /\ IsEntry(t)
        BY <2>2, <2>3, <2>4, <2>10 DEF AccountsOK, t
      <3>2. /\ NoncesOK(n) /\ Extends(n, nonces) /\ Extends(n, ledger)
            /\ EntryBacked(t, n, ledger, seq)
        BY <2>1, <2>10, <3>1, ConsumeLemma DEF GrantsOK
      <3>3. /\ IsManager(p) /\ p.recording = q.recording
            /\ SameEntries(q, p)
            /\ p.account[i].verified /\ ~p.account[i].borrowed
            /\ \A k \in DOMAIN q.account : k # i => p.account[k] = q.account[k]
        BY <2>4, <3>1, VerifiedLemma
      <3>4. am' = p /\ nonces' = n /\ frames' = WithGrants(stack, {g}) /\ raised' = "none"
        BY <1>3, <2>10, <3>1
      <3>. HIDE DEF n, p
      <3>5. \A x \in {g} : GrantBacked(x, n, ledger, seq)
        BY <3>2, GrantLemma DEF g, t
      <3>6. SameEntries(m, p)
        BY <2>4, <3>3 DEF SameEntries, SameEntry
      <3>7. ASSUME NEW k \in DOMAIN m.account
            PROVE  /\ p.account[k].verified => EntryBacked(p.account[k], n, ledger, seq)
                   /\ p.account[k].borrowed => ~p.account[k].verified
                   /\ p.account[k].borrowed <=> m.account[k].borrowed
        <4>1. CASE k = i
          <5>1. EntryBacked(q.account[i], n, ledger, seq) <=> EntryBacked(p.account[i], n, ledger, seq)
            BY <2>4, <3>1, <3>3, SameBacked DEF SameEntries
          <5>. QED  BY <3>1, <3>2, <3>3, <4>1, <5>1 DEF t
        <4>2. CASE k # i
          <5>1. p.account[k] = q.account[k]
            BY <2>4, <3>3, <4>2
          <5>2. m.account[k].verified => EntryBacked(q.account[k], n, ledger, seq)
            BY <2>1, <2>5, <3>2, BackedLemma DEF TrackersOK
          <5>. QED  BY <2>1, <2>4, <5>1, <5>2 DEF TrackersOK, SameStatus
        <4>. QED  BY <4>1, <4>2
      <3>8. Sound(p, WithGrants(stack, {g}), n, "none", ledger, seq) /\ WithGrants(stack, {g}) # <<>>
        BY <1>6, <2>4, <3>2, <3>3, <3>5, <3>6, <3>7, GrantSound
      <3>. QED  BY <3>4, <3>8
    <2>11. CASE /\ R.out = "authenticate" /\ nonces' = nonces /\ raised' = raised
                /\ am' = PushCall([q EXCEPT !.account[i].borrowed = TRUE], CheckAuthFn(a))
                /\ frames' = Append(stack, Frame("check_auth", CheckAuthFn(a), am', i))
      <3>. DEFINE fn == CheckAuthFn(a)
                  b == Borrow(q, i)
                  p == PushCall(b, fn)
                  f == Frame("check_auth", fn, p, i)
      <3>1. i \in DOMAIN m.account /\ ~m.account[i].borrowed /\ ~m.account[i].verified
        BY <2>3, <2>11
      <3>2. am' = p /\ frames' = Append(stack, f) /\ p = PushCall(b, fn)
        BY <2>11 DEF Borrow
      <3>. HIDE DEF fn, p
      <3>3. f = Frame("check_auth", fn, p, i)
        OBVIOUS
      <3>. HIDE DEF b, f
      <3>4. /\ IsManager(b) /\ b.recording = q.recording /\ SameEntries(q, b)
            /\ b.account[i].verified = q.account[i].verified /\ b.account[i].borrowed
            /\ \A k \in DOMAIN q.account : k # i => b.account[k] = q.account[k]
        BY <2>4, <3>1, BorrowTrue DEF b
      <3>5. /\ IsFrame(f) /\ f.kind = "check_auth" /\ f.tracker = i /\ f.snap = snapshot(p)
            /\ f.nonces = nonces /\ f.grants = {}
        BY <3>3, FrameLemma
      <3>6. Sound(p, Append(stack, f), nonces, "none", ledger, seq) /\ Append(stack, f) # <<>>
        BY <1>6, <2>3, <3>1, <3>2, <3>4, <3>5, CheckSound
      <3>. QED  BY <2>11, <3>2, <3>6
    <2>. QED  BY <1>4, <2>3, <2>7, <2>8, <2>9, <2>10, <2>11
  <1>. QED  BY <1>5, <1>6

LEMMA IndexLemma ==
    ASSUME NEW d \in Nat, d > 1
    PROVE  /\ d - 1 \in 0..d /\ d - 1 # 0 /\ 1..d - 1 \subseteq 1..d /\ d \in 1..d
           /\ \A i \in 1..d - 1 : i < d
           /\ \A j \in 1..d : j \in 1..d - 1 \/ j = d
  OBVIOUS

\* A frame that is popped leaves what it was granted to the frame below, or to none.
Inherits(r, stack, kept) ==
    \A i \in 1..Len(stack) - 1 : \A g \in r[i].grants :
        \/ g \in stack[i].grants
        \/ i = Len(stack) - 1 /\ g \in stack[Len(stack)].grants /\ kept

\* The entries after frame f was popped, with the nonces n.
Released(m, q, f, n, l, s) ==
    /\ SameEntries(m, q)
    /\ \A k \in DOMAIN m.account :
          /\ q.account[k].verified => EntryBacked(q.account[k], n, l, s)
          /\ q.account[k].borrowed => ~q.account[k].verified
          /\ q.account[k].borrowed <=> m.account[k].borrowed /\ ~Checks(f, k)

\* The top frame is popped: n2 are the nonces as they are, or as the frame found them.
LEMMA PopSound ==
    ASSUME NEW m, NEW stack, NEW n, NEW e, NEW l, NEW s, Sound(m, stack, n, e, l, s), Len(stack) > 1,
           NEW r, Below(r, stack, Len(stack) - 1), NEW n2,
           \/ n2 = n /\ Inherits(r, stack, TRUE)
           \/ n2 = stack[Len(stack)].nonces /\ Inherits(r, stack, FALSE),
           NEW e2, e = "internal" => e2 = "internal",
           NEW q, IsManager(q), q.recording = m.recording,
           ~m.recording /\ e2 # "internal" => Released(m, q, stack[Len(stack)], n2, l, s)
    PROVE  Sound(q, r, n2, e2, l, s) /\ r # <<>>
  <1>. DEFINE d == Len(stack)
              c == d - 1
  <1>1. IsSequence(stack) /\ StackOK(stack, n, l) /\ d \in Nat /\ DOMAIN stack = 1..d
    BY SequenceLemma DEF Sound, StackOK
  <1>2. c \in 0..Len(stack) /\ c # 0 /\ 1..c \subseteq 1..d /\ d \in 1..d /\ \A i \in 1..c : i < d
    BY <1>1, IndexLemma, Zenon
  <1>3. \A j \in 1..d : j \in 1..c \/ j = d
    BY <1>1, IndexLemma, Zenon
  <1>4. Below(r, stack, c) /\ r # <<>>
    BY <1>2, SequenceLemma DEF Below
  <1>5. \A i \in 1..c : \A g \in r[i].grants :
           g \in stack[i].grants \/ (i = c /\ g \in stack[d].grants /\ n2 = n)
    BY Zenon DEF Inherits
  <1>0. n2 = n \/ n2 = stack[d].nonces
    OBVIOUS
  <1>. HIDE DEF d, c
  <1>6. StackOK(r, n2, l)
    BY <1>1, <1>2, <1>4, StackBelow
  <1>7. ASSUME m.recording
        PROVE  NoGrants(r)
    <2>1. \A i \in 1..d : stack[i].grants = {} /\ stack[i].kind # "check_auth"
      BY <1>1, <1>7 DEF Sound, NoGrants
    <2>2. DOMAIN r = 1..c
      BY <1>4, SequenceLemma DEF Below
    <2>. QED  BY <1>2, <1>4, <1>5, <2>1, <2>2 DEF NoGrants, Below, SameFrame
  <1>8. ASSUME ~m.recording
        PROVE  GrantsOK(r, n2, l, s)
    <2>1. GrantsOK(stack, n, l, s)
      BY <1>8 DEF Sound
    <2>2. NoncesOK(n2) /\ Extends(n2, l)
      BY <1>0, <1>1, <1>2, <2>1 DEF GrantsOK
    <2>3. \A i \in 1..c : \A g \in stack[i].grants : GrantBacked(g, n2, l, s)
      BY <1>0, <1>1, <1>2, <2>1 DEF GrantsOK
    <2>4. \A i \in 1..c : \A g \in r[i].grants :
             g \in stack[i].grants \/ (i = c /\ GrantBacked(g, n2, l, s))
      BY <1>1, <1>2, <1>5, <2>1 DEF GrantsOK
    <2>. QED  BY <1>1, <1>2, <1>4, <2>1, <2>2, <2>3, <2>4, GrantsBelow
  <1>9. ASSUME ~m.recording, e2 # "internal"
        PROVE  TrackersOK(q, r, n2, l, s)
    <2>1. TrackersOK(m, stack, n, l, s)
      BY <1>9 DEF Sound
    <2>2. Released(m, q, stack[d], n2, l, s) /\ SameEntries(m, q)
      BY <1>9 DEF Released, d
    <2>3. ASSUME NEW k \in DOMAIN m.account
          PROVE  q.account[k].borrowed <=> \E j \in 1..c : Checks(stack[j], k)
      <3>1. m.account[k].borrowed <=> \E j \in 1..d : Checks(stack[j], k)
        BY <1>1, <2>1, BorrowedLemma
      <3>2. ASSUME NEW i \in 1..c, Checks(stack[i], k)
            PROVE  ~Checks(stack[d], k)
        BY <1>1, <1>2, <2>1, <3>2 DEF TrackersOK, Checks
      <3>. QED  BY <1>2, <1>3, <2>2, <3>1, <3>2 DEF Released
    <2>4. \A k \in DOMAIN m.account :
            /\ q.account[k].verified => EntryBacked(q.account[k], n2, l, s)
            /\ q.account[k].borrowed => ~q.account[k].verified
            /\ q.account[k].borrowed <=> \E j \in 1..c : Checks(stack[j], k)
      BY <2>2, <2>3 DEF Released
    <2>. QED  BY <1>1, <1>2, <1>4, <2>1, <2>2, <2>4, TrackersBelow
  <1>. QED  BY <1>4, <1>6, <1>7, <1>8, <1>9 DEF Sound

LEMMA EntryRolled ==
    ASSUME NEW t, IsEntry(t), NEW x, x.verified \in BOOLEAN, NEW r, r = rollback_tracker(t, x)
    PROVE  IsEntry(r) /\ SameEntry(t, r) /\ r.verified = x.verified /\ r.borrowed = t.borrowed
  <1>. DEFINE v == x.verified
              w == rollback_invocation(t.invocation, x.exhausted)
  <1>0. Moved(t.invocation, w)
    BY MoveLemma DEF IsEntry
  <1>1. r = [t EXCEPT !.invocation = w, !.verified = v]
    BY DEF rollback_tracker
  <1>. SUFFICES IsEntry(r) /\ SameEntry(t, r) /\ r.verified = v /\ r.borrowed = t.borrowed
    OBVIOUS
  <1>2. v \in BOOLEAN
    OBVIOUS
  <1>. HIDE DEF v, w
  <1>3. r = [invocation |-> w, verified |-> v, borrowed |-> t.borrowed,
            source |-> t.source, nonce |-> t.nonce, expiration |-> t.expiration,
            signatures |-> t.signatures]
    BY <1>1 DEF IsEntry
  <1>4. /\ r.invocation = w /\ r.verified = v /\ r.borrowed = t.borrowed /\ r.source = t.source
        /\ r.nonce = t.nonce /\ r.expiration = t.expiration /\ r.signatures = t.signatures
    BY <1>3
  <1>. QED  BY <1>0, <1>2, <1>3, <1>4 DEF IsEntry, SameEntry, Moved

\* What rollback leaves of an entry.
RolledBack(t, x) == IF x.taken THEN rollback_tracker(t, x) ELSE t

LEMMA RollbackLemma ==
    ASSUME NEW m, IsManager(m), NEW snap
    PROVE  /\ IsManager(rollback(m, snap)) /\ rollback(m, snap).recording = m.recording
           /\ rollback(m, snap).call_stack = m.call_stack
           /\ ~m.recording =>
                 /\ DOMAIN rollback(m, snap).account = DOMAIN m.account
                 /\ \A k \in DOMAIN m.account :
                       rollback(m, snap).account[k] = RolledBack(m.account[k], snap.account[k])
  <1>. DEFINE a == IF m.recording THEN snap.trackers
                   ELSE [i \in DOMAIN m.account |-> RolledBack(m.account[i], snap.account[i])]
              v == [i \in DOMAIN m.invoker |-> rollback_invocation(m.invoker[i], snap.invoker[i])]
              h == snap.by_handle
              r == rollback(m, snap)
  <1>1. r = [m EXCEPT !.account = a, !.invoker = v, !.by_handle = h]
    <2>. DEFINE x == rollback_accounts(m, snap)
    <2>1. x = [m EXCEPT !.account = a]
      BY Zenon DEF rollback_accounts, RolledBack
    <2>2. r = [x EXCEPT !.invoker = [i \in DOMAIN x.invoker |->
                                       rollback_invocation(x.invoker[i], snap.invoker[i])],
                        !.by_handle = h]
      BY Zenon DEF rollback
    <2>. HIDE DEF a, x, r
    <2>3. x.invoker = m.invoker
      BY <2>1 DEF IsManager
    <2>4. r = [x EXCEPT !.invoker = v, !.by_handle = h]
      BY <2>2, <2>3, Zenon
    <2>. HIDE DEF v, h
    <2>. QED  BY <2>1, <2>4 DEF IsManager
  <1>2. ~m.recording =>
           /\ DOMAIN a = DOMAIN m.account
           /\ \A k \in DOMAIN m.account : a[k] = RolledBack(m.account[k], snap.account[k])
    OBVIOUS
  <1>. HIDE DEF a, v, h, r
  <1>3. r = [recording |-> m.recording, call_stack |-> m.call_stack, invoker |-> v,
             by_handle |-> h, account |-> a]
    BY <1>1 DEF IsManager
  <1>4. IsManager(r) /\ r.recording = m.recording /\ r.account = a /\ r.call_stack = m.call_stack
    BY <1>3, ManagerLemma
  <1>. QED  BY <1>2, <1>4 DEF r

\* The part of the rollback that comes before a mismatch of snapshots is found.
LEMMA AccountsRolled ==
    ASSUME NEW m, IsManager(m), NEW snap
    PROVE  /\ IsManager(rollback_accounts(m, snap))
           /\ rollback_accounts(m, snap).recording = m.recording
           /\ rollback_accounts(m, snap).account = rollback(m, snap).account
  <1>. DEFINE x == rollback_accounts(m, snap)
              a == IF m.recording THEN snap.trackers
                   ELSE [i \in DOMAIN m.account |-> RolledBack(m.account[i], snap.account[i])]
              v == [i \in DOMAIN x.invoker |-> rollback_invocation(x.invoker[i], snap.invoker[i])]
              r == rollback(m, snap)
  <1>1. x = [m EXCEPT !.account = a]
    BY Zenon DEF rollback_accounts, RolledBack
  <1>2. r = [x EXCEPT !.invoker = v, !.by_handle = snap.by_handle]
    BY Zenon DEF rollback
  <1>. HIDE DEF a, x, v, r
  <1>3. x = [recording |-> m.recording, call_stack |-> m.call_stack, invoker |-> m.invoker,
             by_handle |-> m.by_handle, account |-> a]
    BY <1>1 DEF IsManager
  <1>4. IsManager(x) /\ x.recording = m.recording
    BY <1>3, ManagerLemma
  <1>5. r.account = x.account
    BY <1>2, <1>3
  <1>. QED  BY <1>4, <1>5 DEF x, r

LEMMA RollbackSound ==
    ASSUME NEW m, NEW stack, NEW n, NEW l, NEW s, TrackersOK(m, stack, n, l, s), IsManager(m),
           ~m.recording, NEW j \in DOMAIN stack, \A i \in DOMAIN stack : i <= j,
           NEW r, r = rollback(m, stack[j].snap)
    PROVE  /\ SameEntries(m, r)
           /\ \A k \in DOMAIN m.account :
                 /\ r.account[k].verified => EntryBacked(r.account[k], stack[j].nonces, l, s)
                 /\ r.account[k].borrowed => ~r.account[k].verified
                 /\ r.account[k].borrowed = m.account[k].borrowed
  <1>. DEFINE x == stack[j].snap
  <1>1. /\ DOMAIN r.account = DOMAIN m.account
        /\ \A k \in DOMAIN m.account : r.account[k] = RolledBack(m.account[k], x.account[k])
    BY RollbackLemma
  <1>2. SnapshotOK(m, stack, j, l, s)
    BY DEF TrackersOK
  <1>3. ASSUME NEW k \in DOMAIN m.account
        PROVE  /\ IsEntry(r.account[k]) /\ SameEntry(m.account[k], r.account[k])
               /\ r.account[k].verified => EntryBacked(r.account[k], stack[j].nonces, l, s)
               /\ r.account[k].borrowed => ~r.account[k].verified
               /\ r.account[k].borrowed = m.account[k].borrowed
    <2>. DEFINE t == m.account[k]
                y == x.account[k]
                u == r.account[k]
    <2>1. /\ IsEntry(t) /\ u = RolledBack(t, y) /\ y.verified \in BOOLEAN
          /\ y.taken /\ y.verified => EntryBacked(t, stack[j].nonces, l, s)
          /\ y.taken <=> ~t.borrowed
          /\ t.borrowed => ~t.verified
      <3>1. IsEntry(t) /\ u = RolledBack(t, y) /\ (t.borrowed => ~t.verified)
        BY <1>1 DEF TrackersOK, AccountsOK
      <3>2. /\ y.verified \in BOOLEAN
            /\ y.taken /\ y.verified => EntryBacked(t, stack[j].nonces, l, s)
            /\ ~y.taken <=> \E i \in DOMAIN stack : i <= j /\ Checks(stack[i], k)
        BY <1>2 DEF SnapshotOK
      <3>3. t.borrowed <=> \E i \in DOMAIN stack : Checks(stack[i], k)
        BY BorrowedLemma
      <3>. QED  BY <3>1, <3>2, <3>3
    <2>. SUFFICES /\ IsEntry(u) /\ SameEntry(t, u)
                  /\ u.verified => EntryBacked(u, stack[j].nonces, l, s)
                  /\ u.borrowed => ~u.verified
                  /\ u.borrowed = t.borrowed
      OBVIOUS
    <2>. HIDE DEF t, y, u
    <2>2. CASE y.taken
      <3>1. u = rollback_tracker(t, y)
        BY <2>1, <2>2 DEF RolledBack
      <3>3. IsEntry(u) /\ SameEntry(t, u) /\ u.verified = y.verified /\ u.borrowed = t.borrowed
        BY <2>1, <3>1, EntryRolled
      <3>4. EntryBacked(t, stack[j].nonces, l, s) <=> EntryBacked(u, stack[j].nonces, l, s)
        BY <3>3, SameBacked
      <3>. QED  BY <2>1, <2>2, <3>3, <3>4
    <2>3. CASE ~y.taken
      <3>1. u = t
        BY <2>1, <2>3 DEF RolledBack
      <3>. QED  BY <2>1, <2>3, <3>1, EntryLemma
    <2>. QED  BY <2>2, <2>3
  <1>4. SameEntries(m, r)
    BY <1>1, <1>3 DEF SameEntries, AccountsOK, TrackersOK
  <1>. QED  BY <1>3, <1>4

(***************************************************************************)
(* Between transactions.                                                   *)
(***************************************************************************)

LEMMA NoEntries ==
    /\ IsManager(new_enforcing(<<>>)) /\ ~new_enforcing(<<>>).recording
    /\ DOMAIN new_enforcing(<<>>).account = {}
  <1>. DEFINE a == [i \in DOMAIN <<>> |-> from_authorization_entry(<<>>[i])]
              m == new_enforcing(<<>>)
  <1>1. DOMAIN a = {}
    OBVIOUS
  <1>2. m = [recording |-> FALSE, call_stack |-> <<>>, invoker |-> <<>>, by_handle |-> <<>>,
             account |-> a]
    BY DEF new_enforcing
  <1>. HIDE DEF a, m
  <1>3. /\ m.recording = FALSE /\ m.call_stack = <<>> /\ m.invoker = <<>> /\ m.by_handle = <<>>
        /\ m.account = a
    BY <1>2
  <1>4. IsManager(m)
    BY <1>2, <1>3 DEF IsManager
  <1>. QED  BY <1>1, <1>3, <1>4 DEF m

LEMMA EmptySound ==
    ASSUME NEW m, IsManager(m), ~m.recording => DOMAIN m.account = {}, NEW l, NoncesOK(l), NEW e, NEW s
    PROVE  Sound(m, <<>>, l, e, l, s)
  <1>. DEFINE z == <<>>
  <1>1. DOMAIN z = {} /\ IsSequence(z) /\ z = <<>>
    <2>1. DOMAIN z = {}
      OBVIOUS
    <2>2. z \in Seq({z[i] : i \in DOMAIN z})
      BY EmptySeq, Zenon
    <2>. QED  BY <2>1, <2>2, Zenon DEF IsSequence
  <1>. HIDE DEF z
  <1>2. StackOK(z, l, l) /\ NoGrants(z)
    BY <1>1 DEF StackOK, NoGrants
  <1>3. GrantsOK(z, l, l, s)
    BY <1>1 DEF GrantsOK, Extends
  <1>4. ~m.recording => TrackersOK(m, z, l, l, s)
    BY <1>1 DEF TrackersOK, AccountsOK
  <1>5. Sound(m, z, l, e, l, s)
    BY <1>2, <1>3, <1>4 DEF Sound
  <1>. QED  BY <1>1, <1>5

\* The entries of a transaction are not verified at first.
LEMMA NewManager ==
    ASSUME NEW m \in NewManagers
    PROVE  /\ IsManager(m)
           /\ ~m.recording =>
                 /\ AccountsOK(m)
                 /\ \A k \in DOMAIN m.account : ~m.account[k].verified /\ ~m.account[k].borrowed
  <1>1. CASE m = new_recording
    <2>1. m = [recording |-> TRUE, call_stack |-> <<>>, invoker |-> <<>>, by_handle |-> <<>>,
               account |-> <<>>]
      BY <1>1 DEF new_recording
    <2>2. /\ m.recording = TRUE /\ m.call_stack = <<>> /\ m.invoker = <<>> /\ m.by_handle = <<>>
          /\ m.account = <<>>
      BY <2>1
    <2>. QED  BY <2>1, <2>2 DEF IsManager
  <1>2. ASSUME NEW entries \in EntrySets, m = new_enforcing(entries)
        PROVE  /\ IsManager(m)
               /\ ~m.recording =>
                     /\ AccountsOK(m)
                     /\ \A k \in DOMAIN m.account : ~m.account[k].verified /\ ~m.account[k].borrowed
    <2>. DEFINE a == [i \in DOMAIN entries |-> from_authorization_entry(entries[i])]
    <2>1. m = [recording |-> FALSE, call_stack |-> <<>>, invoker |-> <<>>, by_handle |-> <<>>,
               account |-> a]
      BY <1>2 DEF new_enforcing
    <2>2. DOMAIN a = DOMAIN entries /\ \A i \in DOMAIN a : a[i] = from_authorization_entry(entries[i])
      OBVIOUS
    <2>. HIDE DEF a
    <2>3. /\ m.recording = FALSE /\ m.call_stack = <<>> /\ m.invoker = <<>> /\ m.by_handle = <<>>
          /\ m.account = a
      BY <2>1
    <2>4. IsManager(m)
      BY <2>1, <2>3 DEF IsManager
    <2>5. /\ DOMAIN entries \subseteq Nat \ {0}
          /\ \A i \in DOMAIN entries : entries[i].source \in BOOLEAN /\ entries[i].expiration \in Nat
      BY CallsAssumption
    <2>6. ASSUME NEW i \in DOMAIN entries
          PROVE  IsEntry(a[i]) /\ ~a[i].verified /\ ~a[i].borrowed
      <3>. DEFINE x == entries[i]
                  v == NewTracker(x.address, x.tree)
                  t == from_authorization_entry(x)
      <3>1. t = [invocation |-> v, verified |-> FALSE, borrowed |-> FALSE, source |-> x.source,
                 nonce |-> x.nonce, expiration |-> x.expiration, signatures |-> x.signatures]
        BY DEF from_authorization_entry
      <3>2. IsInvocation(v)
        BY DEF NewTracker, IsInvocation
      <3>3. x.source \in BOOLEAN /\ x.expiration \in Nat /\ a[i] = t
        BY <2>2, <2>5
      <3>. HIDE DEF x, v, t
      <3>4. /\ t.invocation = v /\ t.verified = FALSE /\ t.borrowed = FALSE /\ t.source = x.source
            /\ t.nonce = x.nonce /\ t.expiration = x.expiration /\ t.signatures = x.signatures
        BY <3>1
      <3>5. IsEntry(t)
        BY <3>1, <3>2, <3>3, <3>4 DEF IsEntry
      <3>. QED  BY <3>3, <3>4, <3>5
    <2>. QED  BY <2>2, <2>3, <2>4, <2>5, <2>6 DEF AccountsOK
  <1>3. m = new_recording \/ \E entries \in EntrySets : m = new_enforcing(entries)
    BY Zenon DEF NewManagers
  <1>. QED  BY <1>1, <1>2, <1>3

\* The host function's frame, alone on the stack.
LEMMA FirstSound ==
    ASSUME NEW m, IsManager(m), NEW f, IsFrame(f), f.kind = "host_fn", f.snap = snapshot(m),
           f.grants = {}, NEW l, f.nonces = l, NoncesOK(l), NEW s,
           ~m.recording =>
              /\ AccountsOK(m)
              /\ \A k \in DOMAIN m.account : ~m.account[k].verified /\ ~m.account[k].borrowed
    PROVE  Sound(m, <<f>>, l, "none", l, s) /\ <<f>> # <<>>
  <1>. DEFINE z == <<f>>
  <1>1. DOMAIN z = 1..1 /\ z = [i \in 1..1 |-> z[i]] /\ z[1] = f /\ z # <<>>
    OBVIOUS
  <1>. HIDE DEF z
  <1>2. IsSequence(z)
    BY <1>1, AnySequence
  <1>3. \A i \in DOMAIN z : i = 1 /\ z[i] = f
    BY <1>1
  <1>4. StackOK(z, l, l) /\ NoGrants(z)
    BY <1>1, <1>2, <1>3 DEF StackOK, NoGrants
  <1>5. GrantsOK(z, l, l, s)
    BY <1>1, <1>3 DEF GrantsOK, Extends
  <1>6. ASSUME ~m.recording
        PROVE  TrackersOK(m, z, l, l, s)
    <2>1. /\ DOMAIN snapshot(m).account = DOMAIN m.account
          /\ \A k \in DOMAIN m.account :
                /\ snapshot(m).account[k].taken <=> ~m.account[k].borrowed
                /\ snapshot(m).account[k].verified = m.account[k].verified
      BY SnapshotLemma
    <2>2. \A k \in DOMAIN m.account : m.account[k].verified \in BOOLEAN
      BY <1>6 DEF AccountsOK, IsEntry
    <2>3. SnapshotOK(m, z, 1, l, s)
      BY <1>1, <1>3, <1>6, <2>1, <2>2 DEF SnapshotOK, Checks
    <2>. QED  BY <1>1, <1>3, <1>6, <2>3 DEF TrackersOK
  <1>7. Sound(m, z, l, "none", l, s)
    BY <1>4, <1>5, <1>6 DEF Sound
  <1>. QED  BY <1>1, <1>7 DEF z

StartingAt(b, n, w) == [b EXCEPT !.nonces = n, !.trace = w]

LEMMA FrameExcept ==
    ASSUME NEW b, IsFrame(b), NEW n, NEW w, NEW f, f = StartingAt(b, n, w)
    PROVE  /\ IsFrame(f) /\ f.kind = b.kind /\ f.fn = b.fn /\ f.snap = b.snap
           /\ f.grants = b.grants /\ f.nonces = n
  <1>1. f = [kind |-> b.kind, fn |-> b.fn, tracker |-> b.tracker, snap |-> b.snap,
             nonces |-> n, trace |-> w, grants |-> b.grants]
    BY DEF IsFrame, StartingAt
  <1>2. /\ f.kind = b.kind /\ f.fn = b.fn /\ f.tracker = b.tracker /\ f.snap = b.snap
        /\ f.nonces = n /\ f.trace = w /\ f.grants = b.grants
    BY <1>1
  <1>. QED  BY <1>1, <1>2 DEF IsFrame

\* The host function's frame h and the contract's f, with manager q.
Started(m, fn, q, h, f) ==
    /\ IsFrame(h) /\ h.kind = "host_fn" /\ h.snap = snapshot(m) /\ h.grants = {} /\ h.nonces = ledger
    /\ IsFrame(f) /\ f.kind = "call" /\ f.fn = fn /\ f.snap = snapshot(q) /\ f.grants = {}
    /\ f.nonces = ledger

LEMMA StartedLemma ==
    ASSUME NEW m, NEW fn, InvokeContract(m, fn), NEW q, q = PushCall(m, fn)
    PROVE  /\ am' = q /\ nonces' = ledger /\ raised' = "none" /\ raised = "none"
           /\ ledger' = ledger /\ seq' = seq /\ used' = used
           /\ \E h, f, z : z = <<h>> /\ Started(m, fn, q, h, f) /\ frames' = Append(z, f)
  <1>. DEFINE h == HostFunctionFrame(m)
              b == Frame("call", fn, q, 0)
              f == [b EXCEPT !.nonces = ledger, !.trace = <<>>]
              z == <<h>>
  <1>1. /\ IsFrame(h) /\ h.kind = "host_fn" /\ h.snap = snapshot(m) /\ h.grants = {}
        /\ h.nonces = ledger
    <2>. DEFINE x == snapshot(m)
                y == CreateFn(Source)
    <2>1. h = [kind |-> "host_fn", fn |-> y, tracker |-> 0, snap |-> x, nonces |-> ledger,
               trace |-> <<>>, grants |-> {}]
      BY DEF HostFunctionFrame
    <2>. HIDE DEF x, y, h
    <2>2. /\ h.kind = "host_fn" /\ h.fn = y /\ h.tracker = 0 /\ h.snap = x /\ h.nonces = ledger
          /\ h.trace = <<>> /\ h.grants = {}
      BY <2>1
    <2>. QED  BY <2>1, <2>2 DEF IsFrame, x
  <1>2. /\ IsFrame(f) /\ f.kind = "call" /\ f.fn = fn /\ f.snap = snapshot(q) /\ f.grants = {}
        /\ f.nonces = ledger
    <2>1. b = Frame("call", fn, q, 0)
      OBVIOUS
    <2>. HIDE DEF b
    <2>2. /\ IsFrame(b) /\ b.kind = "call" /\ b.fn = fn /\ b.snap = snapshot(q) /\ b.grants = {}
      BY <2>1, FrameLemma
    <2>. DEFINE w == <<>>
    <2>3. f = StartingAt(b, ledger, w)
      BY DEF StartingAt
    <2>. HIDE DEF f, w
    <2>4. /\ IsFrame(f) /\ f.kind = b.kind /\ f.fn = b.fn /\ f.snap = b.snap
          /\ f.grants = b.grants /\ f.nonces = ledger
      BY <2>2, <2>3, FrameExcept
    <2>. QED  BY <2>2, <2>4
  <1>3. /\ am' = q /\ frames' = <<h, f>> /\ nonces' = ledger /\ raised' = "none" /\ raised = "none"
        /\ ledger' = ledger /\ seq' = seq /\ used' = used
    BY DEF InvokeContract
  <1>4. frames' = Append(z, f)
    <2>. HIDE DEF h, f
    <2>. QED  BY <1>3
  <1>5. z = <<h>>
    OBVIOUS
  <1>. HIDE DEF h, b, f, z
  <1>6. Started(m, fn, q, h, f)
    BY <1>1, <1>2 DEF Started
  <1>. QED  BY <1>3, <1>4, <1>5, <1>6

LEMMA InvokeLemma ==
    ASSUME NEW m \in NewManagers, NEW fn, HostInv, InvokeContract(m, fn)
    PROVE  HostInv'
  <1>. DEFINE q == PushCall(m, fn)
  <1>1. /\ IsManager(m)
        /\ ~m.recording =>
              /\ AccountsOK(m)
              /\ \A k \in DOMAIN m.account : ~m.account[k].verified /\ ~m.account[k].borrowed
    BY NewManager
  <1>2. SameManager(m, q)
    BY <1>1, PushLemma
  <1>3. q = PushCall(m, fn)
    OBVIOUS
  <1>. HIDE DEF q
  <1>4. /\ am' = q /\ nonces' = ledger /\ raised' = "none" /\ raised = "none"
        /\ ledger' = ledger /\ seq' = seq /\ used' = used
        /\ \E h, f, z : z = <<h>> /\ Started(m, fn, q, h, f) /\ frames' = Append(z, f)
    BY <1>3, StartedLemma
  <1>5. PICK h, f, z : z = <<h>> /\ Started(m, fn, q, h, f) /\ frames' = Append(z, f)
    BY <1>4
  <1>6. NoncesOK(ledger) /\ seq \in Nat /\ UsedConsumed /\ NoReplay
    BY DEF HostInv
  <1>7. Sound(m, z, ledger, "none", ledger, seq) /\ z # <<>>
    <2>1. Sound(m, <<h>>, ledger, "none", ledger, seq) /\ <<h>> # <<>>
      BY <1>1, <1>5, <1>6, FirstSound DEF Started
    <2>. QED  BY <1>5, <2>1
  <1>8. Sound(q, Append(z, f), ledger, "none", ledger, seq) /\ Append(z, f) # <<>>
    <2>1. /\ IsFrame(f) /\ f.kind = "call" /\ f.snap = snapshot(q) /\ f.grants = {} /\ f.nonces = ledger
      BY <1>5 DEF Started
    <2>. QED  BY <1>2, <1>7, <2>1, PushSound
  <1>9. UsedConsumed' /\ NoReplay'
    BY <1>4, <1>6 DEF UsedConsumed, NoReplay
  <1>. QED  BY <1>4, <1>5, <1>6, <1>8, <1>9 DEF HostInv, Idle

\* The frame that is popped, and where it is.
LEMMA TopLemma ==
    ASSUME HostInv, ~Idle
    PROVE  /\ IsSequence(frames) /\ frames # <<>> /\ Len(frames) \in Nat /\ Len(frames) > 0
           /\ DOMAIN frames = 1..Len(frames) /\ Len(frames) \in DOMAIN frames
           /\ Top = frames[Len(frames)]
           /\ \A i \in DOMAIN frames : IsFrame(frames[i])
           /\ Top.kind = "host_fn" <=> Len(frames) = 1
           /\ frames[1].nonces = ledger
  <1>1. IsSequence(frames) /\ frames # <<>>
    BY DEF HostInv, Sound, StackOK, Idle
  <1>2. Len(frames) \in Nat /\ Len(frames) > 0 /\ DOMAIN frames = 1..Len(frames)
    BY <1>1, SequenceLemma
  <1>3. Len(frames) \in DOMAIN frames
    BY <1>2
  <1>4. Top = frames[Len(frames)]
    BY DEF Top, Last
  <1>5. /\ \A i \in DOMAIN frames : IsFrame(frames[i]) /\ (frames[i].kind = "host_fn" <=> i = 1)
        /\ frames[1].nonces = ledger
    BY <1>1 DEF HostInv, Sound, StackOK
  <1>. QED  BY <1>1, <1>2, <1>3, <1>4, <1>5

LEMMA CommitLemma ==
    ASSUME HostInv, Commit
    PROVE  HostInv'
  <1>. DEFINE G == {x \in Top.grants : ~x.source}
              new(g) == [tx |-> txs, address |-> g.address, payload |-> g.payload,
                         path |-> g.path, keys |-> g.keys]
  <1>1. /\ ~Idle /\ raised = "none" /\ raised' = "none" /\ seq' = seq /\ frames' = <<>>
        /\ ledger' = IF am.recording THEN ledger ELSE nonces
        /\ nonces' = ledger'
        /\ am' = IF am.recording THEN am ELSE new_enforcing(<<>>)
        /\ used' = used \cup {new(g) : g \in G}
    BY DEF Commit
  <1>2. /\ seq \in Nat /\ NoncesOK(ledger) /\ UsedConsumed /\ NoReplay
        /\ Sound(am, frames, nonces, raised, ledger, seq)
    BY DEF HostInv
  <1>3. Len(frames) \in DOMAIN frames /\ Top = frames[Len(frames)]
    BY <1>1, TopLemma
  <1>4. CASE am.recording
    <2>1. IsManager(am) /\ Top.grants = {}
      BY <1>2, <1>3, <1>4 DEF Sound, NoGrants
    <2>2. used' = used /\ ledger' = ledger /\ nonces' = ledger /\ am' = am
      BY <1>1, <1>4, <2>1
    <2>3. Sound(am, <<>>, ledger, "none", ledger, seq)
      BY <1>2, <1>4, <2>1, EmptySound
    <2>4. UsedConsumed' /\ NoReplay'
      BY <1>1, <1>2, <2>2 DEF UsedConsumed, NoReplay
    <2>. QED  BY <1>1, <1>2, <1>4, <2>2, <2>3, <2>4 DEF HostInv, Idle
  <1>5. CASE ~am.recording
    <2>. DEFINE m == new_enforcing(<<>>)
    <2>1. IsManager(m) /\ ~m.recording /\ DOMAIN m.account = {}
      BY NoEntries
    <2>2. ledger' = nonces /\ nonces' = nonces /\ am' = m
      BY <1>1, <1>5
    <2>. HIDE DEF m
    <2>3. GrantsOK(frames, nonces, ledger, seq)
      BY <1>2, <1>5 DEF Sound
    <2>4. NoncesOK(nonces) /\ Extends(nonces, ledger)
      BY <2>3 DEF GrantsOK
    <2>5. Sound(m, <<>>, nonces, "none", nonces, seq)
      BY <2>1, <2>4, EmptySound
    <2>6. ASSUME NEW g \in G
          PROVE  Backed(nonces, ledger, seq, <<g.address, g.payload[1]>>, g.payload[2])
      <3>1. g \in frames[Len(frames)].grants /\ ~g.source
        BY <1>3, <2>6
      <3>2. GrantBacked(g, nonces, ledger, seq)
        BY <1>3, <2>3, <3>1 DEF GrantsOK
      <3>. QED  BY <3>1, <3>2 DEF GrantBacked
    <2>7. ASSUME NEW g \in G
          PROVE  new(g).tx = txs /\ new(g).address = g.address /\ new(g).payload = g.payload
      OBVIOUS
    <2>8. ASSUME NEW u \in used'
          PROVE  u \in used \/ \E g \in G : u = new(g)
      BY <1>1
    <2>. HIDE DEF G, new
    <2>9. UsedConsumed'
      <3>. SUFFICES ASSUME NEW u \in used'
                   PROVE  /\ u.payload[2] \in Nat
                          /\ \/ seq > u.payload[2]
                             \/ /\ <<u.address, u.payload[1]>> \in DOMAIN nonces
                                /\ nonces[<<u.address, u.payload[1]>>] >= u.payload[2]
        BY <1>1, <2>2 DEF UsedConsumed
      <3>1. CASE u \in used
        BY <1>2, <2>4, <3>1 DEF UsedConsumed, Extends
      <3>2. ASSUME NEW g \in G, u = new(g)
            PROVE  /\ u.payload[2] \in Nat
                   /\ <<u.address, u.payload[1]>> \in DOMAIN nonces
                   /\ nonces[<<u.address, u.payload[1]>>] >= u.payload[2]
        BY <2>6, <2>7, <3>2 DEF Backed
      <3>. QED  BY <2>8, <3>1, <3>2
    <2>10. ASSUME NEW u \in used, NEW g \in G
           PROVE  <<u.address, u.payload>> # <<g.address, g.payload>>
      <3>. SUFFICES ASSUME u.address = g.address, u.payload = g.payload
                   PROVE  FALSE
        OBVIOUS
      <3>1. \/ seq > g.payload[2]
            \/ <<g.address, g.payload[1]>> \in DOMAIN ledger
        BY <1>2 DEF UsedConsumed
      <3>. QED  BY <1>2, <2>6, <3>1 DEF Backed
    <2>11. NoReplay'
      <3>. SUFFICES ASSUME NEW u \in used', NEW v \in used', u.tx # v.tx
                   PROVE  <<u.address, u.payload>> # <<v.address, v.payload>>
        BY DEF NoReplay
      <3>1. CASE u \in used /\ v \in used
        BY <1>2, <3>1 DEF NoReplay
      <3>2. CASE u \in used /\ v \notin used
        <4>1. PICK g \in G : v = new(g)
          BY <2>8, <3>2
        <4>. QED  BY <2>7, <2>10, <3>2, <4>1
      <3>3. CASE u \notin used /\ v \in used
        <4>1. PICK g \in G : u = new(g)
          BY <2>8, <3>3
        <4>. QED  BY <2>7, <2>10, <3>3, <4>1
      <3>4. CASE u \notin used /\ v \notin used
        BY <2>7, <2>8, <3>4
      <3>. QED  BY <3>1, <3>2, <3>3, <3>4
    <2>. QED  BY <1>1, <1>2, <2>1, <2>2, <2>4, <2>5, <2>9, <2>11 DEF HostInv, Idle
  <1>. QED  BY <1>4, <1>5

LEMMA CloseLemma ==
    ASSUME HostInv, CloseLedger
    PROVE  HostInv'
  <1>. DEFINE D == {k \in DOMAIN ledger : ledger[k] >= seq + 1}
              l == [k \in D |-> ledger[k]]
  <1>1. /\ Idle /\ ~am.recording /\ seq' = seq + 1 /\ ledger' = l /\ nonces' = l
        /\ am' = am /\ frames' = <<>> /\ raised' = raised /\ used' = used
    BY DEF CloseLedger, Idle
  <1>2. /\ seq \in Nat /\ NoncesOK(ledger) /\ UsedConsumed /\ NoReplay
        /\ raised = "none" /\ DOMAIN am.account = {} /\ IsManager(am)
    BY <1>1 DEF HostInv, Sound
  <1>3. DOMAIN l = D /\ \A k \in D : l[k] = ledger[k]
    OBVIOUS
  <1>4. \A k \in DOMAIN ledger : k \in D <=> ledger[k] >= seq + 1
    OBVIOUS
  <1>5. D \subseteq DOMAIN ledger
    OBVIOUS
  <1>. HIDE DEF D, l
  <1>6. NoncesOK(l)
    BY <1>2, <1>3, <1>5 DEF NoncesOK
  <1>7. Sound(am, <<>>, l, "none", l, seq + 1)
    BY <1>2, <1>6, EmptySound
  <1>8. UsedConsumed'
    <2>. SUFFICES ASSUME NEW u \in used
                 PROVE  /\ u.payload[2] \in Nat
                        /\ \/ seq + 1 > u.payload[2]
                           \/ /\ <<u.address, u.payload[1]>> \in DOMAIN l
                              /\ l[<<u.address, u.payload[1]>>] >= u.payload[2]
      BY <1>1 DEF UsedConsumed
    <2>. DEFINE k == <<u.address, u.payload[1]>>
                e == u.payload[2]
    <2>1. e \in Nat /\ (seq > e \/ (k \in DOMAIN ledger /\ ledger[k] >= e))
      BY <1>2 DEF UsedConsumed
    <2>. HIDE DEF k, e
    <2>2. seq + 1 > e \/ (k \in DOMAIN l /\ l[k] >= e)
      <3>1. k \in DOMAIN ledger => ledger[k] \in Int
        BY <1>2 DEF NoncesOK
      <3>. QED  BY <1>2, <1>3, <1>4, <2>1, <3>1
    <2>. QED  BY <2>1, <2>2 DEF k, e
  <1>9. NoReplay'
    BY <1>1, <1>2 DEF NoReplay
  <1>. QED  BY <1>1, <1>2, <1>6, <1>7, <1>8, <1>9 DEF HostInv, Idle

(***************************************************************************)
(* The steps of a transaction.                                             *)
(***************************************************************************)

LEMMA KeepLemma ==
    ASSUME HostInv, ledger' = ledger, seq' = seq, used' = used, frames' # <<>>,
           Sound(am', frames', nonces', raised', ledger, seq)
    PROVE  HostInv'
  <1>1. seq \in Nat /\ NoncesOK(ledger) /\ UsedConsumed /\ NoReplay
    BY DEF HostInv
  <1>2. UsedConsumed' /\ NoReplay'
    BY <1>1 DEF UsedConsumed, NoReplay
  <1>. QED  BY <1>1, <1>2 DEF HostInv, Idle

LEMMA RunningLemma ==
    ASSUME HostInv, ~Idle
    PROVE  /\ Sound(am, frames, nonces, raised, ledger, seq) /\ IsManager(am) /\ seq \in Nat
           /\ frames # <<>>
  BY DEF HostInv, Sound, Idle

LEMMA CallLemma ==
    ASSUME HostInv, NEW fn, NEW kind \in {"call", "try"}, Call(fn, kind)
    PROVE  HostInv'
  <1>. DEFINE q == PushCall(am, fn)
              f == Frame(kind, fn, q, 0)
  <1>1. /\ ~Idle /\ raised = "none" /\ am' = q /\ frames' = Append(frames, f)
        /\ raised' = raised /\ nonces' = nonces /\ ledger' = ledger /\ seq' = seq /\ used' = used
    BY DEF Call, Step, Running, Pushed
  <1>2. Sound(am, frames, nonces, "none", ledger, seq) /\ IsManager(am) /\ frames # <<>>
    BY <1>1, RunningLemma
  <1>3. SameManager(am, q)
    BY <1>2, PushLemma
  <1>. HIDE DEF q
  <1>4. f = Frame(kind, fn, q, 0)
    OBVIOUS
  <1>. HIDE DEF f
  <1>5. IsFrame(f) /\ f.kind = kind /\ f.snap = snapshot(q) /\ f.nonces = nonces /\ f.grants = {}
    BY <1>4, FrameLemma
  <1>6. Sound(q, Append(frames, f), nonces, "none", ledger, seq) /\ Append(frames, f) # <<>>
    BY <1>2, <1>3, <1>5, PushSound
  <1>. QED  BY <1>1, <1>6, KeepLemma

LEMMA AuthorizeLemma ==
    ASSUME HostInv, NEW tree, AuthorizeAsCurrContract(tree)
    PROVE  HostInv'
  <1>. DEFINE v == Append(am.invoker, NewTracker(Top.fn.contract, tree))
              q == [am EXCEPT !.invoker = v]
  <1>1. /\ ~Idle /\ raised = "none" /\ am' = q /\ frames' = frames
        /\ raised' = raised /\ nonces' = nonces /\ ledger' = ledger /\ seq' = seq /\ used' = used
    BY DEF AuthorizeAsCurrContract, Step, Running,
           add_invoker_contract_auth_with_curr_contract_as_invoker
  <1>2. Sound(am, frames, nonces, "none", ledger, seq) /\ IsManager(am) /\ frames # <<>>
    BY <1>1, RunningLemma
  <1>. HIDE DEF v
  <1>3. SameManager(am, q)
    BY <1>2, InvokerExcept
  <1>. HIDE DEF q
  <1>4. Sound(q, frames, nonces, "none", ledger, seq)
    BY <1>2, <1>3, SameSound
  <1>. QED  BY <1>1, <1>2, <1>4, KeepLemma

LEMMA RequireAuthLemma ==
    ASSUME HostInv, NEW object, RequireAuth(object)
    PROVE  HostInv'
  <1>1. /\ ~Idle /\ raised = "none" /\ Require(am, frames, object)
        /\ ledger' = ledger /\ seq' = seq /\ used' = used
    BY DEF RequireAuth, Step, Running
  <1>2. Sound(am, frames, nonces, "none", ledger, seq) /\ frames # <<>> /\ seq \in Nat
    BY <1>1, RunningLemma
  <1>3. Sound(am', frames', nonces', raised', ledger, seq) /\ frames' # <<>>
    BY <1>1, <1>2, RequireLemma
  <1>. QED  BY <1>1, <1>3, KeepLemma

LEMMA CreateLemma ==
    ASSUME HostInv, NEW object, CreateContract(object)
    PROVE  HostInv'
  <1>. DEFINE fn == CreateFn(AddressOf[object])
              q == PushCall(am, fn)
              f == Frame("create", fn, q, 0)
              stack == Append(frames, f)
  <1>1. /\ ~Idle /\ raised = "none" /\ Require(q, stack, object)
        /\ ledger' = ledger /\ seq' = seq /\ used' = used
    BY DEF CreateContract, Step, Running, Pushed
  <1>2. Sound(am, frames, nonces, "none", ledger, seq) /\ IsManager(am) /\ frames # <<>> /\ seq \in Nat
    BY <1>1, RunningLemma
  <1>3. SameManager(am, q)
    BY <1>2, PushLemma
  <1>. HIDE DEF fn, q
  <1>4. f = Frame("create", fn, q, 0)
    OBVIOUS
  <1>. HIDE DEF f
  <1>5. IsFrame(f) /\ f.kind = "create" /\ f.snap = snapshot(q) /\ f.nonces = nonces /\ f.grants = {}
    BY <1>4, FrameLemma
  <1>6. Sound(q, stack, nonces, "none", ledger, seq) /\ stack # <<>>
    BY <1>2, <1>3, <1>5, PushSound
  <1>. HIDE DEF stack
  <1>7. Sound(am', frames', nonces', raised', ledger, seq) /\ frames' # <<>>
    BY <1>1, <1>2, <1>6, RequireLemma
  <1>. QED  BY <1>1, <1>7, KeepLemma

\* A call that is refused, and a contract that fails.
LEMMA RaiseLemma ==
    ASSUME HostInv, ~Idle, raised = "none", raised' = "recoverable", am' = am, frames' = frames,
           nonces' = nonces, ledger' = ledger, seq' = seq, used' = used
    PROVE  HostInv'
  <1>1. Sound(am, frames, nonces, "none", ledger, seq) /\ IsManager(am) /\ frames # <<>>
    BY RunningLemma
  <1>2. SameManager(am, am)
    BY <1>1, SameLemma
  <1>3. Sound(am, frames, nonces, "recoverable", ledger, seq)
    BY <1>1, <1>2, SameSound
  <1>. QED  BY <1>1, <1>3, KeepLemma

LEMMA StatusLemma ==
    ASSUME NEW m, NEW stack, NEW n, NEW e, NEW l, NEW s, Sound(m, stack, n, e, l, s), e # "internal",
           ~m.recording, NEW q, SameManager(m, q)
    PROVE  /\ TrackersOK(m, stack, n, l, s) /\ AccountsOK(m)
           /\ SameEntries(m, q) /\ AccountsOK(q) /\ DOMAIN q.account = DOMAIN m.account
           /\ \A k \in DOMAIN m.account :
                 /\ q.account[k].verified = m.account[k].verified
                 /\ q.account[k].borrowed = m.account[k].borrowed
                 /\ q.account[k].verified => EntryBacked(q.account[k], n, l, s)
                 /\ q.account[k].borrowed => ~q.account[k].verified
  <1>1. TrackersOK(m, stack, n, l, s) /\ AccountsOK(m)
    BY DEF Sound, TrackersOK
  <1>2. SameEntries(m, q) /\ SameStatus(m, q)
    BY <1>1 DEF SameManager
  <1>3. \A k \in DOMAIN m.account :
           EntryBacked(m.account[k], n, l, s) <=> EntryBacked(q.account[k], n, l, s)
    BY <1>2, SameBacked DEF SameEntries
  <1>. QED  BY <1>1, <1>2, <1>3 DEF TrackersOK, SameEntries, SameStatus

LEMMA ReturnLemma ==
    ASSUME HostInv, Return
    PROVE  HostInv'
  <1>. DEFINE q == PopCall(am)
              d == Len(frames)
  <1>1. /\ ~Idle /\ raised = "none" /\ Top.kind \in {"call", "try", "create"}
        /\ am' = q /\ frames' = Popped /\ raised' = raised /\ nonces' = nonces
        /\ ledger' = ledger /\ seq' = seq /\ used' = used
    BY DEF Return
  <1>2. Sound(am, frames, nonces, "none", ledger, seq) /\ IsManager(am)
    BY <1>1, RunningLemma
  <1>3. /\ IsSequence(frames) /\ frames # <<>> /\ \A i \in DOMAIN frames : IsFrame(frames[i])
        /\ Top = frames[d] /\ d > 1
    <2>1. /\ IsSequence(frames) /\ frames # <<>> /\ \A i \in DOMAIN frames : IsFrame(frames[i])
          /\ Top = frames[d] /\ d \in Nat /\ d > 0
          /\ Top.kind = "host_fn" <=> d = 1
      BY <1>1, TopLemma
    <2>. HIDE DEF d
    <2>. QED  BY <1>1, <2>1
  <1>4. /\ Below(Popped, frames, d - 1)
        /\ \A i \in 1..d - 1 : \A g \in Popped[i].grants :
              g \in frames[i].grants \/ (i = d - 1 /\ g \in Top.grants)
    BY <1>3, PoppedLemma
  <1>5. SameManager(am, q)
    BY <1>2, PopLemma
  <1>. HIDE DEF q
  <1>6. IsManager(q) /\ q.recording = am.recording
    BY <1>5 DEF SameManager
  <1>7. ASSUME ~am.recording
        PROVE  Released(am, q, frames[d], nonces, ledger, seq)
    <2>1. \A k : ~Checks(frames[d], k)
      BY <1>1, <1>3 DEF Checks
    <2>2. /\ SameEntries(am, q)
          /\ \A k \in DOMAIN am.account :
                /\ q.account[k].borrowed = am.account[k].borrowed
                /\ q.account[k].verified => EntryBacked(q.account[k], nonces, ledger, seq)
                /\ q.account[k].borrowed => ~q.account[k].verified
      BY <1>2, <1>5, <1>7, StatusLemma
    <2>. QED  BY <2>1, <2>2 DEF Released
  <1>8. Sound(q, Popped, nonces, "none", ledger, seq) /\ Popped # <<>>
    <2>1. Inherits(Popped, frames, TRUE)
      BY <1>3, <1>4, Zenon DEF Inherits
    <2>. QED  BY <1>2, <1>3, <1>4, <1>6, <1>7, <2>1, PopSound
  <1>. QED  BY <1>1, <1>8, KeepLemma

LEMMA CheckAuthReturnLemma ==
    ASSUME HostInv, CheckAuthReturn
    PROVE  HostInv'
  <1>. DEFINE i == Top.tracker
              m == PopCall(am)
              t == m.account[i]
              p == Release(m, i)
              v == Verified(m, i)
              n == verify_and_consume_nonce(t, nonces, seq)
              g == Grant(m, i, Len(Popped))
              d == Len(frames)
  <1>1. /\ ~Idle /\ raised = "none" /\ Top.kind = "check_auth"
        /\ ledger' = ledger /\ seq' = seq /\ used' = used
        /\ \/ /\ NonceOK(t) /\ am' = v /\ frames' = Granted(Popped, m, i) /\ nonces' = n
              /\ raised' = raised
           \/ am' = p /\ frames' = Popped /\ nonces' = nonces /\ raised' = NonceError(t)
    BY DEF CheckAuthReturn, Running, Release
  <1>2. Sound(am, frames, nonces, "none", ledger, seq) /\ IsManager(am) /\ seq \in Nat
    BY <1>1, RunningLemma
  <1>3. /\ IsSequence(frames) /\ frames # <<>> /\ \A j \in DOMAIN frames : IsFrame(frames[j])
        /\ Top = frames[d] /\ d > 1 /\ d \in DOMAIN frames
    <2>1. /\ IsSequence(frames) /\ frames # <<>> /\ \A j \in DOMAIN frames : IsFrame(frames[j])
          /\ Top = frames[d] /\ d \in Nat /\ d > 0 /\ d \in DOMAIN frames
          /\ Top.kind = "host_fn" <=> d = 1
      BY <1>1, TopLemma
    <2>. HIDE DEF d
    <2>. QED  BY <1>1, <2>1
  <1>4. ~am.recording
    BY <1>1, <1>2, <1>3 DEF Sound, NoGrants
  <1>5. SameManager(am, m)
    BY <1>2, PopLemma
  <1>6. Granted(Popped, m, i) = IF i = 0 THEN Popped ELSE WithGrants(Popped, {g})
    BY DEF Granted, WithGrants
  <1>. HIDE DEF i, m, g
  <1>7. /\ IsManager(m) /\ m.recording = am.recording
        /\ TrackersOK(am, frames, nonces, ledger, seq) /\ AccountsOK(am)
        /\ SameEntries(am, m) /\ AccountsOK(m) /\ DOMAIN m.account = DOMAIN am.account
        /\ \A k \in DOMAIN am.account :
              /\ m.account[k].verified = am.account[k].verified
              /\ m.account[k].borrowed = am.account[k].borrowed
              /\ m.account[k].verified => EntryBacked(m.account[k], nonces, ledger, seq)
              /\ m.account[k].borrowed => ~m.account[k].verified
    BY <1>2, <1>4, <1>5, StatusLemma DEF SameManager
  <1>8. i \in DOMAIN m.account /\ m.account[i].borrowed /\ i # 0 /\ IsEntry(t)
    <2>1. i \in DOMAIN m.account /\ m.account[i].borrowed
      BY <1>1, <1>3, <1>7 DEF TrackersOK, i
    <2>. QED  BY <1>7, <2>1 DEF AccountsOK
  <1>9. /\ IsManager(p) /\ p.recording = m.recording /\ SameEntries(m, p)
        /\ p.account[i].verified = m.account[i].verified /\ ~p.account[i].borrowed
        /\ \A k \in DOMAIN m.account : k # i => p.account[k] = m.account[k]
    BY <1>7, <1>8, BorrowFalse
  <1>10. /\ Below(Popped, frames, d - 1)
         /\ \A j \in 1..d - 1 : \A x \in Popped[j].grants :
               x \in frames[j].grants \/ (j = d - 1 /\ x \in Top.grants)
    BY <1>3, PoppedLemma
  <1>. HIDE DEF p
  <1>11. Sound(p, Popped, nonces, "none", ledger, seq) /\ Popped # <<>>
    <2>1. Inherits(Popped, frames, TRUE)
      BY <1>3, <1>10, Zenon DEF Inherits
    <2>2. SameEntries(am, p)
      BY <1>7, <1>9 DEF SameEntries, SameEntry
    <2>3. ASSUME NEW k \in DOMAIN am.account
          PROVE  /\ p.account[k].verified => EntryBacked(p.account[k], nonces, ledger, seq)
                 /\ p.account[k].borrowed => ~p.account[k].verified
                 /\ p.account[k].borrowed <=> am.account[k].borrowed /\ ~Checks(frames[d], k)
      <3>1. Checks(frames[d], k) <=> k = i
        BY <1>1, <1>3 DEF Checks, i
      <3>. QED  BY <1>7, <1>8, <1>9, <3>1
    <2>4. Released(am, p, frames[d], nonces, ledger, seq)
      BY <2>2, <2>3 DEF Released
    <2>. QED  BY <1>2, <1>3, <1>7, <1>9, <1>10, <2>1, <2>4, PopSound, ZenonT(40)
  <1>12. CASE am' = p /\ frames' = Popped /\ nonces' = nonces /\ raised' = NonceError(t)
    <2>1. SameManager(p, p)
      BY <1>9, SameLemma
    <2>2. Sound(p, Popped, nonces, raised', ledger, seq)
      BY <1>11, <2>1, SameSound
    <2>. QED  BY <1>1, <1>11, <1>12, <2>2, KeepLemma
  <1>13. CASE /\ NonceOK(t) /\ am' = v /\ frames' = Granted(Popped, m, i) /\ nonces' = n
              /\ raised' = raised
    <2>1. NoncesOK(nonces) /\ Extends(nonces, ledger)
      BY <1>2, <1>4 DEF Sound, GrantsOK
    <2>2. /\ NoncesOK(n) /\ Extends(n, nonces) /\ Extends(n, ledger)
          /\ EntryBacked(t, n, ledger, seq)
      BY <1>2, <1>8, <1>13, <2>1, ConsumeLemma
    <2>3. /\ IsManager(v) /\ v.recording = m.recording /\ SameEntries(m, v)
          /\ v.account[i].verified /\ ~v.account[i].borrowed
          /\ \A k \in DOMAIN m.account : k # i => v.account[k] = m.account[k]
      BY <1>7, <1>8, VerifiedLemma
    <2>4. \A x \in {g} : GrantBacked(x, n, ledger, seq)
      BY <2>2, GrantLemma DEF g
    <2>. HIDE DEF n, v
    <2>5. SameEntries(p, v)
      BY <1>9, <2>3 DEF SameEntries, SameEntry
    <2>6. ASSUME NEW k \in DOMAIN p.account
          PROVE  /\ v.account[k].verified => EntryBacked(v.account[k], n, ledger, seq)
                 /\ v.account[k].borrowed => ~v.account[k].verified
                 /\ v.account[k].borrowed <=> p.account[k].borrowed
      <3>0. k \in DOMAIN m.account
        BY <1>9 DEF SameEntries
      <3>1. CASE k = i
        <4>1. EntryBacked(m.account[i], n, ledger, seq) <=> EntryBacked(v.account[i], n, ledger, seq)
          BY <1>8, <2>3, SameBacked DEF SameEntries
        <4>. QED  BY <1>9, <2>2, <2>3, <3>1, <4>1
      <3>2. CASE k # i
        <4>1. v.account[k] = m.account[k] /\ p.account[k] = m.account[k]
          BY <1>9, <2>3, <3>0, <3>2
        <4>2. m.account[k].verified => EntryBacked(m.account[k], n, ledger, seq)
          BY <1>7, <2>2, <3>0, BackedLemma
        <4>. QED  BY <1>7, <3>0, <4>1, <4>2
      <3>. QED  BY <3>1, <3>2
    <2>7. Sound(v, WithGrants(Popped, {g}), n, "none", ledger, seq) /\ WithGrants(Popped, {g}) # <<>>
      <3>1. ~p.recording /\ v.recording = p.recording
        BY <1>4, <1>7, <1>9, <2>3
      <3>. QED  BY <1>11, <2>2, <2>3, <2>4, <2>5, <2>6, <3>1, GrantSound
    <2>8. frames' = WithGrants(Popped, {g}) /\ am' = v /\ nonces' = n /\ raised' = "none"
      BY <1>1, <1>6, <1>8, <1>13
    <2>. QED  BY <1>1, <2>7, <2>8, KeepLemma
  <1>. QED  BY <1>1, <1>12, <1>13

LEMMA UnborrowLemma ==
    ASSUME NEW m, IsManager(m), NEW f
    PROVE  IsManager(Unborrow(m, f)) /\ Unborrow(m, f).recording = m.recording
  <1>1. CASE f.kind = "check_auth"
    <2>. DEFINE a == [m.account EXCEPT ![f.tracker].borrowed = FALSE]
                r == Unborrow(m, f)
    <2>1. r = [m EXCEPT !.account = a]
      BY <1>1 DEF Unborrow, IsManager
    <2>. SUFFICES IsManager(r) /\ r.recording = m.recording
      OBVIOUS
    <2>. HIDE DEF a, r
    <2>. QED  BY <2>1, AccountField
  <1>2. CASE f.kind # "check_auth"
    BY <1>2 DEF Unborrow
  <1>. QED  BY <1>1, <1>2

\* The frame that fails is rolled back: its entries are as it found them, and the entry
\* of a __check_auth that failed is free again.
LEMMA UnwoundLemma ==
    ASSUME HostInv, ~Idle,
           NEW q, q = Unborrow(PopCall(rollback(am, Top.snap)), Top)
    PROVE  /\ IsManager(q) /\ q.recording = am.recording
           /\ ~am.recording /\ raised # "internal" => Released(am, q, Top, Top.nonces, ledger, seq)
  <1>. DEFINE d == Len(frames)
              r == rollback(am, Top.snap)
              p == PopCall(r)
              i == Top.tracker
  <1>1. Sound(am, frames, nonces, raised, ledger, seq) /\ IsManager(am)
    BY RunningLemma
  <1>2. d \in DOMAIN frames /\ Top = frames[d] /\ \A j \in DOMAIN frames : j <= d
    BY TopLemma
  <1>3. IsManager(r) /\ r.recording = am.recording
    BY <1>1, RollbackLemma
  <1>4. SameManager(r, p)
    BY <1>3, PopLemma
  <1>5. IsManager(p) /\ p.recording = am.recording
    BY <1>3, <1>4 DEF SameManager
  <1>6. IsManager(q) /\ q.recording = am.recording
    BY <1>5, UnborrowLemma
  <1>7. ASSUME ~am.recording, raised # "internal"
        PROVE  Released(am, q, Top, Top.nonces, ledger, seq)
    <2>1. TrackersOK(am, frames, nonces, ledger, seq)
      BY <1>1, <1>7 DEF Sound
    <2>2. r = rollback(am, frames[d].snap)
      BY <1>2
    <2>3. /\ SameEntries(am, r)
          /\ \A k \in DOMAIN am.account :
                /\ r.account[k].verified => EntryBacked(r.account[k], Top.nonces, ledger, seq)
                /\ r.account[k].borrowed => ~r.account[k].verified
                /\ r.account[k].borrowed = am.account[k].borrowed
      BY <1>1, <1>2, <1>7, <2>1, <2>2, RollbackSound
    <2>. HIDE DEF r, p, d
    <2>4. SameEntries(r, p) /\ SameStatus(r, p)
      BY <1>4, <2>3 DEF SameManager, SameEntries
    <2>5. \A k \in DOMAIN r.account :
             EntryBacked(r.account[k], Top.nonces, ledger, seq)
                <=> EntryBacked(p.account[k], Top.nonces, ledger, seq)
      BY <2>4, SameBacked DEF SameEntries
    <2>6. /\ SameEntries(am, p) /\ AccountsOK(p)
          /\ \A k \in DOMAIN am.account :
                /\ p.account[k].verified => EntryBacked(p.account[k], Top.nonces, ledger, seq)
                /\ p.account[k].borrowed => ~p.account[k].verified
                /\ p.account[k].borrowed = am.account[k].borrowed
      <3>1. SameEntries(am, p) /\ AccountsOK(p) /\ DOMAIN r.account = DOMAIN am.account
        BY <2>3, <2>4 DEF SameEntries, SameEntry
      <3>. QED  BY <2>3, <2>4, <2>5, <3>1 DEF SameStatus
    <2>7. CASE Top.kind = "check_auth"
      <3>1. i \in DOMAIN am.account /\ am.account[i].borrowed
        BY <1>2, <2>1, <2>7 DEF TrackersOK
      <3>2. i \in DOMAIN p.account /\ q = Release(p, i)
        BY <2>6, <2>7, <3>1 DEF SameEntries, Unborrow, Release, p, r
      <3>3. /\ SameEntries(p, q)
            /\ q.account[i].verified = p.account[i].verified /\ ~q.account[i].borrowed
            /\ \A k \in DOMAIN p.account : k # i => q.account[k] = p.account[k]
        BY <1>5, <2>6, <3>2, BorrowFalse
      <3>4. SameEntries(am, q)
        BY <2>6, <3>3 DEF SameEntries, SameEntry
      <3>5. \A k : Checks(Top, k) <=> k = i
        BY <2>7 DEF Checks
      <3>6. EntryBacked(p.account[i], Top.nonces, ledger, seq)
               <=> EntryBacked(q.account[i], Top.nonces, ledger, seq)
        BY <3>2, <3>3, SameBacked DEF SameEntries
      <3>7. DOMAIN p.account = DOMAIN am.account
        BY <2>6 DEF SameEntries
      <3>8. ASSUME NEW k \in DOMAIN am.account
            PROVE  /\ q.account[k].verified => EntryBacked(q.account[k], Top.nonces, ledger, seq)
                   /\ q.account[k].borrowed => ~q.account[k].verified
                   /\ q.account[k].borrowed <=> am.account[k].borrowed /\ ~Checks(Top, k)
        <4>. HIDE DEF i
        <4>1. CASE k = i
          BY <2>6, <3>1, <3>3, <3>5, <3>6, <4>1
        <4>2. CASE k # i
          BY <2>6, <3>3, <3>5, <3>7, <4>2
        <4>. QED  BY <4>1, <4>2
      <3>. QED  BY <3>4, <3>8 DEF Released
    <2>8. CASE Top.kind # "check_auth"
      <3>1. q = p
        BY <2>8 DEF Unborrow, p, r
      <3>2. \A k : ~Checks(Top, k)
        BY <2>8 DEF Checks
      <3>. QED  BY <2>6, <3>1, <3>2 DEF Released
    <2>. QED  BY <2>7, <2>8
  <1>. QED  BY <1>6, <1>7

LEMMA UnwindLemma ==
    ASSUME HostInv, Unwind
    PROVE  HostInv'
  <1>. DEFINE d == Len(frames)
              q == Unborrow(PopCall(rollback(am, Top.snap)), Top)
              b == Unborrow(rollback_accounts(am, Top.snap), Top)
              p == PopCall(am)
              z == new_enforcing(<<>>)
  <1>1. /\ ~Idle /\ raised # "none" /\ frames' = Front(frames)
        /\ ledger' = ledger /\ seq' = seq /\ used' = used
        /\ Top.kind = "create" => am' = p /\ raised' = raised /\ nonces' = nonces
        /\ Top.kind # "create" /\ d = 1 => am' = z /\ raised' = "none" /\ nonces' = Top.nonces
        /\ Top.kind # "create" /\ d > 1 =>
              /\ nonces' = Top.nonces
              /\ \/ am' = b /\ raised' = "internal"
                 \/ am' = q /\ raised' = raised
                 \/ am' = q /\ raised' = "none" /\ raised = "recoverable"
    <2>1. /\ ~Idle /\ raised # "none" /\ frames' = Front(frames)
          /\ ledger' = ledger /\ seq' = seq /\ used' = used
      BY DEF Unwind
    <2>2. d \in Nat
      BY <2>1, TopLemma
    <2>3. Top.kind = "create" => am' = p /\ raised' = raised /\ nonces' = nonces
      BY DEF Unwind
    <2>4. Top.kind # "create" /\ d = 1 => am' = z /\ raised' = "none" /\ nonces' = Top.nonces
      BY DEF Unwind
    <2>5. ASSUME Top.kind # "create", d > 1, ~CanRollback(am, Top.snap)
          PROVE  nonces' = Top.nonces /\ am' = b /\ raised' = "internal"
      <3>1. d # 1
        <4>. HIDE DEF d
        <4>. QED  BY <2>2, <2>5
      <3>2. nonces' = Top.nonces /\ am' = b
        BY <2>5, <3>1, Zenon DEF Unwind
      <3>3. raised' = "internal"
        BY <2>5, <3>1, Zenon DEF Unwind
      <3>. QED  BY <3>2, <3>3
    <2>6. ASSUME Top.kind # "create", d > 1, CanRollback(am, Top.snap)
          PROVE  /\ nonces' = Top.nonces
                 /\ am' = q
                 /\ raised' = raised \/ (raised' = "none" /\ raised = "recoverable")
      <3>1. d # 1
        <4>. HIDE DEF d
        <4>. QED  BY <2>2, <2>6
      <3>2. nonces' = Top.nonces /\ am' = q
        BY <2>6, <3>1, Zenon DEF Unwind
      <3>3. raised' = raised \/ (raised' = "none" /\ raised = "recoverable")
        BY <2>6, <3>1, Zenon DEF Unwind
      <3>. QED  BY <3>2, <3>3
    <2>. QED  BY <2>1, <2>3, <2>4, <2>5, <2>6
  <1>2. /\ Sound(am, frames, nonces, raised, ledger, seq) /\ IsManager(am) /\ seq \in Nat
        /\ NoncesOK(ledger) /\ UsedConsumed /\ NoReplay
    BY <1>1, RunningLemma DEF HostInv
  <1>3. /\ IsSequence(frames) /\ frames # <<>> /\ \A j \in DOMAIN frames : IsFrame(frames[j])
        /\ Top = frames[d] /\ d \in Nat /\ d > 0 /\ frames[1].nonces = ledger
        /\ Top.kind = "host_fn" <=> d = 1
    BY <1>1, TopLemma
  <1>4. /\ Below(Front(frames), frames, d - 1)
        /\ \A j \in 1..d - 1 : Front(frames)[j] = frames[j]
    BY <1>3, BelowFront
  <1>5. Inherits(Front(frames), frames, TRUE) /\ Inherits(Front(frames), frames, FALSE)
    BY <1>4, Zenon DEF Inherits
  <1>6. CASE d = 1
    <2>1. IsManager(z) /\ ~z.recording /\ DOMAIN z.account = {}
      BY NoEntries
    <2>2. am' = z /\ raised' = "none" /\ nonces' = ledger
      BY <1>1, <1>3, <1>6
    <2>. HIDE DEF z
    <2>3. frames' = <<>>
      <3>1. IsSequence(Front(frames)) /\ Len(Front(frames)) = d - 1
        BY <1>3, FrontLemma
      <3>2. Len(Front(frames)) = 0
        BY <1>6, <3>1
      <3>. QED  BY <1>1, <3>1, <3>2, SequenceLemma
    <2>4. Sound(z, <<>>, ledger, "none", ledger, seq)
      BY <1>2, <2>1, EmptySound
    <2>5. Sound(am', frames', nonces', raised', ledger', seq')
      BY <1>1, <2>2, <2>3, <2>4
    <2>6. UsedConsumed' /\ NoReplay'
      BY <1>1, <1>2 DEF UsedConsumed, NoReplay
    <2>. QED  BY <1>1, <1>2, <2>1, <2>2, <2>5, <2>6 DEF HostInv, Idle
  <1>7. CASE d > 1 /\ Top.kind = "create"
    <2>1. SameManager(am, p)
      BY <1>2, PopLemma
    <2>. HIDE DEF p
    <2>2. IsManager(p) /\ p.recording = am.recording
      BY <2>1 DEF SameManager
    <2>3. ASSUME ~am.recording, raised # "internal"
          PROVE  Released(am, p, frames[d], nonces, ledger, seq)
      <3>1. \A k : ~Checks(frames[d], k)
        BY <1>3, <1>7 DEF Checks
      <3>2. /\ SameEntries(am, p)
            /\ \A k \in DOMAIN am.account :
                  /\ p.account[k].borrowed = am.account[k].borrowed
                  /\ p.account[k].verified => EntryBacked(p.account[k], nonces, ledger, seq)
                  /\ p.account[k].borrowed => ~p.account[k].verified
        BY <1>2, <2>1, <2>3, StatusLemma
      <3>. QED  BY <3>1, <3>2 DEF Released
    <2>4. Sound(p, Front(frames), nonces, raised, ledger, seq) /\ Front(frames) # <<>>
      BY <1>2, <1>4, <1>5, <1>7, <2>2, <2>3, PopSound, ZenonT(40)
    <2>. QED  BY <1>1, <1>7, <2>4, KeepLemma
  <1>8. CASE d > 1 /\ Top.kind # "create"
    <2>1. IsManager(b) /\ b.recording = am.recording
      <3>. DEFINE x == rollback_accounts(am, Top.snap)
      <3>1. IsManager(x) /\ x.recording = am.recording
        BY <1>2, AccountsRolled
      <3>. HIDE DEF x
      <3>2. \A f : IsManager(Unborrow(x, f)) /\ Unborrow(x, f).recording = x.recording
        BY <3>1, UnborrowLemma
      <3>. QED  BY <3>1, <3>2 DEF x
    <2>2. /\ IsManager(q) /\ q.recording = am.recording
          /\ ~am.recording /\ raised # "internal" => Released(am, q, Top, Top.nonces, ledger, seq)
      BY <1>1, UnwoundLemma
    <2>. HIDE DEF b, q
    <2>3. /\ IsManager(am') /\ am'.recording = am.recording /\ nonces' = frames[d].nonces
          /\ raised = "internal" => raised' = "internal"
          /\ ~am.recording /\ raised' # "internal" =>
                Released(am, am', frames[d], nonces', ledger, seq)
      <3>1. nonces' = Top.nonces
        BY <1>1, <1>8
      <3>2. CASE am' = b /\ raised' = "internal"
        BY <1>3, <2>1, <3>1, <3>2
      <3>3. CASE am' = q /\ (raised' = raised \/ (raised' = "none" /\ raised = "recoverable"))
        BY <1>3, <2>2, <3>1, <3>3
      <3>. QED  BY <1>1, <1>8, <3>2, <3>3
    <2>4. Sound(am', Front(frames), nonces', raised', ledger, seq) /\ Front(frames) # <<>>
      <3>1. nonces' = frames[d].nonces /\ Inherits(Front(frames), frames, FALSE)
        BY <1>5, <2>3
      <3>. QED  BY <1>2, <1>4, <1>8, <2>3, <3>1, PopSound
    <2>5. Sound(am', frames', nonces', raised', ledger, seq) /\ frames' # <<>>
      BY <1>1, <2>4, Zenon
    <2>6. ledger' = ledger /\ seq' = seq /\ used' = used
      BY <1>1
    <2>. QED  BY <2>5, <2>6, KeepLemma
  <1>9. d = 1 \/ d > 1
    <2>. HIDE DEF d
    <2>. QED  BY <1>3
  <1>. QED  BY <1>6, <1>7, <1>8, <1>9, Zenon

(***************************************************************************)
(* The results.                                                            *)
(***************************************************************************)

LEMMA InitLemma == Init => HostInv
  <1>. SUFFICES ASSUME Init PROVE HostInv
    OBVIOUS
  <1>. DEFINE z == new_enforcing(<<>>)
  <1>1. /\ am = z /\ frames = <<>> /\ raised = "none" /\ nonces = ledger /\ ledger = <<>>
        /\ seq = 1 /\ used = {}
    BY DEF Init
  <1>2. IsManager(z) /\ ~z.recording /\ DOMAIN z.account = {}
    BY NoEntries
  <1>. HIDE DEF z
  <1>3. seq \in Nat /\ NoncesOK(ledger)
    BY <1>1 DEF NoncesOK
  <1>4. Sound(z, <<>>, ledger, raised, ledger, seq)
    BY <1>2, <1>3, EmptySound
  <1>5. UsedConsumed /\ NoReplay
    BY <1>1 DEF UsedConsumed, NoReplay
  <1>. QED  BY <1>1, <1>2, <1>3, <1>4, <1>5 DEF HostInv, Idle

LEMMA NextLemma ==
    ASSUME HostInv, Next
    PROVE  HostInv'
  <1>1. CASE \E m \in NewManagers, fn \in Functions : InvokeContract(m, fn)
    BY <1>1, InvokeLemma
  <1>2. CASE \E fn \in Functions, kind \in {"call", "try"} : Call(fn, kind)
    BY <1>2, CallLemma
  <1>3. CASE \E fn \in Functions : CallRefused(fn)
    BY <1>3, RaiseLemma DEF CallRefused, Step, Running
  <1>4. CASE \E tree \in InvokerTrees : AuthorizeAsCurrContract(tree)
    BY <1>4, AuthorizeLemma
  <1>5. CASE \E object \in Objects : RequireAuth(object)
    BY <1>5, RequireAuthLemma
  <1>6. CASE \E object \in Objects : CreateContract(object)
    BY <1>6, CreateLemma
  <1>7. CASE Fail
    BY <1>7, RaiseLemma DEF Fail, Running
  <1>8. CASE Return
    BY <1>8, ReturnLemma
  <1>9. CASE CheckAuthReturn
    BY <1>9, CheckAuthReturnLemma
  <1>10. CASE Unwind
    BY <1>10, UnwindLemma
  <1>11. CASE Commit
    BY <1>11, CommitLemma
  <1>12. CASE CloseLedger
    BY <1>12, CloseLemma
  <1>. QED  BY <1>1, <1>2, <1>3, <1>4, <1>5, <1>6, <1>7, <1>8, <1>9, <1>10, <1>11, <1>12 DEF Next

LEMMA StutterLemma ==
    ASSUME HostInv, UNCHANGED vars
    PROVE  HostInv'
  <1>1. /\ am' = am /\ frames' = frames /\ raised' = raised /\ nonces' = nonces
        /\ ledger' = ledger /\ seq' = seq /\ used' = used
    BY DEF vars
  <1>2. Sound(am', frames', nonces', raised', ledger', seq')
    BY <1>1 DEF HostInv
  <1>3. UsedConsumed' /\ NoReplay'
    BY <1>1 DEF HostInv, UsedConsumed, NoReplay
  <1>. QED  BY <1>1, <1>2, <1>3 DEF HostInv, Idle

\* Whatever contracts call, require, authorize, recover from or leave to fail: the frames,
\* the manager and the nonces fit together.  An entry counts as verified only while this
\* transaction's nonces hold its own, in every state a rollback could restore too; the
\* borrowed entries are exactly those whose __check_auth is on the stack; everything a
\* frame was granted rests on a nonce that outlives the signature.
THEOREM HostInvariant == Spec => []HostInv
  <1>1. Init => HostInv
    BY InitLemma
  <1>2. HostInv /\ [Next]_vars => HostInv'
    BY NextLemma, StutterLemma
  <1>. QED  BY <1>1, <1>2, PTL DEF Spec

\* A node of a signed entry serves one transaction at most (consume_nonce and the life of
\* the nonce's ledger entry), for any contracts, entries, footprints and ledgers.
THEOREM NoReplayCorrect == Spec => []NoReplay
  <1>1. HostInv => NoReplay
    BY DEF HostInv
  <1>. QED  BY <1>1, HostInvariant, PTL

(***************************************************************************)
(* What a frame was granted: the second invariant, relative to HostInv.    *)
(***************************************************************************)

\* Node `path' of entry k is the function that frame i runs, and a frame below was
\* granted the parent of the node.
InContext(m, stack, k, path, i) ==
    /\ m.account[k].invocation.tree[path] = stack[i].fn
    /\ path # <<>> => \E j \in 1..i - 1 : \E h \in stack[j].grants :
                         h.depth = j /\ h.tracker = k /\ h.path = Front(path)

\* The nodes of entry k that the frames up to i hold.
PathsUpTo(stack, k, i) ==
    {g.path : g \in {x \in UNION {stack[j].grants : j \in 1..i} : x.tracker = k}}

QuorumOf(a, keys) == Total([k \in keys |-> SignerWeight[a][k]]) >= MediumThreshold[a]

KeysOf(t) == {t.signatures[i].key : i \in DOMAIN t.signatures}

\* A classic account's entry carries the signatures of a quorum.
EntrySigned(t) ==
    t.source \/ t.invocation.address \notin ClassicAccounts \/ QuorumOf(t.invocation.address, KeysOf(t))

GrantSigned(g) == g.source \/ g.address \notin ClassicAccounts \/ QuorumOf(g.address, g.keys)

SignaturesOK(t) ==
    t.invocation.address \in ClassicAccounts =>
        /\ DOMAIN t.signatures = 1..Len(t.signatures)
        /\ \A i \in DOMAIN t.signatures : t.signatures[i].key \in Keys

FrameFits(m, f) ==
    /\ \A k \in DOMAIN m.account : f.snap.account[k].verified \in BOOLEAN
    /\ f.kind = "check_auth" => f.tracker \in DOMAIN m.account

\* Grant g of frame j is its own, or was left to it by a frame above.
GrantFits(m, stack, j, g) ==
    /\ g.tracker \in DOMAIN m.account /\ g.depth \in Nat /\ g.depth >= j
    /\ GrantSigned(g)
    /\ g.depth = j => InContext(m, stack, g.tracker, g.path, j)

\* What is true of the entries and grants after an internal error too.
GrantsFit(m, stack) ==
    /\ AccountsOK(m)
    /\ \A k \in DOMAIN m.account : SignaturesOK(m.account[k])
    /\ \A j \in DOMAIN stack :
          FrameFits(m, stack[j]) /\ \A g \in stack[j].grants : GrantFits(m, stack, j, g)

\* The manager's stack has the functions of the frames above the host function's.
CallsFit(m, stack) ==
    /\ IsSequence(m.call_stack) /\ Len(stack) = Len(m.call_stack) + 1
    /\ \A i \in DOMAIN m.call_stack : m.call_stack[i] = stack[i + 1].fn

MatchesOf(m, k) == m.account[k].invocation.match_stack

NodesOf(m, k) == m.account[k].invocation.exhausted

\* What frame p + 1 matched fits there.
MatchFits(m, stack, k, p) ==
    MatchesOf(m, k)[p] # Unmatched =>
        \E path \in MatchesOf(m, k)[p] :
            MatchesOf(m, k)[p] = {path} /\ IsSequence(path) /\ InContext(m, stack, k, path, p + 1)

\* Frame p + 1 was granted what it matched.
MatchHeld(m, stack, k, p) ==
    \A path \in MatchesOf(m, k)[p] :
        \E g \in stack[p + 1].grants : g.depth = p + 1 /\ g.tracker = k /\ g.path = path

\* The match states of an entry are held by the frames, except perhaps the last one:
\* what it matched is still to be authenticated, or its authentication failed.
MatchesFit(m, stack, k) ==
    /\ IsSequence(MatchesOf(m, k))
    /\ \A p \in 1..Len(MatchesOf(m, k)) :
          MatchFits(m, stack, k, p) /\ (p < Len(MatchesOf(m, k)) => MatchHeld(m, stack, k, p))

Held(m, stack, k) == \A p \in 1..Len(MatchesOf(m, k)) : MatchHeld(m, stack, k, p)

Settled(m, stack, k) ==
    /\ Held(m, stack, k)
    /\ NodesOf(m, k) = PathsUpTo(stack, k, Len(stack))

\* An entry that is not being authenticated follows the calls.
TrackerFits(m, stack, e, k) ==
    /\ MatchesFit(m, stack, k)
    /\ ~m.account[k].borrowed =>
          Len(MatchesOf(m, k)) + 1 = Len(stack) /\ (e = "none" => Settled(m, stack, k))

\* Frame c is (or would be) the __check_auth of entry k: what the frame below matched is
\* pending, and nothing above uses the entry.
CheckFits(m, stack, c, k) ==
    LET d == Len(MatchesOf(m, k))
    IN  /\ d + 2 = c /\ d > 0 /\ MatchesOf(m, k)[d] # Unmatched
        /\ NodesOf(m, k) = PathsUpTo(stack, k, c - 1) \cup MatchesOf(m, k)[d]
        /\ \A j \in c..Len(stack) : \A g \in stack[j].grants : g.tracker # k

\* Every nonce that this transaction consumed is that of an entry in V.
Consumed(m, n, l, V) ==
    \A k \in DOMAIN m.account :
        ~m.account[k].source /\ NonceKey(m.account[k]) \in DOMAIN n \ DOMAIN l =>
            \E i \in V : NonceKey(m.account[i]) = NonceKey(m.account[k])

VerifiedEntries(m) == {k \in DOMAIN m.account : m.account[k].verified}

RestoredEntries(m, f) ==
    {k \in DOMAIN m.account : f.snap.account[k].taken /\ f.snap.account[k].verified}

\* What rolling frame j back restores: the nodes that the frames below hold.
RestoreFits(m, stack, j, l) ==
    /\ \A k \in DOMAIN m.account :
          stack[j].snap.account[k].taken =>
              stack[j].snap.account[k].exhausted = PathsUpTo(stack, k, j - 1)
    /\ Consumed(m, stack[j].nonces, l, RestoredEntries(m, stack[j]))
    /\ \A k \in RestoredEntries(m, stack[j]) : EntrySigned(m.account[k])

TrackersFit(m, stack, n, e, l) ==
    /\ CallsFit(m, stack)
    /\ \A k \in DOMAIN m.account : TrackerFits(m, stack, e, k)
    /\ \A c \in DOMAIN stack : stack[c].kind = "check_auth" =>
          /\ CheckFits(m, stack, c, stack[c].tracker)
          /\ m.account[stack[c].tracker].invocation.address \notin ClassicAccounts
    /\ \A j \in DOMAIN stack : RestoreFits(m, stack, j, l)
    /\ Consumed(m, n, l, VerifiedEntries(m))
    /\ \A k \in VerifiedEntries(m) : EntrySigned(m.account[k])

Fitting(m, stack, n, e, l) ==
    ~m.recording => GrantsFit(m, stack) /\ (e # "internal" => TrackersFit(m, stack, n, e, l))

GrantInv ==
    /\ QuorumSigned
    /\ ~Idle => Fitting(am, frames, nonces, raised, ledger)

(***************************************************************************)
(* What the operations do to the match states and to the nodes used.       *)
(***************************************************************************)

LEMMA TrackerEffects ==
    ASSUME NEW v, IsInvocation(v)
    PROVE  /\ push_frame(v).match_stack = Append(v.match_stack, Unmatched)
           /\ push_frame(v).exhausted = v.exhausted
           /\ v.match_stack # <<>> => pop_frame(v).match_stack = Front(v.match_stack)
           /\ pop_frame(v).exhausted = v.exhausted
           /\ \A x : rollback_invocation(v, x).match_stack = v.match_stack
           /\ \A x : rollback_invocation(v, x).exhausted = x
  <1>1. /\ push_frame(v).match_stack = Append(v.match_stack, Unmatched)
        /\ push_frame(v).exhausted = v.exhausted
    <2>. DEFINE y == Append(v.match_stack, Unmatched)
                r == push_frame(v)
    <2>1. r = [v EXCEPT !.match_stack = y]
      BY Zenon DEF push_frame
    <2>. SUFFICES r.match_stack = y /\ r.exhausted = v.exhausted
      OBVIOUS
    <2>. HIDE DEF y, r
    <2>. QED  BY <2>1 DEF IsInvocation
  <1>2. /\ v.match_stack # <<>> => pop_frame(v).match_stack = Front(v.match_stack)
        /\ pop_frame(v).exhausted = v.exhausted
    <2>. DEFINE x == IF v.match_stack = <<>> THEN <<>> ELSE Front(v.match_stack)
                y == v.processed \/ (v.root_frame # NoFrame /\ v.root_frame > Len(x))
                r == pop_frame(v)
    <2>1. r = [v EXCEPT !.match_stack = x, !.processed = y]
      BY Zenon DEF pop_frame
    <2>2. r.match_stack = x /\ r.exhausted = v.exhausted
      <3>. HIDE DEF x, y, r
      <3>. QED  BY <2>1 DEF IsInvocation
    <2>3. v.match_stack # <<>> => x = Front(v.match_stack)
      BY Zenon
    <2>. HIDE DEF x
    <2>. QED  BY <2>2, <2>3, Zenon
  <1>3. ASSUME NEW e
        PROVE  /\ rollback_invocation(v, e).match_stack = v.match_stack
               /\ rollback_invocation(v, e).exhausted = e
    <2>. DEFINE y == IF <<>> \in e THEN v.root_frame ELSE NoFrame
                z == v.processed /\ <<>> \in e
                r == rollback_invocation(v, e)
    <2>1. r = [v EXCEPT !.exhausted = e, !.root_frame = y, !.processed = z]
      BY Zenon DEF rollback_invocation
    <2>. SUFFICES r.match_stack = v.match_stack /\ r.exhausted = e
      OBVIOUS
    <2>. HIDE DEF y, z, r
    <2>. QED  BY <2>1 DEF IsInvocation
  <1>. QED  BY <1>1, <1>2, <1>3, Zenon

LEMMA FreeEffect ==
    ASSUME NEW t, IsEntry(t), NEW v, NEW r, r = [t EXCEPT !.invocation = v]
    PROVE  r.invocation = v
  BY DEF IsEntry

LEMMA PushEffect ==
    ASSUME NEW m, IsManager(m), AccountsOK(m), NEW fn, NEW r, r = PushCall(m, fn)
    PROVE  /\ IsManager(r) /\ r.recording = m.recording /\ SameEntries(m, r) /\ SameStatus(m, r)
           /\ r.call_stack = Append(m.call_stack, fn)
           /\ \A k \in DOMAIN m.account :
                 /\ NodesOf(r, k) = NodesOf(m, k)
                 /\ m.account[k].borrowed => MatchesOf(r, k) = MatchesOf(m, k)
                 /\ ~m.account[k].borrowed => MatchesOf(r, k) = Append(MatchesOf(m, k), Unmatched)
  <1>1. /\ SameManager(m, r) /\ r.call_stack = Append(m.call_stack, fn)
        /\ r.account = OnFree(push_frame, m.account)
    BY PushLemma
  <1>2. ASSUME NEW k \in DOMAIN m.account
        PROVE  /\ NodesOf(r, k) = NodesOf(m, k)
               /\ m.account[k].borrowed => MatchesOf(r, k) = MatchesOf(m, k)
               /\ ~m.account[k].borrowed => MatchesOf(r, k) = Append(MatchesOf(m, k), Unmatched)
    <2>. DEFINE t == m.account[k]
                v == push_frame(t.invocation)
    <2>1. IsEntry(t) /\ IsInvocation(t.invocation)
      BY DEF AccountsOK, IsEntry
    <2>2. r.account[k] = IF t.borrowed THEN t ELSE [t EXCEPT !.invocation = v]
      BY <1>1 DEF OnFree
    <2>3. v.match_stack = Append(t.invocation.match_stack, Unmatched) /\ v.exhausted = t.invocation.exhausted
      BY <2>1, TrackerEffects
    <2>. HIDE DEF t, v
    <2>4. CASE t.borrowed
      BY <2>2, <2>4 DEF NodesOf, MatchesOf, t
    <2>5. CASE ~t.borrowed
      <3>1. r.account[k].invocation = v
        BY <2>1, <2>2, <2>5, FreeEffect
      <3>. QED  BY <2>3, <2>5, <3>1 DEF NodesOf, MatchesOf, t
    <2>. QED  BY <2>4, <2>5
  <1>. QED  BY <1>1, <1>2 DEF SameManager

LEMMA PopEffect ==
    ASSUME NEW m, IsManager(m), AccountsOK(m), m.call_stack # <<>>, NEW r, r = PopCall(m)
    PROVE  /\ IsManager(r) /\ r.recording = m.recording /\ SameEntries(m, r) /\ SameStatus(m, r)
           /\ r.call_stack = Front(m.call_stack)
           /\ \A k \in DOMAIN m.account :
                 /\ NodesOf(r, k) = NodesOf(m, k)
                 /\ m.account[k].borrowed => MatchesOf(r, k) = MatchesOf(m, k)
                 /\ ~m.account[k].borrowed /\ MatchesOf(m, k) # <<>> => MatchesOf(r, k) = Front(MatchesOf(m, k))
  <1>1. /\ SameManager(m, r) /\ r.call_stack = Front(m.call_stack)
        /\ r.account = OnFree(pop_frame, m.account)
    BY PopLemma
  <1>2. ASSUME NEW k \in DOMAIN m.account
        PROVE  /\ NodesOf(r, k) = NodesOf(m, k)
               /\ m.account[k].borrowed => MatchesOf(r, k) = MatchesOf(m, k)
               /\ ~m.account[k].borrowed /\ MatchesOf(m, k) # <<>> => MatchesOf(r, k) = Front(MatchesOf(m, k))
    <2>. DEFINE t == m.account[k]
                v == pop_frame(t.invocation)
    <2>1. IsEntry(t) /\ IsInvocation(t.invocation)
      BY DEF AccountsOK, IsEntry
    <2>2. r.account[k] = IF t.borrowed THEN t ELSE [t EXCEPT !.invocation = v]
      BY <1>1 DEF OnFree
    <2>3. /\ t.invocation.match_stack # <<>> => v.match_stack = Front(t.invocation.match_stack)
          /\ v.exhausted = t.invocation.exhausted
      BY <2>1, TrackerEffects
    <2>. HIDE DEF t, v
    <2>4. CASE t.borrowed
      BY <2>2, <2>4 DEF NodesOf, MatchesOf, t
    <2>5. CASE ~t.borrowed
      <3>1. r.account[k].invocation = v
        BY <2>1, <2>2, <2>5, FreeEffect
      <3>. QED  BY <2>3, <2>5, <3>1 DEF NodesOf, MatchesOf, t
    <2>. QED  BY <2>4, <2>5
  <1>. QED  BY <1>1, <1>2 DEF SameManager

(***************************************************************************)
(* The first d frames of two stacks agree, up to what frame d was granted. *)
(***************************************************************************)

Grown(stack, r, d, x) ==
    /\ IsSequence(stack) /\ IsSequence(r)
    /\ d \in Nat \ {0} /\ d <= Len(stack) /\ d <= Len(r)
    /\ \A i \in 1..d : SameFrame(stack[i], r[i])
    /\ \A i \in 1..d - 1 : r[i].grants = stack[i].grants
    /\ r[d].grants = stack[d].grants \cup x

LEMMA GrownLemma ==
    ASSUME NEW stack, NEW r, NEW d, NEW x, Grown(stack, r, d, x)
    PROVE  /\ d \in Nat /\ d > 0 /\ Len(stack) \in Nat /\ Len(r) \in Nat
           /\ DOMAIN stack = 1..Len(stack) /\ DOMAIN r = 1..Len(r)
           /\ 1..d \subseteq DOMAIN stack /\ 1..d \subseteq DOMAIN r
           /\ \A i \in 1..d : stack[i].grants \subseteq r[i].grants
           /\ \A i \in 1..d : \A g \in r[i].grants : g \in stack[i].grants \/ (i = d /\ g \in x)
  <1>1. /\ d \in Nat /\ d > 0 /\ Len(stack) \in Nat /\ Len(r) \in Nat
        /\ DOMAIN stack = 1..Len(stack) /\ DOMAIN r = 1..Len(r)
    BY SequenceLemma DEF Grown
  <1>2. \A i \in 1..d : i = d \/ i \in 1..d - 1
    BY <1>1
  <1>. QED  BY <1>1, <1>2 DEF Grown

LEMMA ContextGrown ==
    ASSUME NEW stack, NEW r, NEW d, NEW x, Grown(stack, r, d, x), NEW m, NEW q, SameEntries(m, q),
           NEW k \in DOMAIN m.account, NEW path, NEW i \in 1..d, InContext(m, stack, k, path, i)
    PROVE  InContext(q, r, k, path, i)
  <1>1. d \in Nat /\ \A j \in 1..d : stack[j].grants \subseteq r[j].grants
    BY GrownLemma
  <1>2. r[i].fn = stack[i].fn
    BY DEF Grown, SameFrame
  <1>3. q.account[k].invocation.tree = m.account[k].invocation.tree
    BY DEF SameEntries, SameEntry
  <1>4. \A j \in 1..i - 1 : j \in 1..d
    BY <1>1
  <1>. QED  BY <1>1, <1>2, <1>3, <1>4 DEF InContext

LEMMA MatchGrown ==
    ASSUME NEW stack, NEW r, NEW d, NEW x, Grown(stack, r, d, x), NEW m, NEW q, SameEntries(m, q),
           NEW k \in DOMAIN m.account, NEW p \in Nat, p + 1 <= d, MatchesOf(q, k)[p] = MatchesOf(m, k)[p]
    PROVE  /\ MatchFits(m, stack, k, p) => MatchFits(q, r, k, p)
           /\ MatchHeld(m, stack, k, p) => MatchHeld(q, r, k, p)
  <1>1. d \in Nat /\ \A j \in 1..d : stack[j].grants \subseteq r[j].grants
    BY GrownLemma
  <1>2. p + 1 \in 1..d
    BY <1>1
  <1>3. \A path : InContext(m, stack, k, path, p + 1) => InContext(q, r, k, path, p + 1)
    BY <1>2, ContextGrown
  <1>. QED  BY <1>1, <1>2, <1>3 DEF MatchFits, MatchHeld

LEMMA PathsKept ==
    ASSUME NEW stack, NEW r, NEW d, NEW x, Grown(stack, r, d, x), NEW k, NEW i \in 0..d - 1
    PROVE  PathsUpTo(r, k, i) = PathsUpTo(stack, k, i)
  <1>1. \A j \in 1..i : j \in 1..d - 1
    BY GrownLemma
  <1>2. \A j \in 1..i : r[j].grants = stack[j].grants
    BY <1>1 DEF Grown
  <1>3. UNION {r[j].grants : j \in 1..i} = UNION {stack[j].grants : j \in 1..i}
    BY <1>2
  <1>. QED  BY <1>3, Zenon DEF PathsUpTo

LEMMA PathsGrown ==
    ASSUME NEW stack, NEW r, NEW d, NEW x, Grown(stack, r, d, x), NEW k
    PROVE  PathsUpTo(r, k, d) = PathsUpTo(stack, k, d) \cup {g.path : g \in {y \in x : y.tracker = k}}
  <1>1. d \in Nat /\ d > 0
    BY GrownLemma
  <1>2. \A j \in 1..d : j = d \/ j \in 1..d - 1
    BY <1>1
  <1>3. d \in 1..d
    BY <1>1
  <1>4. UNION {r[j].grants : j \in 1..d} = (UNION {stack[j].grants : j \in 1..d}) \cup x
    BY <1>2, <1>3 DEF Grown
  <1>. QED  BY <1>4, Zenon DEF PathsUpTo

\* A path of the frames up to i is one of the frames below i, or of frame i.
LEMMA PathsStep ==
    ASSUME NEW stack, NEW k, NEW i \in Nat
    PROVE  PathsUpTo(stack, k, i + 1) =
              PathsUpTo(stack, k, i) \cup {g.path : g \in {y \in stack[i + 1].grants : y.tracker = k}}
  <1>1. \A j \in 1..i + 1 : j = i + 1 \/ j \in 1..i
    OBVIOUS
  <1>2. i + 1 \in 1..i + 1 /\ \A j \in 1..i : j \in 1..i + 1
    OBVIOUS
  <1>3. UNION {stack[j].grants : j \in 1..i + 1} =
          (UNION {stack[j].grants : j \in 1..i}) \cup stack[i + 1].grants
    BY <1>1, <1>2
  <1>. QED  BY <1>3, Zenon DEF PathsUpTo

LEMMA GrantsKept ==
    ASSUME NEW stack, NEW r, NEW d, NEW x, Grown(stack, r, d, x), NEW m, NEW q, SameEntries(m, q),
           GrantsFit(m, stack),
           \A g \in x : GrantFits(m, stack, d, g),
           \A j \in DOMAIN r : j \in 1..d \/ (r[j].grants = {} /\ FrameFits(m, r[j]))
    PROVE  GrantsFit(q, r)
  <1>1. /\ d \in Nat /\ d > 0 /\ 1..d \subseteq DOMAIN stack
        /\ \A i \in 1..d : \A g \in r[i].grants : g \in stack[i].grants \/ (i = d /\ g \in x)
    BY GrownLemma
  <1>2. AccountsOK(q) /\ DOMAIN q.account = DOMAIN m.account
    BY DEF SameEntries
  <1>3. \A k \in DOMAIN q.account : SignaturesOK(q.account[k])
    <2>1. \A k \in DOMAIN m.account : SameEntry(m.account[k], q.account[k]) /\ SignaturesOK(m.account[k])
      BY DEF SameEntries, GrantsFit
    <2>. QED  BY <1>2, <2>1 DEF SignaturesOK, SameEntry
  <1>4. ASSUME NEW j \in DOMAIN r
        PROVE  FrameFits(q, r[j]) /\ \A g \in r[j].grants : GrantFits(q, r, j, g)
    <2>1. CASE j \in 1..d
      <3>1. FrameFits(q, r[j])
        BY <1>1, <1>2, <2>1 DEF GrantsFit, FrameFits, Grown, SameFrame
      <3>2. ASSUME NEW g \in r[j].grants
            PROVE  GrantFits(q, r, j, g)
        <4>1. GrantFits(m, stack, j, g)
          BY <1>1, <2>1 DEF GrantsFit
        <4>2. g.depth = j => InContext(q, r, g.tracker, g.path, j)
          BY <2>1, <4>1, ContextGrown DEF GrantFits
        <4>. QED  BY <1>2, <4>1, <4>2 DEF GrantFits
      <3>. QED  BY <3>1, <3>2
    <2>2. CASE j \notin 1..d
      BY <1>2, <2>2 DEF FrameFits
    <2>. QED  BY <2>1, <2>2
  <1>. QED  BY <1>2, <1>3, <1>4 DEF GrantsFit

LEMMA SignedKept ==
    ASSUME NEW t, NEW u, SameEntry(t, u), EntrySigned(t)
    PROVE  EntrySigned(u)
  BY DEF EntrySigned, KeysOf, SameEntry

LEMMA ConsumedKept ==
    ASSUME NEW m, NEW q, SameEntries(m, q), NEW n, NEW l, NEW V, Consumed(m, n, l, V),
           V \subseteq DOMAIN m.account, NEW W, V \subseteq W
    PROVE  Consumed(q, n, l, W)
  <1>1. /\ DOMAIN q.account = DOMAIN m.account
        /\ \A k \in DOMAIN m.account :
              q.account[k].source = m.account[k].source /\ NonceKey(q.account[k]) = NonceKey(m.account[k])
    BY DEF SameEntries, SameEntry, NonceKey
  <1>. QED  BY <1>1 DEF Consumed

LEMMA RestoreKept ==
    ASSUME NEW stack, NEW r, NEW d, NEW x, Grown(stack, r, d, x), NEW m, NEW q, SameEntries(m, q),
           NEW l, NEW j \in 1..d, RestoreFits(m, stack, j, l)
    PROVE  RestoreFits(q, r, j, l)
  <1>1. r[j].snap = stack[j].snap /\ r[j].nonces = stack[j].nonces
    BY DEF Grown, SameFrame
  <1>2. DOMAIN q.account = DOMAIN m.account
    BY DEF SameEntries
  <1>3. \A k : PathsUpTo(r, k, j - 1) = PathsUpTo(stack, k, j - 1)
    <2>1. j - 1 \in 0..d - 1
      BY DEF Grown
    <2>. QED  BY <2>1, PathsKept
  <1>4. RestoredEntries(q, r[j]) = RestoredEntries(m, stack[j])
    BY <1>1, <1>2 DEF RestoredEntries
  <1>5. RestoredEntries(m, stack[j]) \subseteq DOMAIN m.account
    BY DEF RestoredEntries
  <1>6. Consumed(q, stack[j].nonces, l, RestoredEntries(m, stack[j]))
    BY <1>5, ConsumedKept DEF RestoreFits
  <1>7. \A k \in RestoredEntries(m, stack[j]) : EntrySigned(q.account[k])
    BY <1>5, SignedKept DEF RestoreFits, SameEntries
  <1>8. \A k \in DOMAIN q.account :
           r[j].snap.account[k].taken => r[j].snap.account[k].exhausted = PathsUpTo(r, k, j - 1)
    BY <1>1, <1>2, <1>3 DEF RestoreFits
  <1>. QED  BY <1>1, <1>4, <1>6, <1>7, <1>8 DEF RestoreFits

LEMMA CheckKept ==
    ASSUME NEW stack, NEW r, NEW d, NEW x, Grown(stack, r, d, x), NEW m, NEW q,
           NEW k, MatchesOf(q, k) = MatchesOf(m, k), NodesOf(q, k) = NodesOf(m, k),
           NEW c \in 1..d, CheckFits(m, stack, c, k),
           \A g \in x : g.tracker # k,
           \A j \in d + 1..Len(r) : \A g \in r[j].grants : g.tracker # k
    PROVE  CheckFits(q, r, c, k)
  <1>1. /\ d \in Nat /\ d > 0 /\ Len(r) \in Nat /\ d <= Len(stack)
        /\ \A i \in 1..d : \A g \in r[i].grants : g \in stack[i].grants \/ (i = d /\ g \in x)
    BY GrownLemma DEF Grown
  <1>2. PathsUpTo(r, k, c - 1) = PathsUpTo(stack, k, c - 1)
    <2>1. c - 1 \in 0..d - 1
      BY <1>1
    <2>. QED  BY <2>1, PathsKept
  <1>3. ASSUME NEW j \in c..Len(r), NEW g \in r[j].grants
        PROVE  g.tracker # k
    <2>1. CASE j <= d
      <3>1. j \in c..Len(stack) /\ j \in 1..d
        BY <1>1, <2>1
      <3>. QED  BY <1>1, <3>1 DEF CheckFits
    <2>2. CASE ~(j <= d)
      <3>1. j \in d + 1..Len(r)
        BY <1>1, <2>2
      <3>. QED  BY <3>1
    <2>. QED  BY <2>1, <2>2
  <1>. QED  BY <1>2, <1>3 DEF CheckFits

\* An error in flight asks less of the entries.
LEMMA RaiseFits ==
    ASSUME NEW m, NEW stack, NEW n, NEW e, NEW l, TrackersFit(m, stack, n, "none", l)
    PROVE  TrackersFit(m, stack, n, e, l)
  <1>1. \A k \in DOMAIN m.account : TrackerFits(m, stack, e, k)
    BY DEF TrackersFit, TrackerFits
  <1>. QED  BY <1>1 DEF TrackersFit

\* Other fields of the manager do not matter.
LEMMA SameFits ==
    ASSUME NEW m, NEW stack, NEW q, q.account = m.account, q.call_stack = m.call_stack
    PROVE  /\ GrantsFit(m, stack) => GrantsFit(q, stack)
           /\ \A n, e, l : TrackersFit(m, stack, n, e, l) => TrackersFit(q, stack, n, e, l)
  <1>1. \A k, path, i : InContext(q, stack, k, path, i) <=> InContext(m, stack, k, path, i)
    BY DEF InContext
  <1>2. \A k : MatchesOf(q, k) = MatchesOf(m, k) /\ NodesOf(q, k) = NodesOf(m, k)
    BY DEF MatchesOf, NodesOf
  <1>3. GrantsFit(m, stack) => GrantsFit(q, stack)
    BY <1>1 DEF GrantsFit, GrantFits, FrameFits, AccountsOK
  <1>4. \A e, k : TrackerFits(m, stack, e, k) => TrackerFits(q, stack, e, k)
    BY <1>1, <1>2, SMTT(20) DEF TrackerFits, MatchesFit, MatchFits, MatchHeld, Held, Settled
  <1>5. \A c, k : CheckFits(m, stack, c, k) => CheckFits(q, stack, c, k)
    BY <1>2 DEF CheckFits
  <1>6. \A n, l, V : Consumed(m, n, l, V) => Consumed(q, n, l, V)
    BY DEF Consumed
  <1>7. VerifiedEntries(q) = VerifiedEntries(m) /\ \A f : RestoredEntries(q, f) = RestoredEntries(m, f)
    BY DEF VerifiedEntries, RestoredEntries
  <1>8. \A j, l : RestoreFits(m, stack, j, l) => RestoreFits(q, stack, j, l)
    BY <1>6, <1>7 DEF RestoreFits
  <1>9. CallsFit(m, stack) => CallsFit(q, stack)
    BY DEF CallsFit
  <1>. QED  BY <1>3, <1>4, <1>5, <1>6, <1>7, <1>8, <1>9 DEF TrackersFit

\* The match states that are left, and those that a frame adds.
LEMMA MatchesKept ==
    ASSUME NEW stack, NEW r, NEW d, NEW x, Grown(stack, r, d, x), NEW m, NEW q, SameEntries(m, q),
           NEW k \in DOMAIN m.account, MatchesFit(m, stack, k), IsSequence(MatchesOf(q, k)),
           Len(MatchesOf(q, k)) <= Len(MatchesOf(m, k)), Len(MatchesOf(q, k)) + 1 <= d,
           \A p \in 1..Len(MatchesOf(q, k)) : MatchesOf(q, k)[p] = MatchesOf(m, k)[p]
    PROVE  /\ MatchesFit(q, r, k)
           /\ Held(m, stack, k) \/ Len(MatchesOf(q, k)) < Len(MatchesOf(m, k)) => Held(q, r, k)
  <1>. DEFINE a == Len(MatchesOf(q, k))
              b == Len(MatchesOf(m, k))
  <1>1. a \in Nat /\ b \in Nat /\ d \in Nat
    BY SequenceLemma, GrownLemma DEF MatchesFit
  <1>2. ASSUME NEW p \in 1..a
        PROVE  /\ p \in 1..b
               /\ MatchFits(m, stack, k, p) => MatchFits(q, r, k, p)
               /\ MatchHeld(m, stack, k, p) => MatchHeld(q, r, k, p)
    <2>1. p \in 1..b /\ p \in Nat /\ p + 1 <= d
      BY <1>1
    <2>2. MatchesOf(q, k)[p] = MatchesOf(m, k)[p]
      OBVIOUS
    <2>. HIDE DEF a, b
    <2>. QED  BY <2>1, <2>2, MatchGrown
  <1>3. \A p \in 1..b : MatchFits(m, stack, k, p) /\ (p < b => MatchHeld(m, stack, k, p))
    BY DEF MatchesFit
  <1>4. a <= b
    OBVIOUS
  <1>5. \A p \in 1..a : p < a => p < b
    BY <1>1, <1>4
  <1>6. a < b => \A p \in 1..a : p < b
    BY <1>1
  <1>7. \A p \in 1..a : MatchFits(q, r, k, p) /\ (p < a => MatchHeld(q, r, k, p))
    BY <1>2, <1>3, <1>5
  <1>8. a < b => \A p \in 1..a : MatchHeld(q, r, k, p)
    BY <1>2, <1>3, <1>6
  <1>9. (\A p \in 1..b : MatchHeld(m, stack, k, p)) => \A p \in 1..a : MatchHeld(q, r, k, p)
    BY <1>2
  <1>. QED  BY <1>7, <1>8, <1>9 DEF MatchesFit, Held

LEMMA MatchesPushed ==
    ASSUME NEW stack, NEW r, NEW d, NEW x, Grown(stack, r, d, x), NEW m, NEW q, SameEntries(m, q),
           NEW k \in DOMAIN m.account, MatchesFit(m, stack, k), Held(m, stack, k),
           Len(MatchesOf(m, k)) + 1 = d, MatchesOf(q, k) = Append(MatchesOf(m, k), Unmatched)
    PROVE  MatchesFit(q, r, k) /\ Held(q, r, k) /\ Len(MatchesOf(q, k)) = d
  <1>. DEFINE a == Len(MatchesOf(q, k))
              b == Len(MatchesOf(m, k))
  <1>1. /\ IsSequence(MatchesOf(q, k)) /\ a = b + 1
        /\ \A p \in 1..b : MatchesOf(q, k)[p] = MatchesOf(m, k)[p]
        /\ MatchesOf(q, k)[b + 1] = Unmatched
    BY AppendLemma DEF MatchesFit
  <1>2. b \in Nat /\ d \in Nat /\ b + 1 = d
    BY SequenceLemma, GrownLemma DEF MatchesFit
  <1>3. ASSUME NEW p \in 1..b
        PROVE  MatchFits(q, r, k, p) /\ MatchHeld(q, r, k, p)
    <2>1. p \in Nat /\ p + 1 <= d
      BY <1>2
    <2>2. MatchesOf(q, k)[p] = MatchesOf(m, k)[p]
      BY <1>1
    <2>3. MatchFits(m, stack, k, p) /\ MatchHeld(m, stack, k, p)
      BY DEF MatchesFit, Held
    <2>. HIDE DEF a, b
    <2>. QED  BY <2>1, <2>2, <2>3, MatchGrown
  <1>4. MatchFits(q, r, k, b + 1) /\ MatchHeld(q, r, k, b + 1)
    BY <1>1 DEF MatchFits, MatchHeld, Unmatched
  <1>5. \A p \in 1..a : p \in 1..b \/ p = b + 1
    BY <1>1, <1>2
  <1>6. \A p \in 1..a : MatchFits(q, r, k, p) /\ MatchHeld(q, r, k, p)
    BY <1>3, <1>4, <1>5
  <1>. QED  BY <1>1, <1>2, <1>6 DEF MatchesFit, Held

\* A frame returns: what it was granted goes to the frame below.
LEMMA PopFits ==
    ASSUME NEW m, IsManager(m), NEW stack, NEW n, NEW l, NEW s,
           GrantsFit(m, stack), TrackersFit(m, stack, n, "none", l), TrackersOK(m, stack, n, l, s),
           NEW d, Len(stack) = d + 1, NEW r, Len(r) = d, Grown(stack, r, d, stack[d + 1].grants),
           NEW q, q = PopCall(m)
    PROVE  /\ GrantsFit(q, r) /\ TrackersFit(q, r, n, "none", l)
           /\ stack[d + 1].kind = "check_auth" => CheckFits(q, r, d + 1, stack[d + 1].tracker)
  <1>. DEFINE x == stack[d + 1].grants
  <1>1. /\ d \in Nat /\ d > 0 /\ DOMAIN stack = 1..d + 1 /\ DOMAIN r = 1..d /\ d + 1 \in DOMAIN stack
        /\ \A i \in 1..d : i \in DOMAIN stack /\ i < d + 1
        /\ \A i \in DOMAIN stack : i \in 1..d \/ i = d + 1
    BY GrownLemma
  <1>2. AccountsOK(m)
    BY DEF GrantsFit
  <1>3. IsSequence(m.call_stack) /\ Len(m.call_stack) = d /\ m.call_stack # <<>>
    <2>1. IsSequence(m.call_stack) /\ d + 1 = Len(m.call_stack) + 1
      BY DEF TrackersFit, CallsFit
    <2>. QED  BY <1>1, <2>1, SequenceLemma
  <1>4. /\ SameEntries(m, q) /\ SameStatus(m, q) /\ q.call_stack = Front(m.call_stack)
        /\ DOMAIN q.account = DOMAIN m.account
        /\ \A k \in DOMAIN m.account :
              /\ NodesOf(q, k) = NodesOf(m, k)
              /\ m.account[k].borrowed => MatchesOf(q, k) = MatchesOf(m, k)
              /\ ~m.account[k].borrowed /\ MatchesOf(m, k) # <<>> => MatchesOf(q, k) = Front(MatchesOf(m, k))
    BY <1>2, <1>3, PopEffect DEF SameEntries
  <1>5. GrantsFit(q, r)
    <2>1. ASSUME NEW g \in x
          PROVE  GrantFits(m, stack, d, g)
      <3>1. GrantFits(m, stack, d + 1, g)
        BY <1>1 DEF GrantsFit
      <3>2. g.depth \in Nat /\ g.depth >= d /\ g.depth # d
        BY <1>1, <3>1 DEF GrantFits
      <3>. QED  BY <3>1, <3>2 DEF GrantFits
    <2>. HIDE DEF x
    <2>. QED  BY <1>1, <1>4, <2>1, GrantsKept DEF x
  <1>6. CallsFit(q, r)
    <2>1. /\ IsSequence(q.call_stack) /\ Len(q.call_stack) = d - 1
          /\ \A i \in 1..d - 1 : q.call_stack[i] = m.call_stack[i]
      <3>. DEFINE w == m.call_stack
      <3>1. IsSequence(w) /\ Len(w) = d /\ w # <<>> /\ q.call_stack = Front(w)
        BY <1>3, <1>4
      <3>. HIDE DEF w
      <3>2. IsSequence(Front(w)) /\ Len(Front(w)) = Len(w) - 1 /\ \A i \in 1..Len(w) - 1 : Front(w)[i] = w[i]
        BY <3>1, FrontLemma
      <3>. QED  BY <3>1, <3>2, Zenon DEF w
    <2>2. DOMAIN q.call_stack = 1..d - 1 /\ DOMAIN m.call_stack = 1..d
      BY <1>3, <2>1, SequenceLemma
    <2>3. \A i \in 1..d - 1 : i \in 1..d /\ i + 1 \in 1..d
      BY <1>1
    <2>4. \A i \in 1..d : r[i].fn = stack[i].fn
      BY DEF Grown, SameFrame
    <2>5. \A i \in 1..d : m.call_stack[i] = stack[i + 1].fn
      BY <2>2 DEF TrackersFit, CallsFit
    <2>6. \A i \in 1..d - 1 : q.call_stack[i] = r[i + 1].fn
      BY <2>1, <2>3, <2>4, <2>5
    <2>7. d = (d - 1) + 1
      BY <1>1
    <2>. QED  BY <2>1, <2>2, <2>6, <2>7 DEF CallsFit
  <1>7. ASSUME NEW k \in DOMAIN m.account, m.account[k].borrowed
        PROVE  MatchesFit(q, r, k)
    <2>1. PICK c \in DOMAIN stack : Checks(stack[c], k)
      BY <1>7, BorrowedLemma
    <2>2. CheckFits(m, stack, c, k)
      BY <2>1 DEF TrackersFit, Checks
    <2>3. MatchesFit(m, stack, k)
      BY DEF TrackersFit, TrackerFits
    <2>4. MatchesOf(q, k) = MatchesOf(m, k)
      BY <1>4, <1>7
    <2>5. Len(MatchesOf(m, k)) \in Nat
      BY <2>3, SequenceLemma DEF MatchesFit
    <2>6. Len(MatchesOf(m, k)) + 1 <= d
      BY <1>1, <2>2, <2>5 DEF CheckFits
    <2>7. IsSequence(MatchesOf(q, k)) /\ Len(MatchesOf(q, k)) <= Len(MatchesOf(m, k))
      BY <2>3, <2>4, <2>5 DEF MatchesFit
    <2>. QED  BY <1>4, <2>3, <2>4, <2>6, <2>7, MatchesKept
  <1>8. ASSUME NEW k \in DOMAIN m.account, ~m.account[k].borrowed
        PROVE  MatchesFit(q, r, k) /\ Len(MatchesOf(q, k)) + 1 = d /\ Settled(q, r, k)
    <2>1. /\ MatchesFit(m, stack, k) /\ Len(MatchesOf(m, k)) + 1 = d + 1 /\ Settled(m, stack, k)
          /\ IsSequence(MatchesOf(m, k))
      BY <1>8 DEF TrackersFit, TrackerFits, MatchesFit
    <2>2. Len(MatchesOf(m, k)) = d /\ MatchesOf(m, k) # <<>>
      BY <1>1, <2>1, SequenceLemma
    <2>3. /\ IsSequence(MatchesOf(q, k)) /\ Len(MatchesOf(q, k)) = d - 1
          /\ \A p \in 1..d - 1 : MatchesOf(q, k)[p] = MatchesOf(m, k)[p]
      <3>1. MatchesOf(q, k) = Front(MatchesOf(m, k))
        BY <1>4, <1>8, <2>2
      <3>. QED  BY <2>1, <2>2, <3>1, FrontLemma
    <2>4. d - 1 <= d /\ d - 1 + 1 <= d /\ d - 1 < d /\ (d - 1) + 1 = d
      BY <1>1
    <2>5. MatchesFit(q, r, k) /\ Held(q, r, k)
      BY <1>4, <2>1, <2>2, <2>3, <2>4, MatchesKept
    <2>6. NodesOf(q, k) = PathsUpTo(r, k, d)
      <3>1. NodesOf(m, k) = PathsUpTo(stack, k, d + 1)
        BY <2>1 DEF Settled
      <3>2. PathsUpTo(r, k, d) = PathsUpTo(stack, k, d) \cup {g.path : g \in {y \in stack[d + 1].grants : y.tracker = k}}
        BY PathsGrown
      <3>3. PathsUpTo(stack, k, d + 1) = PathsUpTo(stack, k, d) \cup {g.path : g \in {y \in stack[d + 1].grants : y.tracker = k}}
        BY <1>1, PathsStep, ZenonT(40)
      <3>. QED  BY <1>4, <3>1, <3>2, <3>3, Zenon
    <2>. QED  BY <2>3, <2>4, <2>5, <2>6 DEF Settled
  <1>9. \A k \in DOMAIN q.account : TrackerFits(q, r, "none", k)
    BY <1>4, <1>7, <1>8 DEF TrackerFits, SameStatus
  <1>10. ASSUME NEW c \in DOMAIN r, r[c].kind = "check_auth"
         PROVE  /\ CheckFits(q, r, c, r[c].tracker)
                /\ q.account[r[c].tracker].invocation.address \notin ClassicAccounts
    <2>. DEFINE k == r[c].tracker
    <2>1. c \in DOMAIN stack /\ stack[c].kind = "check_auth" /\ stack[c].tracker = k /\ c < d + 1
      BY <1>1, <1>10 DEF Grown, SameFrame
    <2>2. CheckFits(m, stack, c, k) /\ m.account[k].invocation.address \notin ClassicAccounts
      BY <2>1 DEF TrackersFit
    <2>3. k \in DOMAIN m.account /\ m.account[k].borrowed
      BY <2>1 DEF TrackersOK
    <2>4. \A g \in stack[d + 1].grants : g.tracker # k
      <3>1. d + 1 \in c..Len(stack)
        BY <1>1, <2>1
      <3>. QED  BY <2>2, <3>1 DEF CheckFits
    <2>5. MatchesOf(q, k) = MatchesOf(m, k) /\ NodesOf(q, k) = NodesOf(m, k)
      BY <1>4, <2>3
    <2>6. \A j \in d + 1..Len(r) : \A g \in r[j].grants : g.tracker # k
      BY <1>1
    <2>7. q.account[k].invocation.address = m.account[k].invocation.address
      BY <1>4, <2>3 DEF SameEntries, SameEntry
    <2>. HIDE DEF k
    <2>8. CheckFits(q, r, c, k)
      BY <1>1, <2>2, <2>4, <2>5, <2>6, CheckKept
    <2>. QED  BY <2>2, <2>7, <2>8 DEF k
  <1>11. \A j \in DOMAIN r : RestoreFits(q, r, j, l)
    <2>1. \A j \in 1..d : RestoreFits(m, stack, j, l)
      BY <1>1 DEF TrackersFit
    <2>. QED  BY <1>1, <1>4, <2>1, RestoreKept
  <1>12. VerifiedEntries(q) = VerifiedEntries(m) /\ VerifiedEntries(m) \subseteq DOMAIN m.account
    BY <1>4 DEF VerifiedEntries, SameStatus
  <1>13. Consumed(q, n, l, VerifiedEntries(q))
    BY <1>4, <1>12, ConsumedKept DEF TrackersFit
  <1>14. \A k \in VerifiedEntries(q) : EntrySigned(q.account[k])
    BY <1>4, <1>12, SignedKept DEF TrackersFit, SameEntries
  <1>15. ASSUME stack[d + 1].kind = "check_auth"
         PROVE  CheckFits(q, r, d + 1, stack[d + 1].tracker)
    <2>. DEFINE k == stack[d + 1].tracker
    <2>1. CheckFits(m, stack, d + 1, k) /\ k \in DOMAIN m.account /\ m.account[k].borrowed
      BY <1>1, <1>15 DEF TrackersFit, TrackersOK
    <2>2. MatchesOf(q, k) = MatchesOf(m, k) /\ NodesOf(q, k) = NodesOf(m, k)
      BY <1>4, <2>1
    <2>3. \A g \in stack[d + 1].grants : g.tracker # k
      BY <1>1, <2>1 DEF CheckFits
    <2>4. PathsUpTo(r, k, d) = PathsUpTo(stack, k, d)
      <3>. HIDE DEF k
      <3>1. PathsUpTo(r, k, d) = PathsUpTo(stack, k, d) \cup {g.path : g \in {y \in stack[d + 1].grants : y.tracker = k}}
        BY PathsGrown
      <3>2. {y \in stack[d + 1].grants : y.tracker = k} = {}
        BY <2>3
      <3>. QED  BY <3>1, <3>2
    <2>5. d + 1 - 1 = d /\ \A j \in d + 1..Len(r) : FALSE
      BY <1>1
    <2>. HIDE DEF k
    <2>6. CheckFits(q, r, d + 1, k)
      BY <2>1, <2>2, <2>4, <2>5 DEF CheckFits
    <2>. QED  BY <2>6 DEF k
  <1>16. TrackersFit(q, r, n, "none", l)
    BY <1>6, <1>9, <1>10, <1>11, <1>13, <1>14 DEF TrackersFit
  <1>. QED  BY <1>5, <1>15, <1>16

LEMMA SnapshotNodes ==
    ASSUME NEW m, NEW k \in DOMAIN m.account
    PROVE  snapshot(m).account[k].exhausted = NodesOf(m, k)
  BY DEF snapshot, NodesOf

LEMMA GrownAppend ==
    ASSUME NEW stack, IsSequence(stack), stack # <<>>, \A i \in DOMAIN stack : IsFrame(stack[i]), NEW f
    PROVE  /\ Grown(stack, Append(stack, f), Len(stack), {})
           /\ Len(Append(stack, f)) = Len(stack) + 1 /\ Append(stack, f)[Len(stack) + 1] = f
  <1>. DEFINE r == Append(stack, f)
              d == Len(stack)
  <1>1. /\ IsSequence(r) /\ Len(r) = d + 1
        /\ \A i \in 1..d : r[i] = stack[i]
        /\ r[d + 1] = f
    BY AppendLemma
  <1>. HIDE DEF r, d
  <1>2. d \in Nat \ {0} /\ d = Len(stack) /\ DOMAIN stack = 1..d
    BY SequenceLemma DEF d
  <1>3. \A i \in 1..d : SameFrame(stack[i], r[i])
    BY <1>1, <1>2 DEF SameFrame
  <1>4. /\ d <= Len(r) /\ d <= Len(stack) /\ \A i \in 1..d - 1 : r[i].grants = stack[i].grants
        /\ r[d].grants = stack[d].grants \cup {}
    <2>1. d \in 1..d /\ \A i \in 1..d - 1 : i \in 1..d
      BY <1>2
    <2>. QED  BY <1>1, <1>2, <2>1
  <1>5. Grown(stack, r, d, {})
    BY <1>1, <1>2, <1>3, <1>4 DEF Grown
  <1>. QED  BY <1>1, <1>5 DEF r, d

\* The entries whose authentication is in progress, or about to be.
BorrowedFit(m, stack) ==
    /\ \A c \in DOMAIN stack : stack[c].kind = "check_auth" =>
          stack[c].tracker \in DOMAIN m.account /\ m.account[stack[c].tracker].borrowed
    /\ \A k \in DOMAIN m.account : m.account[k].borrowed => Len(MatchesOf(m, k)) + 1 <= Len(stack)

\* A frame is pushed: of a call, of create_contract, or the __check_auth of an entry.
PushFits(m, stack, n, l, fn, f, q) ==
    /\ IsManager(m) /\ \A i \in DOMAIN stack : IsFrame(stack[i])
    /\ IsSequence(stack) /\ stack # <<>>
    /\ GrantsFit(m, stack) /\ TrackersFit(m, stack, n, "none", l) /\ BorrowedFit(m, stack)
    /\ \A k \in DOMAIN m.account : m.account[k].borrowed => ~m.account[k].verified
    /\ q = PushCall(m, fn)
    /\ f.fn = fn /\ f.grants = {} /\ f.nonces = n /\ f.snap = snapshot(q)
    /\ f.kind = "check_auth" =>
          /\ f.tracker \in DOMAIN m.account /\ m.account[f.tracker].borrowed
          /\ CheckFits(m, stack, Len(stack) + 1, f.tracker)
          /\ m.account[f.tracker].invocation.address \notin ClassicAccounts

LEMMA PushedFits ==
    ASSUME NEW m, NEW stack, NEW n, NEW l, NEW fn, NEW f, NEW q, PushFits(m, stack, n, l, fn, f, q)
    PROVE  GrantsFit(q, Append(stack, f)) /\ TrackersFit(q, Append(stack, f), n, "none", l)
  <1>. DEFINE r == Append(stack, f)
              d == Len(stack)
  <1>. SUFFICES GrantsFit(q, r) /\ TrackersFit(q, r, n, "none", l)
    OBVIOUS
  <1>1. Grown(stack, r, d, {}) /\ Len(r) = d + 1 /\ r[d + 1] = f /\ IsSequence(r)
    BY GrownAppend DEF PushFits, Grown
  <1>. HIDE DEF r, d
  <1>2. /\ d \in Nat /\ d > 0 /\ DOMAIN stack = 1..d /\ DOMAIN r = 1..d + 1 /\ d + 1 \in DOMAIN r
        /\ \A i \in DOMAIN r : i \in 1..d \/ i = d + 1
    <2>1. d \in Nat /\ d > 0 /\ DOMAIN stack = 1..d /\ DOMAIN r = 1..d + 1
      BY <1>1, GrownLemma DEF d
    <2>. QED  BY <2>1
  <1>3. /\ GrantsFit(m, stack) /\ TrackersFit(m, stack, n, "none", l) /\ BorrowedFit(m, stack)
        /\ AccountsOK(m) /\ IsManager(m)
    BY DEF PushFits, GrantsFit
  <1>4. /\ SameEntries(m, q) /\ SameStatus(m, q) /\ q.call_stack = Append(m.call_stack, fn)
        /\ DOMAIN q.account = DOMAIN m.account
        /\ \A k \in DOMAIN m.account :
              /\ NodesOf(q, k) = NodesOf(m, k)
              /\ m.account[k].borrowed => MatchesOf(q, k) = MatchesOf(m, k)
              /\ ~m.account[k].borrowed => MatchesOf(q, k) = Append(MatchesOf(m, k), Unmatched)
    BY <1>3, PushEffect DEF SameEntries, PushFits
  <1>5. \A k \in DOMAIN m.account :
           /\ f.snap.account[k].taken <=> ~m.account[k].borrowed
           /\ f.snap.account[k].verified = m.account[k].verified
           /\ f.snap.account[k].exhausted = NodesOf(m, k)
    <2>1. f.snap = snapshot(q)
      BY DEF PushFits
    <2>. QED  BY <1>4, <2>1, SnapshotLemma, SnapshotNodes DEF SameStatus
  <1>6. GrantsFit(q, r)
    <2>1. FrameFits(m, f)
      BY <1>3, <1>5 DEF FrameFits, PushFits, AccountsOK, IsEntry
    <2>2. f.grants = {}
      BY DEF PushFits
    <2>3. \A j \in DOMAIN r : j \in 1..d \/ (r[j].grants = {} /\ FrameFits(m, r[j]))
      BY <1>1, <1>2, <2>1, <2>2
    <2>. QED  BY <1>1, <1>3, <1>4, <2>3, GrantsKept
  <1>7. CallsFit(q, r)
    <2>. DEFINE w == m.call_stack
    <2>1. IsSequence(w) /\ d = Len(w) + 1 /\ \A i \in DOMAIN w : w[i] = stack[i + 1].fn
      BY <1>3 DEF TrackersFit, CallsFit, d
    <2>2. q.call_stack = Append(w, fn)
      BY <1>4
    <2>. HIDE DEF w
    <2>3. Len(w) \in Nat /\ DOMAIN w = 1..Len(w)
      BY <2>1, SequenceLemma
    <2>4. /\ IsSequence(Append(w, fn)) /\ Len(Append(w, fn)) = Len(w) + 1
          /\ \A i \in 1..Len(w) : Append(w, fn)[i] = w[i]
          /\ Append(w, fn)[Len(w) + 1] = fn
      BY <2>1, AppendLemma
    <2>5. /\ IsSequence(q.call_stack) /\ Len(q.call_stack) = d
          /\ \A i \in 1..d - 1 : q.call_stack[i] = stack[i + 1].fn
          /\ q.call_stack[d] = fn
      <3>1. Len(w) = d - 1
        BY <2>1, <2>3
      <3>2. d - 1 + 1 = d
        BY <1>2
      <3>. QED  BY <2>1, <2>2, <2>3, <2>4, <3>1, <3>2
    <2>6. DOMAIN q.call_stack = 1..d
      BY <2>5, SequenceLemma
    <2>7. \A i \in 1..d : r[i].fn = stack[i].fn
      BY <1>1 DEF Grown, SameFrame
    <2>8. f.fn = fn
      BY DEF PushFits
    <2>9. \A i \in 1..d : (i \in 1..d - 1 /\ i + 1 \in 1..d) \/ i = d
      BY <1>2
    <2>10. \A i \in 1..d : q.call_stack[i] = r[i + 1].fn
      BY <1>1, <2>5, <2>7, <2>8, <2>9
    <2>. QED  BY <1>1, <2>5, <2>6, <2>10 DEF CallsFit
  <1>8. ASSUME NEW k \in DOMAIN m.account, m.account[k].borrowed
        PROVE  MatchesFit(q, r, k)
    <2>1. MatchesFit(m, stack, k)
      BY <1>3 DEF TrackersFit, TrackerFits
    <2>2. MatchesOf(q, k) = MatchesOf(m, k)
      BY <1>4, <1>8
    <2>3. Len(MatchesOf(m, k)) \in Nat
      BY <2>1, SequenceLemma DEF MatchesFit
    <2>4. Len(MatchesOf(m, k)) + 1 <= d
      BY <1>3, <1>8 DEF BorrowedFit, d
    <2>5. IsSequence(MatchesOf(q, k)) /\ Len(MatchesOf(q, k)) <= Len(MatchesOf(m, k))
      BY <2>1, <2>2, <2>3 DEF MatchesFit
    <2>. QED  BY <1>1, <1>4, <2>1, <2>2, <2>4, <2>5, MatchesKept
  <1>9. ASSUME NEW k \in DOMAIN m.account, ~m.account[k].borrowed
        PROVE  /\ MatchesFit(q, r, k) /\ Len(MatchesOf(q, k)) + 1 = d + 1 /\ Settled(q, r, k)
               /\ NodesOf(m, k) = PathsUpTo(r, k, d)
    <2>1. /\ MatchesFit(m, stack, k) /\ Len(MatchesOf(m, k)) + 1 = d /\ Held(m, stack, k)
          /\ NodesOf(m, k) = PathsUpTo(stack, k, d)
      BY <1>3, <1>9 DEF TrackersFit, TrackerFits, Settled, d
    <2>2. MatchesOf(q, k) = Append(MatchesOf(m, k), Unmatched)
      BY <1>4, <1>9
    <2>3. MatchesFit(q, r, k) /\ Held(q, r, k) /\ Len(MatchesOf(q, k)) = d
      BY <1>1, <1>4, <2>1, <2>2, MatchesPushed
    <2>. DEFINE e == {}
    <2>4. PathsUpTo(r, k, d) = PathsUpTo(stack, k, d) \cup {g.path : g \in {y \in e : y.tracker = k}}
      <3>1. Grown(stack, r, d, e)
        BY <1>1
      <3>. HIDE DEF e
      <3>. QED  BY <3>1, PathsGrown
    <2>5. PathsUpTo(r, k, d) = PathsUpTo(stack, k, d)
      BY <2>4
    <2>6. PathsUpTo(r, k, d + 1) = PathsUpTo(r, k, d) \cup {g.path : g \in {y \in r[d + 1].grants : y.tracker = k}}
      BY <1>2, PathsStep
    <2>7. r[d + 1].grants = {}
      BY <1>1 DEF PushFits
    <2>8. PathsUpTo(r, k, d + 1) = PathsUpTo(stack, k, d)
      BY <2>5, <2>6, <2>7
    <2>. QED  BY <1>1, <1>4, <2>1, <2>3, <2>5, <2>8 DEF Settled
  <1>10. \A k \in DOMAIN q.account : TrackerFits(q, r, "none", k)
    BY <1>1, <1>4, <1>8, <1>9 DEF TrackerFits, SameStatus
  <1>11. ASSUME NEW c \in DOMAIN r, r[c].kind = "check_auth"
         PROVE  /\ CheckFits(q, r, c, r[c].tracker)
                /\ q.account[r[c].tracker].invocation.address \notin ClassicAccounts
    <2>. DEFINE k == r[c].tracker
    <2>1. CASE c \in 1..d
      <3>1. c \in DOMAIN stack /\ stack[c].kind = "check_auth" /\ stack[c].tracker = k
        BY <1>1, <1>2, <1>11, <2>1 DEF Grown, SameFrame
      <3>2. CheckFits(m, stack, c, k) /\ m.account[k].invocation.address \notin ClassicAccounts
        BY <1>3, <3>1 DEF TrackersFit
      <3>3. k \in DOMAIN m.account /\ m.account[k].borrowed
        BY <1>3, <3>1 DEF BorrowedFit
      <3>4. MatchesOf(q, k) = MatchesOf(m, k) /\ NodesOf(q, k) = NodesOf(m, k)
        BY <1>4, <3>3
      <3>5. q.account[k].invocation.address = m.account[k].invocation.address
        BY <1>4, <3>3 DEF SameEntries, SameEntry
      <3>6. \A j \in d + 1..Len(r) : \A g \in r[j].grants : g.tracker # k
        <4>1. \A j \in d + 1..Len(r) : j = d + 1
          BY <1>1, <1>2
        <4>. QED  BY <1>1, <4>1 DEF PushFits
      <3>. DEFINE e == {}
      <3>7. Grown(stack, r, d, e) /\ \A g \in e : g.tracker # k
        BY <1>1
      <3>. HIDE DEF k, e
      <3>8. CheckFits(q, r, c, k)
        BY <2>1, <3>2, <3>4, <3>6, <3>7, CheckKept
      <3>. QED  BY <3>2, <3>5, <3>8 DEF k
    <2>2. CASE c = d + 1
      <3>1. f.kind = "check_auth" /\ f.tracker = k
        BY <1>1, <1>11, <2>2
      <3>2. /\ k \in DOMAIN m.account /\ m.account[k].borrowed
            /\ CheckFits(m, stack, d + 1, k)
            /\ m.account[k].invocation.address \notin ClassicAccounts
        BY <3>1 DEF PushFits, d
      <3>3. MatchesOf(q, k) = MatchesOf(m, k) /\ NodesOf(q, k) = NodesOf(m, k)
        BY <1>4, <3>2
      <3>4. q.account[k].invocation.address = m.account[k].invocation.address
        BY <1>4, <3>2 DEF SameEntries, SameEntry
      <3>5. (d + 1) - 1 = d
        BY <1>2
      <3>6. PathsUpTo(r, k, d) = PathsUpTo(stack, k, d)
        <4>. DEFINE e == {}
        <4>1. Grown(stack, r, d, e)
          BY <1>1
        <4>. HIDE DEF e, k
        <4>2. PathsUpTo(r, k, d) = PathsUpTo(stack, k, d) \cup {g.path : g \in {y \in e : y.tracker = k}}
          BY <4>1, PathsGrown
        <4>. QED  BY <4>2 DEF e
      <3>7. \A j \in d + 1..Len(r) : \A g \in r[j].grants : g.tracker # k
        <4>1. \A j \in d + 1..Len(r) : j = d + 1
          BY <1>1, <1>2
        <4>. QED  BY <1>1, <4>1 DEF PushFits
      <3>. HIDE DEF k
      <3>8. CheckFits(q, r, d + 1, k)
        <4>1. PathsUpTo(r, k, (d + 1) - 1) = PathsUpTo(stack, k, (d + 1) - 1)
          BY <3>5, <3>6, Zenon
        <4>. QED  BY <3>2, <3>3, <3>7, <4>1 DEF CheckFits
      <3>. QED  BY <2>2, <3>2, <3>4, <3>8 DEF k
    <2>. QED  BY <1>2, <2>1, <2>2
  <1>12. VerifiedEntries(q) = VerifiedEntries(m) /\ VerifiedEntries(m) \subseteq DOMAIN m.account
    BY <1>4 DEF VerifiedEntries, SameStatus
  <1>13. Consumed(q, n, l, VerifiedEntries(q))
    BY <1>3, <1>4, <1>12, ConsumedKept DEF TrackersFit
  <1>14. \A k \in VerifiedEntries(q) : EntrySigned(q.account[k])
    BY <1>3, <1>4, <1>12, SignedKept DEF TrackersFit, SameEntries
  <1>15. ASSUME NEW j \in DOMAIN r
         PROVE  RestoreFits(q, r, j, l)
    <2>1. CASE j \in 1..d
      <3>1. RestoreFits(m, stack, j, l)
        BY <1>2, <1>3, <2>1 DEF TrackersFit
      <3>. QED  BY <1>1, <1>4, <2>1, <3>1, RestoreKept
    <2>2. CASE j = d + 1
      <3>1. RestoredEntries(q, f) = VerifiedEntries(m)
        <4>1. \A k \in DOMAIN m.account : m.account[k].borrowed => ~m.account[k].verified
          BY DEF PushFits
        <4>. QED  BY <1>4, <1>5, <4>1 DEF RestoredEntries, VerifiedEntries
      <3>2. f.nonces = n /\ r[j] = f
        BY <1>1, <2>2 DEF PushFits
      <3>3. \A k \in DOMAIN q.account :
               f.snap.account[k].taken => f.snap.account[k].exhausted = PathsUpTo(r, k, d)
        BY <1>4, <1>5, <1>9
      <3>4. j - 1 = d
        BY <1>2, <2>2
      <3>5. \A k \in DOMAIN q.account :
               f.snap.account[k].taken => f.snap.account[k].exhausted = PathsUpTo(r, k, j - 1)
        BY <3>3, <3>4, Zenon
      <3>6. RestoredEntries(q, f) = VerifiedEntries(q)
        BY <1>12, <3>1
      <3>. QED  BY <1>13, <1>14, <3>2, <3>5, <3>6 DEF RestoreFits
    <2>. QED  BY <1>2, <2>1, <2>2
  <1>16. TrackersFit(q, r, n, "none", l)
    BY <1>7, <1>10, <1>11, <1>13, <1>14, <1>15 DEF TrackersFit
  <1>. QED  BY <1>6, <1>16

\* The top frame is about to use entry i: what it matched is pending.
Pending(m, stack, i) ==
    /\ i \in DOMAIN m.account /\ m.account[i].borrowed
    /\ CheckFits(m, stack, Len(stack) + 1, i)
    /\ \A c \in DOMAIN stack : ~Checks(stack[c], i)

\* Entry i is free again, and nothing else is different but what is verified.
Freed(m, q, i) ==
    /\ SameEntries(m, q) /\ q.call_stack = m.call_stack
    /\ \A k \in DOMAIN m.account : NodesOf(q, k) = NodesOf(m, k) /\ MatchesOf(q, k) = MatchesOf(m, k)
    /\ \A k \in DOMAIN m.account : q.account[k].borrowed <=> m.account[k].borrowed /\ k # i

\* The top frame was granted what entry i matched in it.
GrantOf(m, d, i, g) ==
    /\ g.tracker = i /\ g.depth = d /\ GrantSigned(g)
    /\ MatchesOf(m, i)[Len(MatchesOf(m, i))] = {g.path}

\* The entry was used, or its authentication failed.
LEMMA UseFits ==
    ASSUME NEW m, NEW stack, NEW n, NEW l, GrantsFit(m, stack), TrackersFit(m, stack, n, "none", l),
           BorrowedFit(m, stack), NEW i, Pending(m, stack, i), NEW q, Freed(m, q, i),
           NEW d, d = Len(stack), NEW r, Len(r) = d, NEW x, Grown(stack, r, d, x),
           NEW e, NEW g, (x = {} /\ e # "none") \/ (x = {g} /\ GrantOf(m, d, i, g)),
           NEW n2, Consumed(q, n2, l, VerifiedEntries(q)),
           \A k \in VerifiedEntries(q) : EntrySigned(q.account[k])
    PROVE  GrantsFit(q, r) /\ TrackersFit(q, r, n2, e, l)
  <1>1. /\ d \in Nat /\ d > 0 /\ DOMAIN stack = 1..d /\ DOMAIN r = 1..d /\ d \in 1..d
    <2>1. d \in Nat /\ d > 0 /\ DOMAIN stack = 1..d /\ DOMAIN r = 1..d
      BY GrownLemma
    <2>. QED  BY <2>1
  <1>2. SameEntries(m, q) /\ DOMAIN q.account = DOMAIN m.account /\ i \in DOMAIN m.account
    BY DEF Freed, SameEntries, Pending
  <1>3. \A k \in DOMAIN m.account : NodesOf(q, k) = NodesOf(m, k) /\ MatchesOf(q, k) = MatchesOf(m, k)
    BY DEF Freed
  <1>. DEFINE a == Len(MatchesOf(m, i))
  <1>4. /\ MatchesFit(m, stack, i) /\ a \in Nat /\ a > 0 /\ a + 1 = d
        /\ NodesOf(m, i) = PathsUpTo(stack, i, d) \cup MatchesOf(m, i)[a]
        /\ MatchesOf(m, i)[a] # Unmatched
    <2>1. CheckFits(m, stack, d + 1, i) /\ MatchesFit(m, stack, i)
      BY <1>2 DEF Pending, TrackersFit, TrackerFits
    <2>2. a \in Nat
      BY <2>1, SequenceLemma DEF MatchesFit
    <2>3. (d + 1) - 1 = d
      BY <1>1
    <2>4. a + 2 = d + 1 /\ a > 0 /\ MatchesOf(m, i)[a] # Unmatched
      BY <2>1 DEF CheckFits
    <2>5. NodesOf(m, i) = PathsUpTo(stack, i, d) \cup MatchesOf(m, i)[a]
      BY <2>1, <2>3 DEF CheckFits
    <2>. QED  BY <1>1, <2>1, <2>2, <2>4, <2>5
  <1>5. \A y \in x : y = g /\ GrantOf(m, d, i, g)
    OBVIOUS
  <1>6. ASSUME NEW y \in x
        PROVE  GrantFits(m, stack, d, y)
    <2>1. y = g /\ GrantOf(m, d, i, g)
      BY <1>5
    <2>2. MatchFits(m, stack, i, a)
      BY <1>4 DEF MatchesFit
    <2>3. InContext(m, stack, i, g.path, d)
      BY <1>4, <2>1, <2>2 DEF MatchFits, GrantOf
    <2>. QED  BY <1>1, <1>2, <2>1, <2>3 DEF GrantFits, GrantOf
  <1>7. GrantsFit(q, r)
    BY <1>1, <1>2, <1>6, GrantsKept
  <1>8. CallsFit(q, r)
    <2>1. \A j \in 1..d : r[j].fn = stack[j].fn
      BY DEF Grown, SameFrame
    <2>2. IsSequence(m.call_stack) /\ d = Len(m.call_stack) + 1
      BY DEF TrackersFit, CallsFit
    <2>3. \A j \in DOMAIN m.call_stack : j + 1 \in 1..d
      BY <1>1, <2>2, SequenceLemma
    <2>4. q.call_stack = m.call_stack
      BY DEF Freed
    <2>. QED  BY <2>1, <2>2, <2>3, <2>4 DEF TrackersFit, CallsFit
  <1>9. ASSUME NEW k \in DOMAIN m.account, Len(MatchesOf(m, k)) + 1 <= d
        PROVE  MatchesFit(q, r, k) /\ (Held(m, stack, k) => Held(q, r, k))
    <2>1. MatchesFit(m, stack, k) /\ IsSequence(MatchesOf(m, k)) /\ MatchesOf(q, k) = MatchesOf(m, k)
      BY <1>3 DEF TrackersFit, TrackerFits, MatchesFit
    <2>2. Len(MatchesOf(m, k)) \in Nat
      BY <2>1, SequenceLemma
    <2>3. Len(MatchesOf(m, k)) <= Len(MatchesOf(m, k))
      BY <2>2
    <2>. QED  BY <1>2, <1>9, <2>1, <2>3, MatchesKept
  <1>10. ASSUME NEW k \in DOMAIN m.account, k # i, ~m.account[k].borrowed
         PROVE  MatchesFit(q, r, k) /\ Len(MatchesOf(q, k)) + 1 = d /\ Settled(q, r, k)
    <2>1. Len(MatchesOf(m, k)) + 1 = d /\ Settled(m, stack, k)
      BY <1>10 DEF TrackersFit, TrackerFits
    <2>2. MatchesFit(q, r, k) /\ Held(q, r, k)
      BY <1>1, <1>9, <2>1 DEF Settled
    <2>3. PathsUpTo(r, k, d) = PathsUpTo(stack, k, d) \cup {h.path : h \in {y \in x : y.tracker = k}}
      BY PathsGrown
    <2>4. {y \in x : y.tracker = k} = {}
      BY <1>5, <1>10 DEF GrantOf
    <2>5. PathsUpTo(r, k, d) = PathsUpTo(stack, k, d)
      BY <2>3, <2>4
    <2>. QED  BY <1>3, <2>1, <2>2, <2>5 DEF Settled
  <1>11. MatchesFit(q, r, i) /\ Len(MatchesOf(q, i)) + 1 = d /\ (e = "none" => Settled(q, r, i))
    <2>1. MatchesFit(q, r, i) /\ Len(MatchesOf(q, i)) + 1 = d
      BY <1>1, <1>2, <1>3, <1>4, <1>9
    <2>2. ASSUME e = "none"
          PROVE  Settled(q, r, i)
      <3>1. x = {g} /\ GrantOf(m, d, i, g)
        BY <2>2
      <3>2. g \in r[d].grants
        BY <3>1 DEF Grown
      <3>3. MatchHeld(q, r, i, a)
        <4>1. MatchesOf(q, i)[a] = {g.path}
          BY <1>2, <1>3, <3>1 DEF GrantOf
        <4>. QED  BY <1>4, <3>1, <3>2, <4>1 DEF MatchHeld, GrantOf
      <3>4. Len(MatchesOf(q, i)) = a
        BY <1>2, <1>3
      <3>5. \A p \in 1..a : p < a \/ p = a
        BY <1>4
      <3>6. \A p \in 1..a : MatchHeld(q, r, i, p)
        BY <2>1, <3>3, <3>4, <3>5 DEF MatchesFit
      <3>7. PathsUpTo(r, i, d) = PathsUpTo(stack, i, d) \cup {h.path : h \in {y \in x : y.tracker = i}}
        BY PathsGrown
      <3>8. {h.path : h \in {y \in x : y.tracker = i}} = {g.path}
        BY <3>1 DEF GrantOf
      <3>9. NodesOf(q, i) = PathsUpTo(r, i, d)
        BY <1>2, <1>3, <1>4, <3>1, <3>7, <3>8 DEF GrantOf
      <3>. QED  BY <3>4, <3>6, <3>9 DEF Settled, Held
    <2>. QED  BY <2>1, <2>2
  <1>12. ASSUME NEW k \in DOMAIN m.account, k # i, m.account[k].borrowed
         PROVE  MatchesFit(q, r, k)
    <2>1. Len(MatchesOf(m, k)) + 1 <= d
      BY <1>12 DEF BorrowedFit
    <2>. QED  BY <1>9, <2>1
  <1>13. \A k \in DOMAIN q.account : TrackerFits(q, r, e, k)
    <2>1. ASSUME NEW k \in DOMAIN m.account
          PROVE  TrackerFits(q, r, e, k)
      <3>. HIDE DEF a
      <3>1. CASE k = i
        BY <1>11, <3>1 DEF TrackerFits
      <3>2. CASE k # i /\ m.account[k].borrowed
        <4>1. q.account[k].borrowed
          BY <3>2 DEF Freed
        <4>. QED  BY <1>12, <3>2, <4>1 DEF TrackerFits
      <3>3. CASE k # i /\ ~m.account[k].borrowed
        BY <1>10, <3>3 DEF TrackerFits
      <3>. QED  BY <3>1, <3>2, <3>3
    <2>. QED  BY <1>2, <2>1
  <1>14. ASSUME NEW c \in DOMAIN r, r[c].kind = "check_auth"
         PROVE  /\ CheckFits(q, r, c, r[c].tracker)
                /\ q.account[r[c].tracker].invocation.address \notin ClassicAccounts
    <2>. DEFINE k == r[c].tracker
    <2>1. c \in DOMAIN stack /\ c \in 1..d /\ stack[c].kind = "check_auth" /\ stack[c].tracker = k
      BY <1>1, <1>14 DEF Grown, SameFrame
    <2>2. CheckFits(m, stack, c, k) /\ m.account[k].invocation.address \notin ClassicAccounts
      BY <2>1 DEF TrackersFit
    <2>3. k \in DOMAIN m.account
      BY <2>1 DEF GrantsFit, FrameFits
    <2>4. k # i
      BY <2>1 DEF Pending, Checks
    <2>5. MatchesOf(q, k) = MatchesOf(m, k) /\ NodesOf(q, k) = NodesOf(m, k)
      BY <1>3, <2>3
    <2>6. \A y \in x : y.tracker # k
      BY <1>5, <2>4 DEF GrantOf
    <2>7. \A j \in d + 1..Len(r) : \A y \in r[j].grants : y.tracker # k
      BY <1>1
    <2>8. q.account[k].invocation.address = m.account[k].invocation.address
      BY <1>2, <2>3 DEF SameEntries, SameEntry
    <2>. HIDE DEF k, a
    <2>9. CheckFits(q, r, c, k)
      BY <2>1, <2>2, <2>5, <2>6, <2>7, CheckKept
    <2>. QED  BY <2>2, <2>8, <2>9 DEF k
  <1>15. \A j \in DOMAIN r : RestoreFits(q, r, j, l)
    <2>1. \A j \in 1..d : RestoreFits(m, stack, j, l)
      BY <1>1 DEF TrackersFit
    <2>. QED  BY <1>1, <1>2, <2>1, RestoreKept
  <1>16. TrackersFit(q, r, n2, e, l)
    BY <1>8, <1>13, <1>14, <1>15 DEF TrackersFit
  <1>. QED  BY <1>7, <1>16

\* An entry after a frame failed: rolled back, popped and perhaps freed.
Unwound(m, q, f) ==
    /\ SameEntries(m, q) /\ q.call_stack = Front(m.call_stack)
    /\ \A k \in DOMAIN m.account :
          /\ q.account[k].borrowed <=> m.account[k].borrowed /\ ~Checks(f, k)
          /\ m.account[k].borrowed => MatchesOf(q, k) = MatchesOf(m, k) /\ NodesOf(q, k) = NodesOf(m, k)
          /\ ~m.account[k].borrowed /\ MatchesOf(m, k) # <<>> => MatchesOf(q, k) = Front(MatchesOf(m, k))

LEMMA UnwoundFits ==
    ASSUME NEW m, NEW stack, NEW n, NEW e, NEW l, NEW s,
           GrantsFit(m, stack), TrackersFit(m, stack, n, e, l), TrackersOK(m, stack, n, l, s),
           NEW d, Len(stack) = d + 1, NEW r, Len(r) = d, Grown(stack, r, d, {}),
           NEW q, Unwound(m, q, stack[d + 1]), NEW e2,
           e2 = "none" =>
              /\ stack[d + 1].kind # "check_auth"
              /\ \A k \in DOMAIN m.account : ~m.account[k].borrowed => NodesOf(q, k) = PathsUpTo(stack, k, d),
           NEW n2, Consumed(q, n2, l, VerifiedEntries(q)),
           \A k \in VerifiedEntries(q) : EntrySigned(q.account[k])
    PROVE  TrackersFit(q, r, n2, e2, l)
  <1>1. /\ d \in Nat /\ d > 0 /\ DOMAIN stack = 1..d + 1 /\ DOMAIN r = 1..d /\ d + 1 \in DOMAIN stack
        /\ \A i \in 1..d : i \in DOMAIN stack /\ i < d + 1
        /\ \A i \in DOMAIN stack : i \in 1..d \/ i = d + 1
    BY GrownLemma
  <1>2. SameEntries(m, q) /\ DOMAIN q.account = DOMAIN m.account
    BY DEF Unwound, SameEntries
  <1>3. CallsFit(q, r)
    <2>. DEFINE w == m.call_stack
    <2>1. IsSequence(w) /\ d + 1 = Len(w) + 1 /\ \A i \in DOMAIN w : w[i] = stack[i + 1].fn
      BY DEF TrackersFit, CallsFit
    <2>2. q.call_stack = Front(w)
      BY DEF Unwound
    <2>. HIDE DEF w
    <2>3. Len(w) = d /\ w # <<>> /\ DOMAIN w = 1..d
      BY <1>1, <2>1, SequenceLemma
    <2>4. IsSequence(Front(w)) /\ Len(Front(w)) = Len(w) - 1 /\ \A i \in 1..Len(w) - 1 : Front(w)[i] = w[i]
      BY <2>1, <2>3, FrontLemma
    <2>5. /\ IsSequence(q.call_stack) /\ Len(q.call_stack) = d - 1
          /\ \A i \in 1..d - 1 : q.call_stack[i] = w[i]
      BY <2>2, <2>3, <2>4, Zenon
    <2>6. DOMAIN q.call_stack = 1..d - 1
      BY <2>5, SequenceLemma
    <2>7. \A i \in 1..d - 1 : i \in 1..d /\ i + 1 \in 1..d
      BY <1>1
    <2>8. \A i \in 1..d : r[i].fn = stack[i].fn
      BY DEF Grown, SameFrame
    <2>9. \A i \in 1..d - 1 : q.call_stack[i] = r[i + 1].fn
      BY <2>1, <2>3, <2>5, <2>7, <2>8
    <2>10. d = (d - 1) + 1
      BY <1>1
    <2>. QED  BY <2>5, <2>6, <2>9, <2>10 DEF CallsFit
  <1>4. ASSUME NEW k \in DOMAIN m.account, m.account[k].borrowed
        PROVE  /\ MatchesFit(q, r, k)
               /\ ~q.account[k].borrowed => Len(MatchesOf(q, k)) + 1 = d /\ e2 # "none"
    <2>1. PICK c \in DOMAIN stack : Checks(stack[c], k)
      BY <1>4, BorrowedLemma
    <2>2. CheckFits(m, stack, c, k)
      BY <2>1 DEF TrackersFit, Checks
    <2>3. MatchesFit(m, stack, k)
      BY DEF TrackersFit, TrackerFits
    <2>4. MatchesOf(q, k) = MatchesOf(m, k)
      BY <1>4 DEF Unwound
    <2>5. Len(MatchesOf(m, k)) \in Nat
      BY <2>3, SequenceLemma DEF MatchesFit
    <2>6. Len(MatchesOf(m, k)) + 2 = c
      BY <2>2 DEF CheckFits
    <2>7. Len(MatchesOf(m, k)) + 1 <= d
      BY <1>1, <2>5, <2>6
    <2>8. IsSequence(MatchesOf(q, k)) /\ Len(MatchesOf(q, k)) <= Len(MatchesOf(m, k))
      BY <2>3, <2>4, <2>5 DEF MatchesFit
    <2>9. MatchesFit(q, r, k)
      BY <1>2, <2>3, <2>4, <2>7, <2>8, MatchesKept
    <2>10. ASSUME ~q.account[k].borrowed
           PROVE  Len(MatchesOf(q, k)) + 1 = d /\ e2 # "none"
      <3>1. Checks(stack[d + 1], k)
        BY <1>4, <2>10 DEF Unwound
      <3>2. c = d + 1
        BY <1>1, <2>1, <3>1 DEF TrackersOK, Checks
      <3>3. Len(MatchesOf(m, k)) + 1 = d
        BY <1>1, <2>5, <2>6, <3>2
      <3>. QED  BY <2>4, <3>1, <3>3 DEF Checks
    <2>. QED  BY <2>9, <2>10
  <1>5. ASSUME NEW k \in DOMAIN m.account, ~m.account[k].borrowed
        PROVE  /\ MatchesFit(q, r, k) /\ Len(MatchesOf(q, k)) + 1 = d
               /\ e2 = "none" => Settled(q, r, k)
    <2>1. MatchesFit(m, stack, k) /\ Len(MatchesOf(m, k)) + 1 = d + 1 /\ IsSequence(MatchesOf(m, k))
      BY <1>5 DEF TrackersFit, TrackerFits, MatchesFit
    <2>2. Len(MatchesOf(m, k)) = d /\ MatchesOf(m, k) # <<>>
      BY <1>1, <2>1, SequenceLemma
    <2>3. /\ IsSequence(MatchesOf(q, k)) /\ Len(MatchesOf(q, k)) = d - 1
          /\ \A p \in 1..d - 1 : MatchesOf(q, k)[p] = MatchesOf(m, k)[p]
      <3>1. MatchesOf(q, k) = Front(MatchesOf(m, k))
        BY <1>5, <2>2 DEF Unwound
      <3>. QED  BY <2>1, <2>2, <3>1, FrontLemma
    <2>4. d - 1 <= d /\ (d - 1) + 1 <= d /\ d - 1 < d /\ (d - 1) + 1 = d
      BY <1>1
    <2>5. MatchesFit(q, r, k) /\ Held(q, r, k)
      BY <1>2, <2>1, <2>2, <2>3, <2>4, MatchesKept
    <2>6. e2 = "none" => NodesOf(q, k) = PathsUpTo(r, k, d)
      <3>. DEFINE x == {}
      <3>1. Grown(stack, r, d, x)
        OBVIOUS
      <3>. HIDE DEF x
      <3>2. PathsUpTo(r, k, d) = PathsUpTo(stack, k, d) \cup {g.path : g \in {y \in x : y.tracker = k}}
        BY <3>1, PathsGrown
      <3>3. PathsUpTo(r, k, d) = PathsUpTo(stack, k, d)
        BY <3>2 DEF x
      <3>. QED  BY <1>5, <3>3
    <2>. QED  BY <2>3, <2>4, <2>5, <2>6 DEF Settled
  <1>6. \A k \in DOMAIN q.account : TrackerFits(q, r, e2, k)
    <2>1. ASSUME NEW k \in DOMAIN m.account
          PROVE  TrackerFits(q, r, e2, k)
      BY <1>4, <1>5 DEF TrackerFits
    <2>. QED  BY <1>2, <2>1
  <1>7. ASSUME NEW c \in DOMAIN r, r[c].kind = "check_auth"
        PROVE  /\ CheckFits(q, r, c, r[c].tracker)
               /\ q.account[r[c].tracker].invocation.address \notin ClassicAccounts
    <2>. DEFINE k == r[c].tracker
                x == {}
    <2>1. c \in DOMAIN stack /\ c \in 1..d /\ stack[c].kind = "check_auth" /\ stack[c].tracker = k
      BY <1>1, <1>7 DEF Grown, SameFrame
    <2>2. CheckFits(m, stack, c, k) /\ m.account[k].invocation.address \notin ClassicAccounts
      BY <2>1 DEF TrackersFit
    <2>3. k \in DOMAIN m.account /\ m.account[k].borrowed
      BY <2>1 DEF TrackersOK
    <2>4. MatchesOf(q, k) = MatchesOf(m, k) /\ NodesOf(q, k) = NodesOf(m, k)
      BY <2>3 DEF Unwound
    <2>5. \A j \in d + 1..Len(r) : \A y \in r[j].grants : y.tracker # k
      BY <1>1
    <2>6. q.account[k].invocation.address = m.account[k].invocation.address
      BY <1>2, <2>3 DEF SameEntries, SameEntry
    <2>7. Grown(stack, r, d, x) /\ \A y \in x : y.tracker # k
      OBVIOUS
    <2>. HIDE DEF k, x
    <2>8. CheckFits(q, r, c, k)
      BY <2>1, <2>2, <2>4, <2>5, <2>7, CheckKept
    <2>. QED  BY <2>2, <2>6, <2>8 DEF k
  <1>8. \A j \in DOMAIN r : RestoreFits(q, r, j, l)
    <2>1. \A j \in 1..d : RestoreFits(m, stack, j, l)
      BY <1>1 DEF TrackersFit
    <2>. QED  BY <1>1, <1>2, <2>1, RestoreKept
  <1>. QED  BY <1>3, <1>6, <1>7, <1>8 DEF TrackersFit

LEMMA GrownFront ==
    ASSUME NEW stack, IsSequence(stack), Len(stack) > 1, \A i \in DOMAIN stack : IsFrame(stack[i]), NEW d,
           d = Len(stack) - 1, NEW r, r = Front(stack)
    PROVE  Grown(stack, r, d, {}) /\ Len(r) = d /\ Len(stack) = d + 1
  <1>1. Len(stack) \in Nat /\ DOMAIN stack = 1..Len(stack) /\ stack # <<>>
    BY SequenceLemma
  <1>2. IsSequence(r) /\ Len(r) = d /\ \A i \in 1..d : r[i] = stack[i]
    BY <1>1, FrontLemma
  <1>3. /\ d \in Nat \ {0} /\ Len(stack) = d + 1 /\ d <= Len(stack) /\ d <= Len(r)
        /\ \A i \in 1..d : i \in DOMAIN stack
        /\ d \in 1..d /\ \A i \in 1..d - 1 : i \in 1..d
    BY <1>1, <1>2
  <1>4. \A i \in 1..d : SameFrame(stack[i], r[i])
    BY <1>2, <1>3 DEF SameFrame
  <1>5. /\ \A i \in 1..d - 1 : r[i].grants = stack[i].grants
        /\ r[d].grants = stack[d].grants \cup {}
    BY <1>2, <1>3
  <1>. QED  BY <1>2, <1>3, <1>4, <1>5 DEF Grown

LEMMA RolledEffect ==
    ASSUME NEW m, IsManager(m), AccountsOK(m), ~m.recording, NEW f, FrameFits(m, f),
           NEW b, b = rollback(m, f.snap)
    PROVE  /\ IsManager(b) /\ b.recording = m.recording /\ SameEntries(m, b)
           /\ b.call_stack = m.call_stack
           /\ \A k \in DOMAIN m.account :
                 /\ b.account[k].borrowed = m.account[k].borrowed
                 /\ MatchesOf(b, k) = MatchesOf(m, k)
                 /\ ~f.snap.account[k].taken => b.account[k] = m.account[k]
                 /\ f.snap.account[k].taken =>
                       /\ b.account[k].verified = f.snap.account[k].verified
                       /\ NodesOf(b, k) = f.snap.account[k].exhausted
  <1>1. /\ IsManager(b) /\ b.recording = m.recording /\ b.call_stack = m.call_stack
        /\ DOMAIN b.account = DOMAIN m.account
        /\ \A k \in DOMAIN m.account : b.account[k] = RolledBack(m.account[k], f.snap.account[k])
    <2>. DEFINE y == f.snap
    <2>1. b = rollback(m, y)
      OBVIOUS
    <2>. HIDE DEF y
    <2>. QED  BY <2>1, RollbackLemma DEF y
  <1>2. ASSUME NEW k \in DOMAIN m.account
        PROVE  /\ IsEntry(b.account[k]) /\ SameEntry(m.account[k], b.account[k])
               /\ b.account[k].borrowed = m.account[k].borrowed
               /\ MatchesOf(b, k) = MatchesOf(m, k)
               /\ ~f.snap.account[k].taken => b.account[k] = m.account[k]
               /\ f.snap.account[k].taken =>
                       /\ b.account[k].verified = f.snap.account[k].verified
                       /\ NodesOf(b, k) = f.snap.account[k].exhausted
    <2>. DEFINE t == m.account[k]
                u == b.account[k]
                y == f.snap.account[k]
    <2>1. IsEntry(t) /\ u = RolledBack(t, y) /\ y.verified \in BOOLEAN /\ IsInvocation(t.invocation)
      BY <1>1 DEF AccountsOK, IsEntry, FrameFits
    <2>. SUFFICES /\ IsEntry(u) /\ SameEntry(t, u) /\ u.borrowed = t.borrowed
                  /\ u.invocation.match_stack = t.invocation.match_stack
                  /\ ~y.taken => u = t
                  /\ y.taken => u.verified = y.verified /\ u.invocation.exhausted = y.exhausted
      BY DEF MatchesOf, NodesOf
    <2>. HIDE DEF t, u, y
    <2>2. CASE y.taken
      <3>1. u = rollback_tracker(t, y)
        BY <2>1, <2>2 DEF RolledBack
      <3>2. IsEntry(u) /\ SameEntry(t, u) /\ u.verified = y.verified /\ u.borrowed = t.borrowed
        BY <2>1, <3>1, EntryRolled
      <3>3. u.invocation = rollback_invocation(t.invocation, y.exhausted)
        <4>. DEFINE w == rollback_invocation(t.invocation, y.exhausted)
                    v == y.verified
        <4>1. u = [t EXCEPT !.invocation = w, !.verified = v]
          BY <3>1 DEF rollback_tracker
        <4>. HIDE DEF w, v
        <4>2. u.invocation = w
          BY <2>1, <4>1 DEF IsEntry
        <4>. QED  BY <4>2 DEF w
      <3>4. u.invocation.match_stack = t.invocation.match_stack /\ u.invocation.exhausted = y.exhausted
        <4>. DEFINE z == t.invocation
        <4>. HIDE DEF z
        <4>1. IsInvocation(z) /\ u.invocation = rollback_invocation(z, y.exhausted)
          BY <2>1, <3>3 DEF z
        <4>2. \A x : rollback_invocation(z, x).match_stack = z.match_stack /\ rollback_invocation(z, x).exhausted = x
          BY <4>1, TrackerEffects
        <4>. QED  BY <4>1, <4>2, Zenon DEF z
      <3>. QED  BY <2>2, <3>2, <3>4
    <2>3. CASE ~y.taken
      <3>1. u = t
        BY <2>1, <2>3 DEF RolledBack
      <3>. QED  BY <2>1, <2>3, <3>1, EntryLemma
    <2>. QED  BY <2>2, <2>3
  <1>3. SameEntries(m, b)
    BY <1>1, <1>2 DEF SameEntries, AccountsOK
  <1>. QED  BY <1>1, <1>2, <1>3

LEMMA UnborrowEffect ==
    ASSUME NEW m, IsManager(m), AccountsOK(m), NEW f, f.kind = "check_auth" => f.tracker \in DOMAIN m.account,
           NEW q, q = Unborrow(m, f)
    PROVE  /\ IsManager(q) /\ q.recording = m.recording /\ SameEntries(m, q) /\ q.call_stack = m.call_stack
           /\ \A k \in DOMAIN m.account :
                 /\ q.account[k].borrowed <=> m.account[k].borrowed /\ ~Checks(f, k)
                 /\ q.account[k].verified = m.account[k].verified
                 /\ MatchesOf(q, k) = MatchesOf(m, k) /\ NodesOf(q, k) = NodesOf(m, k)
  <1>1. CASE f.kind = "check_auth"
    <2>. DEFINE i == f.tracker
    <2>1. i \in DOMAIN m.account /\ q = Release(m, i)
      BY <1>1 DEF Unborrow, Release
    <2>2. /\ IsManager(q) /\ q.recording = m.recording /\ SameEntries(m, q) /\ q.call_stack = m.call_stack
          /\ q.account[i].invocation = m.account[i].invocation
          /\ q.account[i].verified = m.account[i].verified /\ ~q.account[i].borrowed
          /\ \A k \in DOMAIN m.account : k # i => q.account[k] = m.account[k]
      BY <2>1, BorrowFalse
    <2>3. \A k : Checks(f, k) <=> k = i
      BY <1>1 DEF Checks
    <2>. HIDE DEF i
    <2>4. ASSUME NEW k \in DOMAIN m.account
          PROVE  /\ q.account[k].borrowed <=> m.account[k].borrowed /\ ~Checks(f, k)
                 /\ q.account[k].verified = m.account[k].verified
                 /\ MatchesOf(q, k) = MatchesOf(m, k) /\ NodesOf(q, k) = NodesOf(m, k)
      <3>1. CASE k = i
        BY <2>2, <2>3, <3>1 DEF MatchesOf, NodesOf
      <3>2. CASE k # i
        BY <2>2, <2>3, <3>2 DEF MatchesOf, NodesOf
      <3>. QED  BY <3>1, <3>2
    <2>. QED  BY <2>2, <2>4
  <1>2. CASE f.kind # "check_auth"
    <2>1. q = m /\ \A k : ~Checks(f, k)
      BY <1>2 DEF Unborrow, Checks
    <2>2. SameEntries(m, m)
      BY EntryLemma DEF SameEntries, AccountsOK
    <2>. QED  BY <2>1, <2>2
  <1>. QED  BY <1>1, <1>2

LEMMA UnwindEffect ==
    ASSUME NEW m, IsManager(m), AccountsOK(m), ~m.recording, NEW f, FrameFits(m, f),
           NEW q, q = Unborrow(PopCall(rollback(m, f.snap)), f)
    PROVE  /\ SameEntries(m, q)
           /\ m.call_stack # <<>> /\ (\A k \in DOMAIN m.account : f.snap.account[k].taken <=> ~m.account[k].borrowed) =>
                 /\ Unwound(m, q, f)
                 /\ \A k \in DOMAIN m.account :
                       /\ ~m.account[k].borrowed =>
                             /\ NodesOf(q, k) = f.snap.account[k].exhausted
                             /\ q.account[k].verified = f.snap.account[k].verified
                       /\ m.account[k].borrowed => q.account[k].verified = m.account[k].verified
  <1>. DEFINE b == rollback(m, f.snap)
              p == PopCall(b)
  <1>1. /\ IsManager(b) /\ b.recording = m.recording /\ SameEntries(m, b)
        /\ b.call_stack = m.call_stack
        /\ \A k \in DOMAIN m.account :
              /\ b.account[k].borrowed = m.account[k].borrowed
              /\ MatchesOf(b, k) = MatchesOf(m, k)
              /\ ~f.snap.account[k].taken => b.account[k] = m.account[k]
              /\ f.snap.account[k].taken =>
                    /\ b.account[k].verified = f.snap.account[k].verified
                    /\ NodesOf(b, k) = f.snap.account[k].exhausted
    BY RolledEffect
  <1>2. q = Unborrow(p, f)
    OBVIOUS
  <1>. HIDE DEF b
  <1>3. AccountsOK(b) /\ DOMAIN b.account = DOMAIN m.account
    BY <1>1 DEF SameEntries
  <1>4. IsManager(p) /\ SameEntries(b, p)
    BY <1>1, <1>3, PopLemma DEF SameManager
  <1>5. m.call_stack # <<>> =>
           /\ SameStatus(b, p) /\ p.call_stack = Front(b.call_stack)
           /\ \A k \in DOMAIN b.account :
                 /\ NodesOf(p, k) = NodesOf(b, k)
                 /\ b.account[k].borrowed => MatchesOf(p, k) = MatchesOf(b, k)
                 /\ ~b.account[k].borrowed /\ MatchesOf(b, k) # <<>> => MatchesOf(p, k) = Front(MatchesOf(b, k))
    BY <1>1, <1>3, PopEffect
  <1>. HIDE DEF p
  <1>6. AccountsOK(p) /\ DOMAIN p.account = DOMAIN m.account
    BY <1>3, <1>4 DEF SameEntries
  <1>7. /\ SameEntries(p, q) /\ q.call_stack = p.call_stack
        /\ \A k \in DOMAIN p.account :
              /\ q.account[k].borrowed <=> p.account[k].borrowed /\ ~Checks(f, k)
              /\ q.account[k].verified = p.account[k].verified
              /\ MatchesOf(q, k) = MatchesOf(p, k) /\ NodesOf(q, k) = NodesOf(p, k)
    <2>1. f.kind = "check_auth" => f.tracker \in DOMAIN p.account
      BY <1>6 DEF FrameFits
    <2>. QED  BY <1>2, <1>4, <1>6, <2>1, UnborrowEffect
  <1>8. SameEntries(m, q)
    <2>1. SameEntries(m, p)
      BY <1>1, <1>4 DEF SameEntries, SameEntry
    <2>. QED  BY <1>7, <2>1 DEF SameEntries, SameEntry
  <1>9. ASSUME m.call_stack # <<>>, \A k \in DOMAIN m.account : f.snap.account[k].taken <=> ~m.account[k].borrowed
        PROVE  /\ Unwound(m, q, f)
               /\ \A k \in DOMAIN m.account :
                     /\ ~m.account[k].borrowed =>
                           /\ NodesOf(q, k) = f.snap.account[k].exhausted
                           /\ q.account[k].verified = f.snap.account[k].verified
                     /\ m.account[k].borrowed => q.account[k].verified = m.account[k].verified
    <2>1. q.call_stack = Front(m.call_stack)
      BY <1>1, <1>5, <1>7, <1>9
    <2>2. ASSUME NEW k \in DOMAIN m.account, m.account[k].borrowed
          PROVE  /\ q.account[k].borrowed <=> ~Checks(f, k)
                 /\ MatchesOf(q, k) = MatchesOf(m, k) /\ NodesOf(q, k) = NodesOf(m, k)
                 /\ q.account[k].verified = m.account[k].verified
      <3>1. b.account[k] = m.account[k]
        BY <1>1, <1>9, <2>2
      <3>. QED  BY <1>3, <1>5, <1>6, <1>7, <1>9, <2>2, <3>1 DEF SameStatus, MatchesOf, NodesOf
    <2>3. ASSUME NEW k \in DOMAIN m.account, ~m.account[k].borrowed
          PROVE  /\ ~q.account[k].borrowed
                 /\ MatchesOf(m, k) # <<>> => MatchesOf(q, k) = Front(MatchesOf(m, k))
                 /\ NodesOf(q, k) = f.snap.account[k].exhausted
                 /\ q.account[k].verified = f.snap.account[k].verified
      <3>1. /\ ~b.account[k].borrowed /\ MatchesOf(b, k) = MatchesOf(m, k)
            /\ b.account[k].verified = f.snap.account[k].verified
            /\ NodesOf(b, k) = f.snap.account[k].exhausted
        BY <1>1, <1>9, <2>3
      <3>2. ~p.account[k].borrowed /\ p.account[k].verified = b.account[k].verified
        BY <1>3, <1>5, <1>9, <3>1 DEF SameStatus
      <3>. QED  BY <1>3, <1>5, <1>6, <1>7, <1>9, <3>1, <3>2
    <2>4. Unwound(m, q, f)
      BY <1>8, <2>1, <2>2, <2>3 DEF Unwound
    <2>. QED  BY <2>2, <2>3, <2>4
  <1>. QED  BY <1>8, <1>9

\* The transaction goes on, and its frames fit.
LEMMA FittingLemma ==
    ASSUME GrantInv, used' = used, ledger' = ledger,
           am'.recording \/ frames' = <<>> \/ Fitting(am', frames', nonces', raised', ledger)
    PROVE  GrantInv'
  <1>1. QuorumSigned'
    BY DEF GrantInv, QuorumSigned
  <1>2. ~Idle' => Fitting(am', frames', nonces', raised', ledger')
    <2>1. am'.recording => Fitting(am', frames', nonces', raised', ledger)
      BY DEF Fitting
    <2>. QED  BY <2>1 DEF Idle
  <1>. QED  BY <1>1, <1>2 DEF GrantInv

\* An enforcing transaction, in the middle of it.
Enforcing == ~Idle /\ ~am.recording

LEMMA EnforcingFits ==
    ASSUME HostInv, GrantInv, Enforcing
    PROVE  /\ IsManager(am) /\ GrantsFit(am, frames) /\ AccountsOK(am)
           /\ raised # "internal" =>
                 TrackersFit(am, frames, nonces, raised, ledger) /\ TrackersOK(am, frames, nonces, ledger, seq)
           /\ IsSequence(frames) /\ frames # <<>> /\ Len(frames) \in Nat /\ Len(frames) > 0
           /\ DOMAIN frames = 1..Len(frames) /\ Len(frames) \in DOMAIN frames
           /\ Top = frames[Len(frames)]
           /\ \A i \in DOMAIN frames : IsFrame(frames[i])
           /\ Top.kind = "host_fn" <=> Len(frames) = 1
  <1>1. Sound(am, frames, nonces, raised, ledger, seq)
    BY DEF HostInv
  <1>2. Fitting(am, frames, nonces, raised, ledger)
    BY DEF GrantInv, Enforcing
  <1>3. /\ IsManager(am) /\ GrantsFit(am, frames)
        /\ raised # "internal" =>
                 TrackersFit(am, frames, nonces, raised, ledger) /\ TrackersOK(am, frames, nonces, ledger, seq)
    BY <1>1, <1>2 DEF Sound, Fitting, Enforcing
  <1>. QED  BY <1>3, TopLemma DEF Enforcing, GrantsFit

\* Entries that fit when a frame is popped, after the rollback of its entries if there is one.
LEMMA UnwindingFits ==
    ASSUME HostInv, Enforcing, GrantsFit(am, frames), NEW d, d = Len(frames) - 1, Len(frames) > 1,
           NEW q, SameEntries(am, q), NEW e2, raised = "internal" => e2 = "internal", NEW n2,
           raised # "internal" /\ e2 # "internal" =>
              /\ TrackersFit(am, frames, nonces, raised, ledger) /\ TrackersOK(am, frames, nonces, ledger, seq)
              /\ Unwound(am, q, Top)
              /\ e2 = "none" =>
                    /\ Top.kind # "check_auth"
                    /\ \A k \in DOMAIN am.account : ~am.account[k].borrowed => NodesOf(q, k) = PathsUpTo(frames, k, d)
              /\ Consumed(q, n2, ledger, VerifiedEntries(q))
              /\ \A k \in VerifiedEntries(q) : EntrySigned(q.account[k])
    PROVE  Fitting(q, Front(frames), n2, e2, ledger)
  <1>. DEFINE r == Front(frames)
              none == {}
  <1>1. /\ IsSequence(frames) /\ \A i \in DOMAIN frames : IsFrame(frames[i])
        /\ Top = frames[Len(frames)] /\ Len(frames) \in Nat
    BY TopLemma DEF Enforcing
  <1>2. Grown(frames, r, d, none) /\ Len(r) = d /\ Len(frames) = d + 1
    BY <1>1, GrownFront
  <1>3. IsSequence(r)
    BY <1>2 DEF Grown
  <1>. HIDE DEF r
  <1>4. GrantsFit(q, r)
    <2>1. \A g \in none : GrantFits(am, frames, d, g)
      OBVIOUS
    <2>2. \A j \in DOMAIN r : j \in 1..d
      BY <1>2, <1>3, SequenceLemma
    <2>. HIDE DEF none
    <2>. QED  BY <1>2, <2>1, <2>2, GrantsKept
  <1>5. ASSUME e2 # "internal"
        PROVE  TrackersFit(q, r, n2, e2, ledger)
    <2>1. Unwound(am, q, frames[d + 1])
      BY <1>1, <1>2, <1>5
    <2>2. frames[d + 1] = Top
      BY <1>1, <1>2
    <2>. QED  BY <1>2, <1>5, <2>1, <2>2, UnwoundFits
  <1>. QED  BY <1>4, <1>5 DEF Fitting, r

\* What unwinding a frame does.
LEMMA UnwindCases ==
    ASSUME HostInv, Unwind
    PROVE  /\ ~Idle /\ raised # "none" /\ frames' = Front(frames) /\ used' = used /\ ledger' = ledger
           /\ Top.kind = "create" => am' = PopCall(am) /\ raised' = raised /\ nonces' = nonces
           /\ Top.kind # "create" /\ Len(frames) > 1 =>
                 /\ nonces' = Top.nonces
                 /\ \/ am' = Unborrow(rollback_accounts(am, Top.snap), Top) /\ raised' = "internal"
                    \/ /\ am' = Unborrow(PopCall(rollback(am, Top.snap)), Top)
                       /\ \/ raised' = raised
                          \/ raised' = "none" /\ raised = "recoverable" /\ Top.kind = "try"
  <1>. DEFINE d == Len(frames)
              q == Unborrow(PopCall(rollback(am, Top.snap)), Top)
              b == Unborrow(rollback_accounts(am, Top.snap), Top)
  <1>1. /\ ~Idle /\ raised # "none" /\ frames' = Front(frames) /\ used' = used /\ ledger' = ledger
    BY DEF Unwind
  <1>2. d \in Nat
    BY <1>1, TopLemma
  <1>3. Top.kind = "create" => am' = PopCall(am) /\ raised' = raised /\ nonces' = nonces
    BY DEF Unwind
  <1>4. d > 1 => d # 1
    <2>. HIDE DEF d
    <2>. QED  BY <1>2
  <1>5. ASSUME Top.kind # "create", d > 1, ~CanRollback(am, Top.snap)
        PROVE  nonces' = Top.nonces /\ am' = b /\ raised' = "internal"
    <2>1. nonces' = Top.nonces /\ am' = b
      BY <1>4, <1>5, Zenon DEF Unwind
    <2>2. raised' = "internal"
      BY <1>4, <1>5, Zenon DEF Unwind
    <2>. QED  BY <2>1, <2>2
  <1>6. ASSUME Top.kind # "create", d > 1, CanRollback(am, Top.snap)
        PROVE  /\ nonces' = Top.nonces /\ am' = q
               /\ raised' = raised \/ (raised' = "none" /\ raised = "recoverable" /\ Top.kind = "try")
    <2>1. nonces' = Top.nonces /\ am' = q
      BY <1>4, <1>6, Zenon DEF Unwind
    <2>2. raised' = raised \/ (raised' = "none" /\ raised = "recoverable" /\ Top.kind = "try")
      BY <1>4, <1>6, Zenon DEF Unwind
    <2>. QED  BY <2>1, <2>2
  <1>. QED  BY <1>1, <1>3, <1>5, <1>6, Zenon

\* A frame that fails is popped: the frames below are as it found them.
LEMMA UnwindFits ==
    ASSUME HostInv, GrantInv, Unwind
    PROVE  GrantInv'
  <1>. DEFINE d == Len(frames) - 1
              p == PopCall(am)
              b == Unborrow(rollback_accounts(am, Top.snap), Top)
              q == Unborrow(PopCall(rollback(am, Top.snap)), Top)
  <1>1. /\ ~Idle /\ raised # "none" /\ frames' = Front(frames) /\ used' = used /\ ledger' = ledger
        /\ Top.kind = "create" => am' = p /\ raised' = raised /\ nonces' = nonces
        /\ Top.kind # "create" /\ Len(frames) > 1 =>
                 /\ nonces' = Top.nonces
                 /\ \/ am' = b /\ raised' = "internal"
                    \/ /\ am' = q
                       /\ \/ raised' = raised
                          \/ raised' = "none" /\ raised = "recoverable" /\ Top.kind = "try"
    BY UnwindCases
  <1>2. /\ IsSequence(frames) /\ frames # <<>> /\ Len(frames) \in Nat /\ Len(frames) > 0
        /\ Len(frames) \in DOMAIN frames /\ Top = frames[Len(frames)]
        /\ Top.kind = "host_fn" <=> Len(frames) = 1
    BY <1>1, TopLemma
  <1>3. IsManager(am) /\ SameManager(am, p) /\ IsManager(b) /\ b.recording = am.recording
        /\ IsManager(q) /\ q.recording = am.recording /\ p.recording = am.recording
    <2>1. IsManager(am)
      BY <1>1, RunningLemma
    <2>2. SameManager(am, p)
      BY <2>1, PopLemma
    <2>3. IsManager(b) /\ b.recording = am.recording
      <3>. DEFINE x == rollback_accounts(am, Top.snap)
      <3>1. IsManager(x) /\ x.recording = am.recording
        BY <2>1, AccountsRolled
      <3>. HIDE DEF x
      <3>2. \A f : IsManager(Unborrow(x, f)) /\ Unborrow(x, f).recording = x.recording
        BY <3>1, UnborrowLemma
      <3>. QED  BY <3>1, <3>2 DEF x
    <2>4. IsManager(q) /\ q.recording = am.recording
      BY <1>1, UnwoundLemma
    <2>. HIDE DEF p, b, q
    <2>. QED  BY <2>1, <2>2, <2>3, <2>4 DEF SameManager
  <1>. HIDE DEF p, b, q
  <1>4. CASE Len(frames) = 1
    <2>1. Front(frames) = <<>>
      BY <1>2, <1>4, FrontLemma
    <2>. QED  BY <1>1, <2>1, FittingLemma
  <1>5. CASE Len(frames) > 1 /\ am.recording
    <2>1. am'.recording
      BY <1>1, <1>3, <1>5
    <2>. QED  BY <1>1, <2>1, FittingLemma
  <1>6. CASE Len(frames) > 1 /\ ~am.recording
    <2>1. Enforcing
      BY <1>1, <1>6 DEF Enforcing
    <2>2. /\ GrantsFit(am, frames) /\ AccountsOK(am)
          /\ raised # "internal" =>
                 TrackersFit(am, frames, nonces, raised, ledger) /\ TrackersOK(am, frames, nonces, ledger, seq)
      BY <2>1, EnforcingFits
    <2>3. FrameFits(am, Top)
      BY <1>2, <2>2 DEF GrantsFit
    <2>4. raised # "internal" => am.call_stack # <<>>
      <3>1. raised # "internal" => IsSequence(am.call_stack) /\ Len(frames) = Len(am.call_stack) + 1
        BY <2>2 DEF TrackersFit, CallsFit
      <3>2. ASSUME IsSequence(am.call_stack), am.call_stack = <<>> PROVE Len(am.call_stack) = 0
        BY <3>2, SequenceLemma
      <3>. QED  BY <1>6, <3>1, <3>2
    <2>. DEFINE F(x, n2, e2) == Fitting(x, Front(frames), n2, e2, ledger)
    <2>5. CASE Top.kind = "create"
      <3>1. SameEntries(am, p)
        BY <1>3, <2>2 DEF SameManager
      <3>2. ASSUME raised # "internal"
            PROVE  /\ Unwound(am, p, Top)
                   /\ Consumed(p, nonces, ledger, VerifiedEntries(p))
                   /\ \A k \in VerifiedEntries(p) : EntrySigned(p.account[k])
        <4>1. /\ SameEntries(am, p) /\ SameStatus(am, p)
              /\ p.call_stack = Front(am.call_stack)
              /\ \A k \in DOMAIN am.account :
                    /\ NodesOf(p, k) = NodesOf(am, k)
                    /\ am.account[k].borrowed => MatchesOf(p, k) = MatchesOf(am, k)
                    /\ ~am.account[k].borrowed /\ MatchesOf(am, k) # <<>> => MatchesOf(p, k) = Front(MatchesOf(am, k))
          BY <1>3, <2>2, <2>4, <3>2, PopEffect DEF p
        <4>2. \A k : ~Checks(Top, k)
          BY <2>5 DEF Checks
        <4>3. Unwound(am, p, Top)
          BY <4>1, <4>2 DEF Unwound, SameStatus
        <4>4. VerifiedEntries(p) = VerifiedEntries(am)
          BY <4>1 DEF VerifiedEntries, SameStatus, SameEntries
        <4>5. Consumed(am, nonces, ledger, VerifiedEntries(am)) /\ VerifiedEntries(am) \subseteq DOMAIN am.account
              /\ \A k \in VerifiedEntries(am) : EntrySigned(am.account[k])
          BY <2>2, <3>2 DEF TrackersFit, VerifiedEntries
        <4>6. Consumed(p, nonces, ledger, VerifiedEntries(p))
          BY <4>1, <4>4, <4>5, ConsumedKept
        <4>7. ASSUME NEW k \in VerifiedEntries(p) PROVE EntrySigned(p.account[k])
          <5>1. k \in DOMAIN am.account /\ EntrySigned(am.account[k]) /\ SameEntry(am.account[k], p.account[k])
            BY <4>1, <4>4, <4>5, <4>7 DEF SameEntries
          <5>. QED  BY <5>1, SignedKept
        <4>. QED  BY <4>3, <4>6, <4>7
      <3>3. Fitting(p, Front(frames), nonces, raised, ledger)
        BY <1>1, <1>6, <2>1, <2>2, <3>1, <3>2, UnwindingFits
      <3>. QED  BY <1>1, <2>5, <3>3, FittingLemma
    <2>6. CASE Top.kind # "create" /\ am' = b /\ raised' = "internal"
      <3>1. SameEntries(am, b)
        <4>. DEFINE x == rollback_accounts(am, Top.snap)
                    y == rollback(am, Top.snap)
        <4>1. IsManager(am) /\ SameEntries(am, y)
          BY <1>3, <1>6, <2>2, <2>3, RolledEffect
        <4>2. IsManager(x) /\ x.account = y.account
          BY <4>1, AccountsRolled
        <4>. HIDE DEF x, y
        <4>3. SameEntries(am, x)
          BY <4>1, <4>2 DEF SameEntries, AccountsOK
        <4>4. AccountsOK(x) /\ (Top.kind = "check_auth" => Top.tracker \in DOMAIN x.account)
          BY <2>3, <4>3 DEF SameEntries, FrameFits
        <4>5. SameEntries(x, Unborrow(x, Top))
          BY <4>2, <4>4, UnborrowEffect
        <4>. QED  BY <4>3, <4>5 DEF SameEntries, SameEntry, b, x
      <3>2. Fitting(b, Front(frames), nonces', "internal", ledger)
        BY <1>6, <2>1, <2>2, <3>1, UnwindingFits
      <3>. QED  BY <1>1, <2>6, <3>2, FittingLemma
    <2>7. CASE /\ Top.kind # "create" /\ am' = q /\ nonces' = Top.nonces
               /\ raised' = raised \/ (raised' = "none" /\ raised = "recoverable" /\ Top.kind = "try")
      <3>1. /\ SameEntries(am, q)
            /\ am.call_stack # <<>> /\ (\A k \in DOMAIN am.account : Top.snap.account[k].taken <=> ~am.account[k].borrowed) =>
                 /\ Unwound(am, q, Top)
                 /\ \A k \in DOMAIN am.account :
                       /\ ~am.account[k].borrowed =>
                             /\ NodesOf(q, k) = Top.snap.account[k].exhausted
                             /\ q.account[k].verified = Top.snap.account[k].verified
                       /\ am.account[k].borrowed => q.account[k].verified = am.account[k].verified
        BY <1>3, <1>6, <2>2, <2>3, UnwindEffect DEF q
      <3>2. ASSUME raised # "internal"
            PROVE  /\ Unwound(am, q, Top)
                   /\ \A k \in DOMAIN am.account : ~am.account[k].borrowed => NodesOf(q, k) = PathsUpTo(frames, k, d)
                   /\ Consumed(q, Top.nonces, ledger, VerifiedEntries(q))
                   /\ \A k \in VerifiedEntries(q) : EntrySigned(q.account[k])
        <4>1. /\ SnapshotOK(am, frames, Len(frames), ledger, seq) /\ AccountsOK(am)
              /\ \A k \in DOMAIN am.account :
                   am.account[k].borrowed => ~am.account[k].verified /\ \E j \in DOMAIN frames : Checks(frames[j], k)
              /\ \A j \in DOMAIN frames : frames[j].kind = "check_auth" =>
                    frames[j].tracker \in DOMAIN am.account /\ am.account[frames[j].tracker].borrowed
          BY <1>2, <2>2, <3>2 DEF TrackersOK
        <4>2. \A k \in DOMAIN am.account : am.account[k].borrowed \in BOOLEAN
          BY <4>1 DEF AccountsOK, IsEntry
        <4>3. \A j \in DOMAIN frames : j <= Len(frames)
          BY <1>2, SequenceLemma
        <4>4. ASSUME NEW k \in DOMAIN am.account
              PROVE  Top.snap.account[k].taken <=> ~am.account[k].borrowed
          <5>1. ~Top.snap.account[k].taken <=> \E j \in DOMAIN frames : Checks(frames[j], k)
            BY <1>2, <4>1, <4>3, <4>4, Zenon DEF SnapshotOK
          <5>2. (\E j \in DOMAIN frames : Checks(frames[j], k)) <=> am.account[k].borrowed
            BY <4>1, <4>4 DEF Checks
          <5>. QED  BY <5>1, <5>2, Zenon
        <4>5. /\ Unwound(am, q, Top)
              /\ \A k \in DOMAIN am.account :
                    /\ ~am.account[k].borrowed =>
                          /\ NodesOf(q, k) = Top.snap.account[k].exhausted
                          /\ q.account[k].verified = Top.snap.account[k].verified
                    /\ am.account[k].borrowed => q.account[k].verified = am.account[k].verified
          BY <2>4, <3>1, <3>2, <4>4
        <4>6. DOMAIN q.account = DOMAIN am.account
          BY <3>1 DEF SameEntries
        <4>7. VerifiedEntries(q) = RestoredEntries(am, Top)
          BY <4>1, <4>4, <4>5, <4>6, Zenon DEF VerifiedEntries, RestoredEntries
        <4>8. RestoreFits(am, frames, Len(frames), ledger)
          BY <1>2, <2>2, <3>2 DEF TrackersFit
        <4>9. /\ Consumed(am, Top.nonces, ledger, RestoredEntries(am, Top))
              /\ \A k \in RestoredEntries(am, Top) : EntrySigned(am.account[k])
              /\ \A k \in DOMAIN am.account :
                    Top.snap.account[k].taken => Top.snap.account[k].exhausted = PathsUpTo(frames, k, d)
          BY <1>2, <4>8, Zenon DEF RestoreFits
        <4>10. RestoredEntries(am, Top) \subseteq DOMAIN am.account
          BY DEF RestoredEntries
        <4>11. Consumed(q, Top.nonces, ledger, VerifiedEntries(q))
          BY <3>1, <4>7, <4>9, <4>10, ConsumedKept
        <4>12. ASSUME NEW k \in VerifiedEntries(q) PROVE EntrySigned(q.account[k])
          <5>1. k \in DOMAIN am.account /\ EntrySigned(am.account[k]) /\ SameEntry(am.account[k], q.account[k])
            BY <3>1, <4>7, <4>9, <4>10, <4>12 DEF SameEntries
          <5>. QED  BY <5>1, SignedKept
        <4>. HIDE DEF d
        <4>. QED  BY <4>4, <4>5, <4>9, <4>11, <4>12
      <3>. DEFINE e2 == raised'
      <3>3. /\ raised = "internal" => e2 = "internal"
            /\ raised # "none" /\ (e2 = "none" => Top.kind # "check_auth")
        BY <1>1, <2>7
      <3>4. am' = q /\ nonces' = Top.nonces
        BY <2>7
      <3>. HIDE DEF e2, d
      <3>5. Fitting(q, Front(frames), Top.nonces, e2, ledger)
        BY <1>6, <2>1, <2>2, <3>1, <3>2, <3>3, UnwindingFits DEF d
      <3>. QED  BY <1>1, <3>4, <3>5, FittingLemma DEF e2
    <2>. QED  BY <1>1, <1>6, <2>5, <2>6, <2>7
  <1>. QED  BY <1>2, <1>4, <1>5, <1>6

LEMMA GreatestLemma ==
    ASSUME NEW n \in Nat, NEW S \in SUBSET (1..n), S # {}
    PROVE  \E x \in S : \A y \in S : y <= x
  <1>. DEFINE T == {k \in Nat : \E x \in S : k = n - x}
              k == Lowest(T)
  <1>1. T \in SUBSET Nat
    OBVIOUS
  <1>2. \A x \in S : n - x \in T /\ x \in Nat
    OBVIOUS
  <1>3. T # {}
    BY <1>2
  <1>4. k \in T /\ \A y \in T : k <= y
    BY <1>1, <1>3, LowestLemma
  <1>. HIDE DEF k
  <1>5. PICK x \in S : k = n - x
    BY <1>4
  <1>6. ASSUME NEW y \in S PROVE y <= x
    <2>1. n - y \in T /\ y \in Nat /\ x \in Nat
      BY <1>2
    <2>. HIDE DEF T
    <2>2. n - x <= n - y
      BY <1>4, <1>5, <2>1
    <2>. QED  BY <2>1, <2>2
  <1>. QED  BY <1>6

(***************************************************************************)
(* What matching a call against an entry's tree does.                      *)
(***************************************************************************)

\* A frame matched one node at most.
OneNode(matches) ==
    \A p \in DOMAIN matches : matches[p] # Unmatched => \E path \in matches[p] : matches[p] = {path}

\* The node that the calls in progress have reached is that of the highest matched frame.
LEMMA ReachedLemma ==
    ASSUME NEW v, IsSequence(v.match_stack), OneNode(v.match_stack),
           NEW p \in DOMAIN v.match_stack, v.match_stack[p] # Unmatched
    PROVE  \E q \in DOMAIN v.match_stack :
               /\ v.match_stack[q] = {last_authorized_invocation(v)}
               /\ \A j \in DOMAIN v.match_stack : v.match_stack[j] # Unmatched => j <= q
  <1>. DEFINE ms == v.match_stack
              matched == {i \in DOMAIN ms : ms[i] # Unmatched}
              IsLast(i) == i \in matched /\ \A j \in matched : j <= i
              last == CHOOSE i \in matched : \A j \in matched : j <= i
  <1>1. matched # {} /\ matched \in SUBSET (1..Len(ms)) /\ Len(ms) \in Nat
    BY SequenceLemma
  <1>2. \E i \in matched : \A j \in matched : j <= i
    <2>. HIDE DEF matched
    <2>. QED  BY <1>1, GreatestLemma
  <1>3. last \in matched /\ \A j \in matched : j <= last
    BY <1>2, Zenon
  <1>4. last_authorized_invocation(v) = CHOOSE path \in ms[last] : TRUE
    BY <1>1, Zenon DEF last_authorized_invocation
  <1>. HIDE DEF last
  <1>5. last \in DOMAIN ms /\ ms[last] # Unmatched
    BY <1>3
  <1>6. PICK path \in ms[last] : ms[last] = {path}
    BY <1>5 DEF OneNode
  <1>7. last_authorized_invocation(v) = path
    BY <1>4, <1>6
  <1>. QED  BY <1>3, <1>5, <1>6, <1>7

LEMMA LastReached ==
    ASSUME NEW v, IsSequence(v.match_stack), OneNode(v.match_stack),
           NEW path, Len(v.match_stack) > 0, v.match_stack[Len(v.match_stack)] = {path}
    PROVE  last_authorized_invocation(v) = path
  <1>. DEFINE d == Len(v.match_stack)
  <1>1. d \in Nat /\ DOMAIN v.match_stack = 1..d
    BY SequenceLemma
  <1>2. d \in DOMAIN v.match_stack /\ v.match_stack[d] # Unmatched
    BY <1>1 DEF Unmatched
  <1>3. PICK q \in DOMAIN v.match_stack :
               /\ v.match_stack[q] = {last_authorized_invocation(v)}
               /\ \A j \in DOMAIN v.match_stack : v.match_stack[j] # Unmatched => j <= q
    BY <1>2, ReachedLemma
  <1>4. q = d
    BY <1>1, <1>2, <1>3
  <1>. QED  BY <1>3, <1>4

\* Node `path' is the root, or a child of the node that a frame below the top matched.
Reachable(matches, path) ==
    \/ path = <<>>
    \/ \E q \in DOMAIN matches : \E prev, idx :
          q < Len(matches) /\ matches[q] = {prev} /\ path = Append(prev, idx)

\* The top frame, which had not matched, matched node `path'.
Matched(v, r, fn, path) ==
    /\ v.match_stack[Len(v.match_stack)] = Unmatched
    /\ v.tree[path] = fn
    /\ r.match_stack = [v.match_stack EXCEPT ![Len(v.match_stack)] = {path}]
    /\ r.exhausted = v.exhausted \cup {path}
    /\ Reachable(v.match_stack, path)

LEMMA MatchFrameEffect ==
    ASSUME NEW v, IsInvocation(v), NEW path, NEW f
    PROVE  /\ MatchFrame(v, path).match_stack = [v.match_stack EXCEPT ![Len(v.match_stack)] = {path}]
           /\ MatchFrame(v, path).exhausted = v.exhausted \cup {path}
           /\ RootMatched(v, path, f).match_stack = [v.match_stack EXCEPT ![Len(v.match_stack)] = {path}]
           /\ RootMatched(v, path, f).exhausted = v.exhausted \cup {path}
  <1>. DEFINE x == v.exhausted \cup {path}
              y == [v.match_stack EXCEPT ![Len(v.match_stack)] = {path}]
              r == MatchFrame(v, path)
  <1>1. r = [v EXCEPT !.exhausted = x, !.match_stack = y]
    BY DEF MatchFrame
  <1>. HIDE DEF x, y, r
  <1>2. r = [address |-> v.address, tree |-> v.tree, exhausted |-> x, match_stack |-> y,
             root_frame |-> v.root_frame, processed |-> v.processed]
    BY <1>1 DEF IsInvocation
  <1>3. [r EXCEPT !.root_frame = f] =
            [address |-> v.address, tree |-> v.tree, exhausted |-> x, match_stack |-> y,
             root_frame |-> f, processed |-> v.processed]
    BY <1>2
  <1>4. /\ r.match_stack = y /\ r.exhausted = x
        /\ [r EXCEPT !.root_frame = f].match_stack = y /\ [r EXCEPT !.root_frame = f].exhausted = x
    BY <1>2, <1>3
  <1>. QED  BY <1>4, Zenon DEF RootMatched, r, x, y

LEMMA ExtendEffect ==
    ASSUME NEW v, IsInvocation(v), IsSequence(v.match_stack), OneNode(v.match_stack),
           Len(v.match_stack) > 0, NEW fn, NEW allow,
           NEW r, r = maybe_extend_invocation_match(v, fn, allow), r # v
    PROVE  \E path : Matched(v, r, fn, path)
  <1>. DEFINE ms == v.match_stack
              d == Len(ms)
              path == last_authorized_invocation(v)
              free == FreeChildren(v, path, fn)
  <1>1. d \in Nat /\ d > 0 /\ DOMAIN ms = 1..d /\ d \in DOMAIN ms /\ ms # <<>>
    BY SequenceLemma
  <1>2. ~current_frame_is_already_matched(v)
    BY Zenon DEF maybe_extend_invocation_match
  <1>3. Last(ms) = ms[d]
    BY DEF Last
  <1>4. ms[d] = Unmatched
    BY <1>1, <1>2, <1>3, Zenon DEF current_frame_is_already_matched
  <1>5. CASE HasRootMatch(v)
    <2>1. free # {} /\ r = MatchFrame(v, Append(path, Lowest(free)))
      BY <1>2, <1>5, Zenon DEF maybe_extend_invocation_match
    <2>2. PICK p \in DOMAIN ms : ms[p] # Unmatched
      BY <1>5 DEF HasRootMatch, RootMatch, Unmatched
    <2>3. PICK q \in DOMAIN ms :
                 /\ ms[q] = {path}
                 /\ \A j \in DOMAIN ms : ms[j] # Unmatched => j <= q
      BY <2>2, ReachedLemma
    <2>4. q < d
      <3>1. q # d
        BY <1>4, <2>3 DEF Unmatched
      <3>2. q \in 1..d
        BY <1>1
      <3>. HIDE DEF d
      <3>. QED  BY <1>1, <3>1, <3>2
    <2>. DEFINE idx == Lowest(free)
                child == Append(path, idx)
    <2>5. idx \in free
      <3>1. free \in SUBSET Nat
        BY DEF FreeChildren
      <3>. HIDE DEF free
      <3>. QED  BY <2>1, <3>1, LowestLemma
    <2>6. v.tree[child] = fn
      <3>. HIDE DEF idx
      <3>. QED  BY <2>5, Zenon DEF FreeChildren
    <2>. HIDE DEF idx, path, free
    <2>7. Reachable(ms, child)
      BY <2>3, <2>4 DEF Reachable
    <2>8. /\ r.match_stack = [ms EXCEPT ![d] = {child}]
          /\ r.exhausted = v.exhausted \cup {child}
      <3>1. r = MatchFrame(v, child)
        BY <2>1 DEF idx
      <3>. HIDE DEF child
      <3>. QED  BY <3>1, MatchFrameEffect
    <2>. QED  BY <1>4, <2>6, <2>7, <2>8, Zenon DEF Matched
  <1>6. CASE ~HasRootMatch(v)
    <2>. DEFINE root == <<>>
    <2>1. v.tree[root] = fn /\ r = RootMatched(v, root, d)
      BY <1>2, <1>6, Zenon DEF maybe_extend_invocation_match, RootMatched
    <2>2. Reachable(ms, root)
      BY DEF Reachable
    <2>. HIDE DEF root
    <2>3. /\ r.match_stack = [ms EXCEPT ![d] = {root}]
          /\ r.exhausted = v.exhausted \cup {root}
      <3>1. /\ RootMatched(v, root, d).match_stack = [ms EXCEPT ![d] = {root}]
            /\ RootMatched(v, root, d).exhausted = v.exhausted \cup {root}
        BY MatchFrameEffect, Zenon
      <3>. QED  BY <2>1, <3>1, Zenon
    <2>. QED  BY <1>4, <2>1, <2>2, <2>3, Zenon DEF Matched
  <1>. QED  BY <1>5, <1>6

LEMMA FrontAppend ==
    ASSUME NEW s, IsSequence(s), NEW x
    PROVE  Front(Append(s, x)) = s
  <1>. DEFINE a == Append(s, x)
              f == Front(a)
  <1>1. /\ IsSequence(a) /\ a # <<>> /\ Len(a) = Len(s) + 1
        /\ \A i \in 1..Len(s) : a[i] = s[i]
    BY AppendLemma
  <1>2. Len(s) \in Nat /\ DOMAIN s = 1..Len(s) /\ s = [i \in 1..Len(s) |-> s[i]]
    BY SequenceLemma
  <1>. HIDE DEF a
  <1>3. IsSequence(f) /\ Len(f) = Len(a) - 1 /\ \A i \in 1..Len(a) - 1 : f[i] = a[i]
    BY <1>1, FrontLemma
  <1>4. f = [i \in 1..Len(f) |-> f[i]]
    BY <1>3, SequenceLemma
  <1>. HIDE DEF f
  <1>5. Len(f) = Len(s) /\ \A i \in 1..Len(s) : f[i] = s[i]
    BY <1>1, <1>2, <1>3
  <1>6. f = s
    BY <1>2, <1>4, <1>5
  <1>. QED  BY <1>6 DEF f, a

LEMMA GrownSame ==
    ASSUME NEW stack, IsSequence(stack), stack # <<>>, \A i \in DOMAIN stack : IsFrame(stack[i])
    PROVE  Grown(stack, stack, Len(stack), {})
  <1>1. Len(stack) \in Nat \ {0} /\ DOMAIN stack = 1..Len(stack)
    BY SequenceLemma
  <1>2. \A i \in 1..Len(stack) : SameFrame(stack[i], stack[i])
    BY <1>1 DEF SameFrame
  <1>3. stack[Len(stack)].grants = stack[Len(stack)].grants \cup {}
    OBVIOUS
  <1>. QED  BY <1>1, <1>2, <1>3 DEF Grown

\* In manager b, entry i is taken to be authenticated, after it matched a call of fn.
Taken(m, b, i, fn, path) ==
    /\ IsManager(b) /\ SameEntries(m, b) /\ b.call_stack = m.call_stack
    /\ b.account[i].borrowed
    /\ \A k \in DOMAIN m.account :
          /\ b.account[k].verified = m.account[k].verified
          /\ k # i => b.account[k] = m.account[k]
    /\ Matched(m.account[i].invocation, b.account[i].invocation, fn, path)

\* An entry that matches is in a frame above the host function's.
CanMatch(m, stack, i) ==
    /\ IsManager(m) /\ AccountsOK(m) /\ i \in DOMAIN m.account /\ ~m.account[i].borrowed
    /\ IsSequence(stack) /\ Len(stack) > 1
    /\ TrackerFits(m, stack, "none", i)

LEMMA MatchableLemma ==
    ASSUME NEW m, NEW stack, NEW i, CanMatch(m, stack, i)
    PROVE  /\ IsInvocation(m.account[i].invocation) /\ IsEntry(m.account[i])
           /\ IsSequence(MatchesOf(m, i)) /\ OneNode(MatchesOf(m, i))
           /\ Len(MatchesOf(m, i)) \in Nat /\ Len(MatchesOf(m, i)) > 0
           /\ DOMAIN MatchesOf(m, i) = 1..Len(MatchesOf(m, i))
           /\ Len(MatchesOf(m, i)) + 1 = Len(stack)
  <1>1. IsInvocation(m.account[i].invocation) /\ IsEntry(m.account[i])
    BY DEF CanMatch, AccountsOK, IsEntry
  <1>2. /\ MatchesFit(m, stack, i) /\ Len(MatchesOf(m, i)) + 1 = Len(stack) /\ Len(stack) > 1
    BY DEF CanMatch, TrackerFits
  <1>3. /\ IsSequence(MatchesOf(m, i))
        /\ \A p \in 1..Len(MatchesOf(m, i)) : MatchFits(m, stack, i, p)
    BY <1>2 DEF MatchesFit
  <1>4. Len(MatchesOf(m, i)) \in Nat /\ DOMAIN MatchesOf(m, i) = 1..Len(MatchesOf(m, i))
    BY <1>3, SequenceLemma
  <1>5. OneNode(MatchesOf(m, i))
    BY <1>3, <1>4 DEF OneNode, MatchFits
  <1>. QED  BY <1>1, <1>2, <1>3, <1>4, <1>5

ReplacedAt(s, d, x) == [s EXCEPT ![d] = x]

LEMMA ReplacedSequence ==
    ASSUME NEW s, IsSequence(s), NEW d, NEW x, NEW r, r = ReplacedAt(s, d, x)
    PROVE  IsSequence(r) /\ Len(r) = Len(s) /\ DOMAIN r = DOMAIN s
  <1>1. Len(s) \in Nat /\ DOMAIN s = 1..Len(s)
    BY SequenceLemma
  <1>2. DOMAIN r = DOMAIN s /\ r = [i \in 1..Len(s) |-> r[i]]
    BY <1>1 DEF ReplacedAt
  <1>. QED  BY <1>1, <1>2, AnySequence

\* What is used of the entry is the node that the call matched.
LEMMA TakenLemma ==
    ASSUME NEW m, NEW stack, NEW i, CanMatch(m, stack, i), NEW a, NEW fn, NEW q, UsesEntry(m, i, a, fn, q),
           NEW b, b = Borrow(q, i)
    PROVE  /\ IsManager(q) /\ SameEntries(m, q) /\ q.call_stack = m.call_stack
           /\ \A k \in DOMAIN m.account : k # i => q.account[k] = m.account[k]
           /\ q.account[i].verified = m.account[i].verified
           /\ q.account[i].borrowed = m.account[i].borrowed
           /\ q.account[i].invocation = b.account[i].invocation
           /\ Taken(m, b, i, fn, last_authorized_invocation(q.account[i].invocation))
  <1>. DEFINE u == m.account[i].invocation
  <1>1. PICK v, allow :
          /\ v = maybe_extend_invocation_match(u, fn, allow) /\ v # u
          /\ q = WithEntry(m, i, [m.account[i] EXCEPT !.invocation = v])
    BY DEF UsesEntry
  <1>2. /\ IsInvocation(u) /\ IsEntry(m.account[i]) /\ IsSequence(u.match_stack) /\ OneNode(u.match_stack)
        /\ Len(u.match_stack) > 0 /\ Len(u.match_stack) \in Nat /\ DOMAIN u.match_stack = 1..Len(u.match_stack)
    BY MatchableLemma DEF MatchesOf
  <1>3. IsManager(m) /\ AccountsOK(m) /\ i \in DOMAIN m.account /\ ~m.account[i].borrowed
    BY DEF CanMatch
  <1>4. Moved(u, v)
    BY <1>1, <1>2, ExtendLemma
  <1>. DEFINE y == [m.account[i] EXCEPT !.invocation = v]
  <1>5. y.verified = m.account[i].verified /\ y.borrowed = m.account[i].borrowed /\ y.invocation = v
    BY <1>2, <1>4, EntryMoved, FreeEffect
  <1>. HIDE DEF y
  <1>6. /\ IsManager(q) /\ q.call_stack = m.call_stack /\ q.account[i] = y
        /\ \A k \in DOMAIN m.account : k # i => q.account[k] = m.account[k]
    BY <1>1, <1>3, AccountExcept DEF y
  <1>7. SameEntries(m, q)
    <2>1. SameManager(m, q)
      BY <1>1, <1>3, <1>4, AccountMoved
    <2>. QED  BY <1>3, <2>1 DEF SameManager
  <1>8. PICK path : Matched(u, v, fn, path)
    <2>. HIDE DEF u
    <2>. QED  BY <1>1, <1>2, ExtendEffect
  <1>9. last_authorized_invocation(v) = path
    <2>. DEFINE d == Len(u.match_stack)
                x == {path}
    <2>1. v.match_stack = [u.match_stack EXCEPT ![d] = x]
      BY <1>8 DEF Matched
    <2>. HIDE DEF x, u
    <2>2. IsSequence(v.match_stack) /\ Len(v.match_stack) = d /\ DOMAIN v.match_stack = 1..d
      <3>. DEFINE s == u.match_stack
                  w == v.match_stack
      <3>1. IsSequence(s) /\ w = ReplacedAt(s, d, x) /\ Len(s) = d /\ DOMAIN s = 1..d
        BY <1>2, <2>1 DEF ReplacedAt
      <3>. HIDE DEF s, w, d
      <3>2. IsSequence(w) /\ Len(w) = Len(s) /\ DOMAIN w = DOMAIN s
        BY <3>1, ReplacedSequence
      <3>. QED  BY <3>1, <3>2 DEF w
    <2>. HIDE DEF d
    <2>3. d \in 1..d /\ DOMAIN u.match_stack = 1..d
      BY <1>2 DEF d
    <2>4. v.match_stack[d] = x /\ \A p \in 1..d : p # d => v.match_stack[p] = u.match_stack[p]
      BY <2>1, <2>3
    <2>5. OneNode(v.match_stack)
      <3>1. ASSUME NEW p \in 1..d, v.match_stack[p] # Unmatched
            PROVE  \E w \in v.match_stack[p] : v.match_stack[p] = {w}
        <4>1. CASE p = d
          BY <2>4, <4>1 DEF x
        <4>2. CASE p # d
          BY <1>2, <2>3, <2>4, <3>1, <4>2 DEF OneNode
        <4>. QED  BY <4>1, <4>2
      <3>. QED  BY <2>2, <3>1 DEF OneNode
    <2>6. d > 0
      BY <1>2 DEF d
    <2>. QED  BY <2>2, <2>4, <2>5, <2>6, LastReached DEF x
  <1>. HIDE DEF u
  <1>10. i \in DOMAIN q.account /\ AccountsOK(q)
    BY <1>3, <1>7 DEF SameEntries
  <1>11. /\ IsManager(b) /\ SameEntries(q, b) /\ b.call_stack = q.call_stack
         /\ b.account[i].invocation = q.account[i].invocation
         /\ b.account[i].verified = q.account[i].verified /\ b.account[i].borrowed
         /\ \A k \in DOMAIN q.account : k # i => b.account[k] = q.account[k]
    BY <1>6, <1>10, BorrowTrue
  <1>12. SameEntries(m, b)
    BY <1>7, <1>11 DEF SameEntries, SameEntry
  <1>13. DOMAIN q.account = DOMAIN m.account
    BY <1>7 DEF SameEntries
  <1>14. /\ \A k \in DOMAIN m.account :
              /\ b.account[k].verified = m.account[k].verified
              /\ k # i => b.account[k] = m.account[k]
    BY <1>5, <1>6, <1>11, <1>13
  <1>15. q.account[i].invocation = v /\ b.account[i].invocation = v
    BY <1>5, <1>6, <1>11
  <1>16. Taken(m, b, i, fn, path)
    BY <1>6, <1>8, <1>11, <1>12, <1>14, <1>15 DEF Taken, u
  <1>. QED  BY <1>5, <1>6, <1>7, <1>9, <1>15, <1>16

\* The matches of an entry that is taken.
TakenAs(m, stack, b, i, path, d) ==
    /\ d \in Nat /\ d > 0 /\ Len(stack) = d + 1
    /\ IsSequence(MatchesOf(b, i)) /\ Len(MatchesOf(b, i)) = d
    /\ MatchesOf(b, i)[d] = {path}
    /\ \A p \in 1..d - 1 : MatchesOf(b, i)[p] = MatchesOf(m, i)[p]
    /\ NodesOf(b, i) = NodesOf(m, i) \cup {path}
    /\ path # <<>> =>
          \E q \in 1..d - 1 : \E prev, idx : MatchesOf(m, i)[q] = {prev} /\ path = Append(prev, idx)

LEMMA TakenMatches ==
    ASSUME NEW m, NEW stack, NEW i, CanMatch(m, stack, i), NEW b, NEW fn, NEW path, Taken(m, b, i, fn, path),
           NEW d, d = Len(MatchesOf(m, i))
    PROVE  TakenAs(m, stack, b, i, path, d)
  <1>. DEFINE s == MatchesOf(m, i)
              w == MatchesOf(b, i)
              x == {path}
  <1>1. /\ w = ReplacedAt(s, d, x) /\ NodesOf(b, i) = NodesOf(m, i) \cup x
        /\ Reachable(s, path)
    BY Zenon DEF Taken, Matched, MatchesOf, NodesOf, ReplacedAt
  <1>2. IsSequence(s) /\ d \in Nat /\ d > 0 /\ DOMAIN s = 1..d /\ Len(stack) = d + 1
    BY MatchableLemma
  <1>3. path # <<>> => \E q \in 1..d - 1 : \E prev, idx : s[q] = {prev} /\ path = Append(prev, idx)
    <2>1. ASSUME NEW q \in 1..d, q < d PROVE q \in 1..d - 1
      BY <1>2, <2>1
    <2>2. Len(s) = d
      OBVIOUS
    <2>. HIDE DEF s
    <2>. QED  BY <1>1, <1>2, <2>1, <2>2, Zenon DEF Reachable
  <1>. HIDE DEF s, w, x
  <1>4. IsSequence(w) /\ Len(w) = Len(s) /\ DOMAIN w = DOMAIN s
    BY <1>1, <1>2, ReplacedSequence
  <1>5. w[d] = x /\ \A p \in 1..d - 1 : w[p] = s[p]
    BY <1>1, <1>2 DEF ReplacedAt
  <1>6. Len(s) = d
    BY DEF s
  <1>. QED  BY <1>1, <1>2, <1>3, <1>4, <1>5, <1>6 DEF TakenAs, s, w, x

\* What entry i matched in the top frame is pending.
TakenFit(b, stack, n, l, i, path) ==
    /\ GrantsFit(b, stack) /\ TrackersFit(b, stack, n, "none", l) /\ BorrowedFit(b, stack)
    /\ Pending(b, stack, i) /\ MatchesOf(b, i)[Len(MatchesOf(b, i))] = {path}

\* The frame that requires the authorization runs fn.
LEMMA TakenFits ==
    ASSUME NEW m, NEW stack, NEW n, NEW l, GrantsFit(m, stack), TrackersFit(m, stack, n, "none", l),
           BorrowedFit(m, stack), \A j \in DOMAIN stack : IsFrame(stack[j]),
           NEW i, CanMatch(m, stack, i), NEW b, NEW path, Taken(m, b, i, Last(m.call_stack), path)
    PROVE  TakenFit(b, stack, n, l, i, path)
  <1>. DEFINE d == Len(MatchesOf(m, i))
              fn == Last(m.call_stack)
              none == {}
  <1>1. /\ d \in Nat /\ d > 0 /\ Len(stack) = d + 1
        /\ IsSequence(MatchesOf(b, i)) /\ Len(MatchesOf(b, i)) = d
        /\ MatchesOf(b, i)[d] = {path}
        /\ \A p \in 1..d - 1 : MatchesOf(b, i)[p] = MatchesOf(m, i)[p]
        /\ NodesOf(b, i) = NodesOf(m, i) \cup {path}
        /\ path # <<>> =>
              \E q \in 1..d - 1 : \E prev, idx : MatchesOf(m, i)[q] = {prev} /\ path = Append(prev, idx)
    <2>1. Taken(m, b, i, fn, path) /\ d = Len(MatchesOf(m, i))
      OBVIOUS
    <2>. HIDE DEF fn, d
    <2>2. TakenAs(m, stack, b, i, path, d)
      BY <2>1, TakenMatches
    <2>. QED  BY <2>2, Zenon DEF TakenAs
  <1>2. /\ IsSequence(stack) /\ AccountsOK(m) /\ i \in DOMAIN m.account /\ ~m.account[i].borrowed
    BY DEF CanMatch
  <1>3. /\ SameEntries(m, b) /\ b.call_stack = m.call_stack /\ b.account[i].borrowed
        /\ \A k \in DOMAIN m.account :
              /\ b.account[k].verified = m.account[k].verified
              /\ k # i => b.account[k] = m.account[k]
        /\ DOMAIN b.account = DOMAIN m.account
    BY DEF Taken, SameEntries
  <1>4. /\ CallsFit(m, stack)
        /\ \A k \in DOMAIN m.account : TrackerFits(m, stack, "none", k)
        /\ \A c \in DOMAIN stack : stack[c].kind = "check_auth" =>
              /\ CheckFits(m, stack, c, stack[c].tracker)
              /\ m.account[stack[c].tracker].invocation.address \notin ClassicAccounts
        /\ \A j \in DOMAIN stack : RestoreFits(m, stack, j, l)
        /\ Consumed(m, n, l, VerifiedEntries(m))
        /\ \A k \in VerifiedEntries(m) : EntrySigned(m.account[k])
    BY DEF TrackersFit
  <1>5. /\ MatchesFit(m, stack, i) /\ Held(m, stack, i)
        /\ NodesOf(m, i) = PathsUpTo(stack, i, Len(stack))
    BY <1>2, <1>4, Zenon DEF TrackerFits, Settled
  <1>6. DOMAIN stack = 1..d + 1 /\ stack # <<>>
    BY <1>1, <1>2, SequenceLemma
  <1>7. Grown(stack, stack, Len(stack), none)
    BY <1>2, <1>6, GrownSame
  <1>8. fn = stack[d + 1].fn
    <2>1. /\ IsSequence(m.call_stack) /\ Len(stack) = Len(m.call_stack) + 1
          /\ \A j \in DOMAIN m.call_stack : m.call_stack[j] = stack[j + 1].fn
      BY <1>4 DEF CallsFit
    <2>2. Len(m.call_stack) \in Nat /\ DOMAIN m.call_stack = 1..Len(m.call_stack)
      BY <2>1, SequenceLemma
    <2>3. Len(m.call_stack) = d
      <3>. HIDE DEF d
      <3>. QED  BY <1>1, <2>1, <2>2
    <2>4. fn = m.call_stack[d]
      BY <2>3 DEF Last
    <2>5. d \in DOMAIN m.call_stack
      <3>. HIDE DEF d
      <3>. QED  BY <1>1, <2>2, <2>3
    <2>. HIDE DEF d, fn
    <2>. QED  BY <2>1, <2>4, <2>5
  <1>. HIDE DEF d, fn, none
  <1>9. GrantsFit(b, stack)
    <2>1. \A g \in none : GrantFits(m, stack, Len(stack), g)
      BY DEF none
    <2>2. \A j \in DOMAIN stack : j \in 1..Len(stack)
      BY <1>2, SequenceLemma
    <2>. QED  BY <1>3, <1>7, <2>1, <2>2, GrantsKept
  <1>10. ASSUME NEW k \in DOMAIN m.account, k # i
         PROVE  /\ TrackerFits(b, stack, "none", k)
                /\ \A c : CheckFits(m, stack, c, k) => CheckFits(b, stack, c, k)
    <2>1. b.account[k] = m.account[k]
      BY <1>3, <1>10
    <2>2. TrackerFits(m, stack, "none", k)
      BY <1>4
    <2>3. /\ MatchesOf(b, k) = MatchesOf(m, k) /\ NodesOf(b, k) = NodesOf(m, k)
          /\ \A p, j : InContext(m, stack, k, p, j) => InContext(b, stack, k, p, j)
      BY <2>1 DEF MatchesOf, NodesOf, InContext
    <2>4. MatchesFit(m, stack, k) => MatchesFit(b, stack, k)
      BY <2>3, SMT DEF MatchesFit, MatchFits, MatchHeld
    <2>5. Settled(m, stack, k) => Settled(b, stack, k)
      BY <2>3, Zenon DEF Settled, Held, MatchHeld
    <2>6. TrackerFits(b, stack, "none", k)
      BY <2>1, <2>2, <2>3, <2>4, <2>5, Zenon DEF TrackerFits
    <2>. QED  BY <2>3, <2>6 DEF CheckFits
  <1>11. InContext(b, stack, i, path, d + 1) /\ IsSequence(path)
    <2>1. b.account[i].invocation.tree = m.account[i].invocation.tree
      BY <1>2, <1>3 DEF SameEntries, SameEntry
    <2>2. m.account[i].invocation.tree[path] = fn
      BY Zenon DEF Taken, Matched, fn
    <2>3. CASE path = <<>>
      <3>1. IsSequence(path)
        BY <2>3 DEF IsSequence
      <3>. QED  BY <1>8, <2>1, <2>2, <2>3, <3>1 DEF InContext
    <2>4. CASE path # <<>>
      <3>1. PICK q \in 1..d - 1 : \E prev, idx : MatchesOf(m, i)[q] = {prev} /\ path = Append(prev, idx)
        BY <1>1, <2>4
      <3>2. PICK prev, idx : MatchesOf(m, i)[q] = {prev} /\ path = Append(prev, idx)
        BY <3>1
      <3>3. q \in 1..d /\ q + 1 \in 1..(d + 1) - 1
        BY <1>1
      <3>4. MatchFits(m, stack, i, q) /\ MatchHeld(m, stack, i, q)
        BY <1>5, <3>3, Zenon DEF MatchesFit, Held, d
      <3>5. IsSequence(prev)
        BY <3>2, <3>4 DEF MatchFits, Unmatched
      <3>6. IsSequence(path) /\ Front(path) = prev
        BY <3>2, <3>5, AppendLemma, FrontAppend
      <3>7. \E g \in stack[q + 1].grants : g.depth = q + 1 /\ g.tracker = i /\ g.path = prev
        BY <3>2, <3>4 DEF MatchHeld
      <3>. QED  BY <1>8, <2>1, <2>2, <3>3, <3>6, <3>7 DEF InContext
    <2>. QED  BY <2>3, <2>4
  <1>12. TrackerFits(b, stack, "none", i)
    <2>1. ASSUME NEW p \in 1..d
          PROVE  MatchFits(b, stack, i, p) /\ (p < d => MatchHeld(b, stack, i, p))
      <3>1. CASE p = d
        <4>1. MatchFits(b, stack, i, d)
          BY <1>1, <1>11 DEF MatchFits
        <4>. QED  BY <1>1, <3>1, <4>1
      <3>2. CASE p # d
        <4>1. p \in 1..d - 1 /\ p \in Nat /\ p + 1 <= Len(stack)
          BY <1>1, <3>2
        <4>2. MatchFits(m, stack, i, p) /\ MatchHeld(m, stack, i, p)
          BY <1>5, Zenon DEF MatchesFit, Held, d
        <4>3. MatchesOf(b, i)[p] = MatchesOf(m, i)[p]
          BY <1>1, <4>1
        <4>. QED  BY <1>2, <1>3, <1>7, <4>1, <4>2, <4>3, MatchGrown
      <3>. QED  BY <3>1, <3>2
    <2>2. MatchesFit(b, stack, i)
      BY <1>1, <2>1 DEF MatchesFit
    <2>. QED  BY <1>3, <2>2 DEF TrackerFits
  <1>13. ASSUME NEW c \in DOMAIN stack, stack[c].kind = "check_auth"
         PROVE  /\ stack[c].tracker # i /\ stack[c].tracker \in DOMAIN m.account
                /\ b.account[stack[c].tracker].borrowed
                /\ CheckFits(b, stack, c, stack[c].tracker)
                /\ b.account[stack[c].tracker].invocation.address \notin ClassicAccounts
    <2>1. stack[c].tracker \in DOMAIN m.account /\ m.account[stack[c].tracker].borrowed
      BY <1>13 DEF BorrowedFit
    <2>2. stack[c].tracker # i
      BY <1>2, <2>1
    <2>3. b.account[stack[c].tracker] = m.account[stack[c].tracker]
      BY <1>3, <2>1, <2>2
    <2>. QED  BY <1>4, <1>10, <1>13, <2>1, <2>2, <2>3
  <1>14. VerifiedEntries(b) = VerifiedEntries(m)
    BY <1>3 DEF VerifiedEntries
  <1>15. TrackersFit(b, stack, n, "none", l)
    <2>1. CallsFit(b, stack)
      BY <1>3, <1>4 DEF CallsFit
    <2>2. \A k \in DOMAIN b.account : TrackerFits(b, stack, "none", k)
      BY <1>3, <1>10, <1>12
    <2>3. ASSUME NEW j \in DOMAIN stack PROVE RestoreFits(b, stack, j, l)
      <3>1. j \in 1..Len(stack) /\ RestoreFits(m, stack, j, l)
        BY <1>2, <1>4, SequenceLemma
      <3>. QED  BY <1>3, <1>7, <3>1, RestoreKept
    <2>4. Consumed(b, n, l, VerifiedEntries(b))
      <3>1. VerifiedEntries(m) \subseteq DOMAIN m.account
        BY DEF VerifiedEntries
      <3>. QED  BY <1>3, <1>4, <1>14, <3>1, ConsumedKept
    <2>5. ASSUME NEW k \in VerifiedEntries(b) PROVE EntrySigned(b.account[k])
      <3>1. k \in DOMAIN m.account /\ EntrySigned(m.account[k]) /\ SameEntry(m.account[k], b.account[k])
        BY <1>3, <1>4, <1>14, <2>5 DEF SameEntries, VerifiedEntries
      <3>. QED  BY <3>1, SignedKept
    <2>. QED  BY <1>13, <2>1, <2>2, <2>3, <2>4, <2>5 DEF TrackersFit
  <1>16. BorrowedFit(b, stack)
    <2>1. ASSUME NEW k \in DOMAIN b.account, b.account[k].borrowed
          PROVE  Len(MatchesOf(b, k)) + 1 <= Len(stack)
      <3>1. CASE k = i
        BY <1>1, <3>1
      <3>2. CASE k # i
        <4>1. b.account[k] = m.account[k] /\ k \in DOMAIN m.account
          BY <1>3, <3>2
        <4>. QED  BY <2>1, <4>1 DEF BorrowedFit, MatchesOf
      <3>. QED  BY <3>1, <3>2
    <2>. QED  BY <1>3, <1>13, <2>1 DEF BorrowedFit
  <1>17. Pending(b, stack, i)
    <2>1. CheckFits(b, stack, Len(stack) + 1, i)
      <3>1. PathsUpTo(stack, i, (Len(stack) + 1) - 1) = PathsUpTo(stack, i, Len(stack))
        <4>1. (Len(stack) + 1) - 1 = Len(stack)
          BY <1>1
        <4>. QED  BY <4>1, Zenon
      <3>2. NodesOf(b, i) = PathsUpTo(stack, i, (Len(stack) + 1) - 1) \cup MatchesOf(b, i)[Len(MatchesOf(b, i))]
        BY <1>1, <1>5, <3>1
      <3>3. d + 2 = Len(stack) + 1 /\ MatchesOf(b, i)[d] # Unmatched
        BY <1>1 DEF Unmatched
      <3>4. \A j \in Len(stack) + 1..Len(stack) : FALSE
        BY <1>1
      <3>. QED  BY <1>1, <3>2, <3>3, <3>4 DEF CheckFits
    <2>2. \A c \in DOMAIN stack : ~Checks(stack[c], i)
      BY <1>13 DEF Checks
    <2>. QED  BY <1>2, <1>3, <2>1, <2>2 DEF Pending
  <1>. QED  BY <1>1, <1>9, <1>15, <1>16, <1>17 DEF TakenFit

(***************************************************************************)
(* The signatures of a classic account.                                    *)
(***************************************************************************)

\* check_account_authentication compares neighbours only: the keys are different all the same.
LEMMA KeysIncrease ==
    ASSUME NEW n \in Nat, NEW key \in [1..n -> Nat], \A i \in 1..n - 1 : key[i] < key[i + 1]
    PROVE  \A i, j \in 1..n : i < j => key[i] < key[j]
  <1>. SUFFICES ASSUME NEW i \in 1..n, \E j \in 1..n : i < j /\ ~(key[i] < key[j])
                PROVE  FALSE
    BY Zenon
  <1>. DEFINE S == {j \in 1..n : i < j /\ ~(key[i] < key[j])}
              j == Lowest(S)
  <1>1. S \in SUBSET Nat /\ S # {}
    <2>1. PICK k \in 1..n : i < k /\ ~(key[i] < key[k])
      OBVIOUS
    <2>2. k \in S
      BY <2>1
    <2>3. \A x \in S : x \in Nat
      OBVIOUS
    <2>. HIDE DEF S
    <2>. QED  BY <2>2, <2>3
  <1>2. j \in S /\ \A k \in S : j <= k
    BY <1>1, LowestLemma
  <1>. HIDE DEF j
  <1>3. j \in 1..n /\ i < j /\ ~(key[i] < key[j])
    BY <1>2
  <1>4. j - 1 \in 1..n - 1 /\ j - 1 \in 1..n /\ ~(j <= j - 1) /\ (j - 1) + 1 = j
    BY <1>3
  <1>5. key[j - 1] < key[j]
    BY <1>4
  <1>6. key[i] \in Nat /\ key[j] \in Nat /\ key[j - 1] \in Nat
    BY <1>3, <1>4
  <1>7. j - 1 # i
    BY <1>3, <1>5
  <1>8. j - 1 \notin S
    BY <1>2, <1>4
  <1>9. key[i] < key[j - 1]
    <2>1. i < j - 1
      BY <1>3, <1>7
    <2>. QED  BY <1>4, <1>8, <2>1
  <1>. QED  BY <1>3, <1>5, <1>6, <1>9

\* An account that authenticates has the signatures of a quorum.
LEMMA QuorumLemma ==
    ASSUME NEW t, t.invocation.address \in ClassicAccounts, SignaturesOK(t), NEW payload,
           check_account_authentication(t.invocation.address, payload, t.signatures)
    PROVE  QuorumOf(t.invocation.address, KeysOf(t))
  <1>. DEFINE a == t.invocation.address
              sigs == t.signatures
              n == Len(sigs)
              key == [i \in 1..n |-> sigs[i].key]
              keys == KeysOf(t)
              f == [i \in 1..n |-> SignerWeight[a][sigs[i].key]]
              g == [k \in keys |-> SignerWeight[a][k]]
  <1>1. /\ DOMAIN sigs = 1..n /\ \A i \in 1..n : sigs[i].key \in Keys
        /\ SignerWeight[a] \in [Keys -> 0..255] /\ Keys \subseteq Nat
    BY AuthAssumption DEF SignaturesOK
  <1>2. /\ n \in 1..MAX_ACCOUNT_SIGNATURES
        /\ \A i \in 1..n - 1 : sigs[i].key < sigs[i + 1].key
        /\ SignedWeight(a, sigs) >= MediumThreshold[a]
    BY Zenon DEF check_account_authentication
  <1>3. n \in Nat
    BY <1>2 DEF MAX_ACCOUNT_SIGNATURES
  <1>. HIDE DEF n
  <1>4. key \in [1..n -> Nat] /\ f \in [1..n -> Nat] /\ keys = {key[i] : i \in 1..n}
    <2>1. \A i \in 1..n : sigs[i].key \in Nat /\ SignerWeight[a][sigs[i].key] \in Nat
      <3>1. \A k \in Keys : k \in Nat /\ SignerWeight[a][k] \in Nat
        <4>. DEFINE w == SignerWeight[a]
        <4>1. w \in [Keys -> 0..255] /\ Keys \subseteq Nat
          BY <1>1
        <4>. HIDE DEF w
        <4>2. \A k \in Keys : k \in Nat /\ w[k] \in Nat
          BY <4>1
        <4>. QED  BY <4>2 DEF w
      <3>. QED  BY <1>1, <3>1, Zenon
    <2>2. keys = {sigs[i].key : i \in 1..n}
      BY <1>1, Zenon DEF KeysOf
    <2>3. \A i \in 1..n : key[i] = sigs[i].key
      OBVIOUS
    <2>. HIDE DEF keys, sigs, a
    <2>4. key \in [1..n -> Nat] /\ f \in [1..n -> Nat]
      BY <2>1
    <2>. HIDE DEF key
    <2>. QED  BY <2>2, <2>3, <2>4
  <1>5. \A i \in 1..n - 1 : key[i] < key[i + 1]
    <2>1. \A i \in 1..n - 1 : i \in 1..n /\ i + 1 \in 1..n
      BY <1>3
    <2>. QED  BY <1>2, <2>1
  <1>6. \A i, j \in 1..n : key[i] = key[j] => i = j
    <2>1. \A i, j \in 1..n : i < j => key[i] < key[j]
      <3>. HIDE DEF key
      <3>. QED  BY <1>3, <1>4, <1>5, KeysIncrease
    <2>. HIDE DEF key
    <2>2. \A i \in 1..n : key[i] \in Nat
      BY <1>4
    <2>. QED  BY <1>3, <2>1, <2>2
  <1>7. key \in Bijection(1..n, keys)
    <2>. HIDE DEF key, keys
    <2>1. key \in [1..n -> keys] /\ \A k \in keys : \E i \in 1..n : key[i] = k
      BY <1>4
    <2>. QED  BY <1>6, <2>1 DEF Bijection, Injection, Surjection, IsInjective
  <1>8. \A i \in 1..n : g[key[i]] = f[i]
    BY <1>4
  <1>9. IsFiniteSet(1..n) /\ DOMAIN g = keys
    BY <1>3, FS_Interval
  <1>10. Total(f) = SignedWeight(a, sigs)
    BY <1>1 DEF SignedWeight
  <1>11. Total(g) >= MediumThreshold[a] => QuorumOf(a, keys)
    BY DEF QuorumOf
  <1>. HIDE DEF f, g, key, keys, a, sigs
  <1>12. Total(g) = Total(f)
    <2>. DEFINE S == 1..n
    <2>1. /\ IsFiniteSet(S) /\ f \in [S -> Nat] /\ DOMAIN g = keys /\ key \in Bijection(S, keys)
          /\ \A i \in S : g[key[i]] = f[i]
      BY <1>4, <1>7, <1>8, <1>9
    <2>. HIDE DEF S
    <2>. QED  BY <2>1, TotalReindexed
  <1>13. QuorumOf(a, keys)
    BY <1>2, <1>10, <1>11, <1>12
  <1>. QED  BY <1>13 DEF a, keys

LEMMA AuthenticatesLemma ==
    ASSUME NEW t, Authenticates(t), SignaturesOK(t)
    PROVE  EntrySigned(t)
  <1>1. CASE t.source \/ t.invocation.address \notin ClassicAccounts
    BY <1>1 DEF EntrySigned
  <1>2. CASE ~t.source /\ t.invocation.address \in ClassicAccounts
    <2>1. check_account_authentication(t.invocation.address, get_signature_payload(t), t.signatures)
      BY <1>2, Zenon DEF Authenticates
    <2>. DEFINE payload == get_signature_payload(t)
    <2>. HIDE DEF payload
    <2>2. QuorumOf(t.invocation.address, KeysOf(t))
      BY <1>2, <2>1, QuorumLemma DEF payload
    <2>. QED  BY <2>2 DEF EntrySigned
  <1>. QED  BY <1>1, <1>2

LEMMA GrantFields ==
    ASSUME NEW m, NEW i, NEW d, NEW g, g = Grant(m, i, d)
    PROVE  /\ g.tracker = i /\ g.depth = d
           /\ g.path = last_authorized_invocation(m.account[i].invocation)
           /\ EntrySigned(m.account[i]) => GrantSigned(g)
  <1>. DEFINE path == last_authorized_invocation(m.account[i].invocation)
              payload == get_signature_payload(m.account[i])
              keys == KeysOf(m.account[i])
  <1>1. g = [tracker |-> i, address |-> m.account[i].invocation.address, path |-> path,
             payload |-> payload, source |-> m.account[i].source, depth |-> d, keys |-> keys]
    BY DEF Grant, KeysOf
  <1>. HIDE DEF path, payload, keys
  <1>2. /\ g.tracker = i /\ g.depth = d /\ g.path = path /\ g.source = m.account[i].source
        /\ g.address = m.account[i].invocation.address /\ g.keys = keys
    BY <1>1
  <1>3. EntrySigned(m.account[i]) => GrantSigned(g)
    BY <1>2, Zenon DEF EntrySigned, GrantSigned, keys
  <1>. QED  BY <1>2, <1>3 DEF path

\* Everything fits, with no error in flight.
AllFit(m, stack, n, l) ==
    /\ GrantsFit(m, stack) /\ TrackersFit(m, stack, n, "none", l) /\ BorrowedFit(m, stack)
    /\ \A j \in DOMAIN stack : IsFrame(stack[j])

\* Entry i matched the call of the top frame: q is the manager, and b while it is taken.
Used(m, stack, n, l, i, q, b) ==
    /\ IsManager(q) /\ SameEntries(m, q) /\ q.call_stack = m.call_stack
    /\ \A k \in DOMAIN m.account : q.account[k].verified = m.account[k].verified
    /\ AllFit(b, stack, n, l) /\ Pending(b, stack, i)
    /\ IsManager(b) /\ SameEntries(m, b)
    /\ \A k \in DOMAIN m.account : b.account[k].verified = m.account[k].verified
    /\ \A k \in DOMAIN m.account : k # i => b.account[k] = m.account[k]
    /\ MatchesOf(b, i)[Len(MatchesOf(b, i))] = {last_authorized_invocation(q.account[i].invocation)}
    /\ Freed(b, q, i)

LEMMA UsedLemma ==
    ASSUME NEW m, NEW stack, NEW n, NEW l, AllFit(m, stack, n, l), NEW i, CanMatch(m, stack, i),
           NEW a, NEW q, UsesEntry(m, i, a, Last(m.call_stack), q), NEW b, b = Borrow(q, i)
    PROVE  Used(m, stack, n, l, i, q, b)
  <1>. DEFINE fn == Last(m.call_stack)
              path == last_authorized_invocation(q.account[i].invocation)
  <1>1. UsesEntry(m, i, a, fn, q)
    OBVIOUS
  <1>. HIDE DEF fn
  <1>2. /\ IsManager(q) /\ SameEntries(m, q) /\ q.call_stack = m.call_stack
        /\ \A k \in DOMAIN m.account : k # i => q.account[k] = m.account[k]
        /\ q.account[i].verified = m.account[i].verified
        /\ q.account[i].borrowed = m.account[i].borrowed
        /\ q.account[i].invocation = b.account[i].invocation
        /\ Taken(m, b, i, fn, path)
    BY <1>1, TakenLemma
  <1>. HIDE DEF path
  <1>3. AllFit(b, stack, n, l) /\ Pending(b, stack, i) /\ MatchesOf(b, i)[Len(MatchesOf(b, i))] = {path}
    <2>1. /\ GrantsFit(m, stack) /\ TrackersFit(m, stack, n, "none", l) /\ BorrowedFit(m, stack)
          /\ \A j \in DOMAIN stack : IsFrame(stack[j])
      BY DEF AllFit
    <2>2. Taken(m, b, i, Last(m.call_stack), path)
      BY <1>2 DEF fn
    <2>3. TakenFit(b, stack, n, l, i, path)
      BY <2>1, <2>2, TakenFits
    <2>. QED  BY <2>1, <2>3 DEF AllFit, TakenFit
  <1>4. /\ IsManager(b) /\ SameEntries(m, b) /\ b.call_stack = m.call_stack /\ b.account[i].borrowed
        /\ \A k \in DOMAIN m.account :
              /\ b.account[k].verified = m.account[k].verified
              /\ k # i => b.account[k] = m.account[k]
    BY <1>2, Zenon DEF Taken
  <1>5. i \in DOMAIN m.account /\ ~m.account[i].borrowed /\ AccountsOK(m)
    BY DEF CanMatch
  <1>6. DOMAIN b.account = DOMAIN m.account /\ DOMAIN q.account = DOMAIN m.account
    BY <1>2, <1>4 DEF SameEntries
  <1>7. ~q.account[i].borrowed
    BY <1>2, <1>5
  <1>8. Freed(b, q, i)
    <2>1. SameEntries(b, q)
      BY <1>2, <1>4, <1>6 DEF SameEntries, SameEntry
    <2>2. ASSUME NEW k \in DOMAIN b.account
          PROVE  /\ NodesOf(q, k) = NodesOf(b, k) /\ MatchesOf(q, k) = MatchesOf(b, k)
                 /\ q.account[k].borrowed <=> b.account[k].borrowed /\ k # i
      <3>1. CASE k = i
        BY <1>2, <1>7, <3>1 DEF NodesOf, MatchesOf
      <3>2. CASE k # i
        BY <1>2, <1>4, <1>6, <3>2 DEF NodesOf, MatchesOf
      <3>. QED  BY <3>1, <3>2
    <2>. QED  BY <1>2, <1>4, <2>1, <2>2 DEF Freed
  <1>9. \A k \in DOMAIN m.account : q.account[k].verified = m.account[k].verified
    BY <1>2
  <1>. QED  BY <1>2, <1>3, <1>4, <1>8, <1>9 DEF path, Used

\* What is verified stays verified, and its nonces consumed.
LEMMA VerifiedKept ==
    ASSUME NEW m, NEW q, SameEntries(m, q), NEW stack, NEW n, NEW e, NEW l, TrackersFit(m, stack, n, e, l),
           \A k \in DOMAIN m.account : q.account[k].verified = m.account[k].verified
    PROVE  /\ Consumed(q, n, l, VerifiedEntries(q))
           /\ \A k \in VerifiedEntries(q) : EntrySigned(q.account[k])
  <1>1. /\ Consumed(m, n, l, VerifiedEntries(m)) /\ VerifiedEntries(m) \subseteq DOMAIN m.account
        /\ \A k \in VerifiedEntries(m) : EntrySigned(m.account[k])
    BY DEF TrackersFit, VerifiedEntries
  <1>2. VerifiedEntries(q) = VerifiedEntries(m)
    BY DEF VerifiedEntries, SameEntries
  <1>3. Consumed(q, n, l, VerifiedEntries(q))
    BY <1>1, <1>2, ConsumedKept
  <1>4. ASSUME NEW k \in VerifiedEntries(q) PROVE EntrySigned(q.account[k])
    <2>1. k \in DOMAIN m.account /\ EntrySigned(m.account[k]) /\ SameEntry(m.account[k], q.account[k])
      BY <1>1, <1>2 DEF SameEntries
    <2>. QED  BY <2>1, SignedKept
  <1>. QED  BY <1>3, <1>4

\* The entry matched, and its authentication failed.
LEMMA RefusedFits ==
    ASSUME NEW m, NEW stack, NEW n, NEW l, AllFit(m, stack, n, l), NEW i, CanMatch(m, stack, i),
           NEW a, NEW q, UsesEntry(m, i, a, Last(m.call_stack), q), NEW e, e # "none"
    PROVE  GrantsFit(q, stack) /\ TrackersFit(q, stack, n, e, l)
  <1>. DEFINE b == Borrow(q, i)
              d == Len(stack)
              none == {}
              g == 0
  <1>1. /\ SameEntries(m, q)
        /\ \A k \in DOMAIN m.account : q.account[k].verified = m.account[k].verified
        /\ AllFit(b, stack, n, l) /\ Pending(b, stack, i) /\ Freed(b, q, i)
    <2>1. b = Borrow(q, i)
      OBVIOUS
    <2>. HIDE DEF b
    <2>2. Used(m, stack, n, l, i, q, b)
      BY <2>1, UsedLemma
    <2>. QED  BY <2>2 DEF Used
  <1>2. TrackersFit(m, stack, n, "none", l)
    BY DEF AllFit
  <1>3. Consumed(q, n, l, VerifiedEntries(q)) /\ \A k \in VerifiedEntries(q) : EntrySigned(q.account[k])
    BY <1>1, <1>2, VerifiedKept
  <1>4. Grown(stack, stack, d, none)
    <2>1. IsSequence(stack) /\ Len(stack) > 1
      BY DEF CanMatch
    <2>2. stack # <<>>
      BY <2>1, SequenceLemma
    <2>. QED  BY <1>1, <2>1, <2>2, GrownSame DEF AllFit
  <1>5. none = {} /\ d = Len(stack)
    OBVIOUS
  <1>. HIDE DEF b, d, none, g
  <1>6. /\ GrantsFit(b, stack) /\ TrackersFit(b, stack, n, "none", l) /\ BorrowedFit(b, stack)
    BY <1>1 DEF AllFit
  <1>. QED  BY <1>1, <1>3, <1>4, <1>5, <1>6, UseFits

\* Entry i is verified too, and its nonce consumed.
LEMMA VerifiedMore ==
    ASSUME NEW m, NEW p, SameEntries(m, p), NEW i \in DOMAIN m.account, EntrySigned(m.account[i]),
           NEW stack, NEW n, NEW e, NEW l, TrackersFit(m, stack, n, e, l),
           \A k \in DOMAIN m.account : p.account[k].verified <=> m.account[k].verified \/ k = i,
           NEW n2, DOMAIN n2 \subseteq DOMAIN n \cup {NonceKey(m.account[i])}
    PROVE  /\ Consumed(p, n2, l, VerifiedEntries(p))
           /\ \A k \in VerifiedEntries(p) : EntrySigned(p.account[k])
  <1>1. Consumed(m, n, l, VerifiedEntries(m)) /\ \A k \in VerifiedEntries(m) : EntrySigned(m.account[k])
    BY DEF TrackersFit
  <1>2. DOMAIN p.account = DOMAIN m.account
    BY DEF SameEntries
  <1>3. \A k \in VerifiedEntries(m) : k \in DOMAIN m.account /\ k \in VerifiedEntries(p)
    BY <1>2 DEF VerifiedEntries
  <1>4. i \in VerifiedEntries(p) /\ \A k \in VerifiedEntries(p) : k = i \/ k \in VerifiedEntries(m)
    BY <1>2 DEF VerifiedEntries
  <1>5. \A k \in DOMAIN m.account :
            NonceKey(p.account[k]) = NonceKey(m.account[k]) /\ p.account[k].source = m.account[k].source
    BY DEF SameEntries, SameEntry, NonceKey
  <1>6. ASSUME NEW k \in DOMAIN p.account, ~p.account[k].source, NonceKey(p.account[k]) \in DOMAIN n2 \ DOMAIN l
        PROVE  \E j \in VerifiedEntries(p) : NonceKey(p.account[j]) = NonceKey(p.account[k])
    <2>1. CASE NonceKey(p.account[k]) = NonceKey(m.account[i])
      BY <1>4, <1>5, <2>1
    <2>2. CASE NonceKey(p.account[k]) \in DOMAIN n
      <3>1. /\ k \in DOMAIN m.account /\ ~m.account[k].source
            /\ NonceKey(m.account[k]) \in DOMAIN n \ DOMAIN l
        BY <1>2, <1>5, <1>6, <2>2
      <3>2. PICK j \in VerifiedEntries(m) : NonceKey(m.account[j]) = NonceKey(m.account[k])
        BY <1>1, <3>1 DEF Consumed
      <3>. QED  BY <1>3, <1>5, <3>1, <3>2
    <2>. QED  BY <1>6, <2>1, <2>2
  <1>7. ASSUME NEW k \in VerifiedEntries(p) PROVE EntrySigned(p.account[k])
    <2>1. k \in DOMAIN m.account /\ EntrySigned(m.account[k]) /\ SameEntry(m.account[k], p.account[k])
      BY <1>1, <1>3, <1>4 DEF SameEntries
    <2>. QED  BY <2>1, SignedKept
  <1>. QED  BY <1>6, <1>7 DEF Consumed

\* The entry matched, and it is verified: the top frame is granted the node.
LEMMA GrantedFits ==
    ASSUME NEW m, NEW stack, NEW n, NEW l, AllFit(m, stack, n, l), NEW i, CanMatch(m, stack, i),
           NEW a, NEW q, UsesEntry(m, i, a, Last(m.call_stack), q),
           NEW p, SameEntries(q, p), p.call_stack = q.call_stack,
           \A k \in DOMAIN m.account : k # i => p.account[k] = q.account[k],
           p.account[i].invocation = q.account[i].invocation,
           p.account[i].verified, ~p.account[i].borrowed, EntrySigned(m.account[i]),
           NEW n2, DOMAIN n2 \subseteq DOMAIN n \cup {NonceKey(m.account[i])},
           NEW g, g = Grant(q, i, Len(stack)), NEW r, r = WithGrants(stack, {g})
    PROVE  GrantsFit(p, r) /\ TrackersFit(p, r, n2, "none", l)
  <1>. DEFINE b == Borrow(q, i)
              d == Len(stack)
              x == {g}
              e == "none"
  <1>1. /\ SameEntries(m, q)
        /\ \A k \in DOMAIN m.account : q.account[k].verified = m.account[k].verified
        /\ AllFit(b, stack, n, l) /\ Pending(b, stack, i) /\ Freed(b, q, i)
        /\ SameEntries(m, b)
        /\ MatchesOf(b, i)[Len(MatchesOf(b, i))] = {last_authorized_invocation(q.account[i].invocation)}
    <2>1. b = Borrow(q, i)
      OBVIOUS
    <2>. HIDE DEF b
    <2>2. Used(m, stack, n, l, i, q, b)
      BY <2>1, UsedLemma
    <2>. QED  BY <2>2 DEF Used
  <1>2. i \in DOMAIN m.account /\ AccountsOK(m) /\ IsSequence(stack) /\ Len(stack) > 1
    BY DEF CanMatch
  <1>3. DOMAIN q.account = DOMAIN m.account /\ DOMAIN p.account = DOMAIN m.account /\ DOMAIN b.account = DOMAIN m.account
    BY <1>1 DEF SameEntries
  <1>4. SameEntries(m, p)
    BY <1>1, <1>3 DEF SameEntries, SameEntry
  <1>5. EntrySigned(q.account[i]) /\ EntrySigned(p.account[i])
    BY <1>1, <1>2, <1>4, SignedKept DEF SameEntries
  <1>6. GrantOf(b, d, i, g)
    BY <1>1, <1>5, GrantFields DEF GrantOf
  <1>7. Freed(b, p, i)
    <2>1. SameEntries(b, p)
      BY <1>1, <1>3 DEF Freed, SameEntries, SameEntry
    <2>2. p.call_stack = b.call_stack
      BY <1>1 DEF Freed
    <2>3. ASSUME NEW k \in DOMAIN b.account
          PROVE  /\ NodesOf(p, k) = NodesOf(b, k) /\ MatchesOf(p, k) = MatchesOf(b, k)
                 /\ p.account[k].borrowed <=> b.account[k].borrowed /\ k # i
      <3>1. /\ NodesOf(q, k) = NodesOf(b, k) /\ MatchesOf(q, k) = MatchesOf(b, k)
            /\ q.account[k].borrowed <=> b.account[k].borrowed /\ k # i
        BY <1>1 DEF Freed
      <3>2. CASE k = i
        BY <3>1, <3>2 DEF NodesOf, MatchesOf
      <3>3. CASE k # i
        BY <1>3, <3>1, <3>3 DEF NodesOf, MatchesOf
      <3>. QED  BY <3>2, <3>3
    <2>. QED  BY <2>1, <2>2, <2>3 DEF Freed
  <1>8. Grown(stack, r, d, x) /\ Len(r) = d
    <2>1. stack # <<>> /\ Len(stack) \in Nat /\ DOMAIN stack = 1..Len(stack)
      BY <1>2, SequenceLemma
    <2>2. \A j \in DOMAIN stack : IsFrame(stack[j])
      BY DEF AllFit
    <2>3. /\ Below(r, stack, Len(stack))
          /\ \A j \in 1..Len(stack) - 1 : r[j].grants = stack[j].grants
          /\ r[Len(stack)].grants = stack[Len(stack)].grants \cup x
      <3>. HIDE DEF x
      <3>. QED  BY <1>2, <2>1, <2>2, GrantedLemma DEF x
    <2>. HIDE DEF x
    <2>4. IsSequence(r) /\ Len(r) = d /\ \A j \in 1..d : SameFrame(stack[j], r[j])
      BY <2>3 DEF Below
    <2>5. d \in Nat \ {0} /\ d <= Len(stack) /\ d <= Len(r)
      BY <1>2, <2>1, <2>4
    <2>. QED  BY <1>2, <2>3, <2>4, <2>5 DEF Grown
  <1>9. TrackersFit(m, stack, n, "none", l)
    BY DEF AllFit
  <1>10. Consumed(p, n2, l, VerifiedEntries(p)) /\ \A k \in VerifiedEntries(p) : EntrySigned(p.account[k])
    <2>1. \A k \in DOMAIN m.account : p.account[k].verified <=> m.account[k].verified \/ k = i
      BY <1>1
    <2>. QED  BY <1>2, <1>4, <1>9, <2>1, VerifiedMore
  <1>11. d = Len(stack) /\ x = {g} /\ e = "none"
    OBVIOUS
  <1>12. GrantsFit(b, stack) /\ TrackersFit(b, stack, n, "none", l) /\ BorrowedFit(b, stack) /\ Pending(b, stack, i)
    BY <1>1 DEF AllFit
  <1>. HIDE DEF b, d, x, e
  <1>13. GrantsFit(p, r) /\ TrackersFit(p, r, n2, e, l)
    BY <1>6, <1>7, <1>8, <1>10, <1>11, <1>12, UseFits
  <1>. QED  BY <1>11, <1>13

LEMMA BorrowedFits ==
    ASSUME NEW m, NEW stack, NEW n, NEW e, NEW l, NEW s, TrackersFit(m, stack, n, e, l),
           TrackersOK(m, stack, n, l, s), IsSequence(stack)
    PROVE  BorrowedFit(m, stack)
  <1>1. \A c \in DOMAIN stack : stack[c].kind = "check_auth" =>
           stack[c].tracker \in DOMAIN m.account /\ m.account[stack[c].tracker].borrowed
    BY DEF TrackersOK
  <1>2. ASSUME NEW k \in DOMAIN m.account, m.account[k].borrowed
        PROVE  Len(MatchesOf(m, k)) + 1 <= Len(stack)
    <2>1. PICK c \in DOMAIN stack : Checks(stack[c], k)
      BY <1>2, BorrowedLemma
    <2>2. CheckFits(m, stack, c, k)
      BY <2>1 DEF TrackersFit, Checks
    <2>3. Len(stack) \in Nat /\ c \in 1..Len(stack)
      BY SequenceLemma
    <2>4. MatchesFit(m, stack, k)
      BY DEF TrackersFit, TrackerFits
    <2>5. Len(MatchesOf(m, k)) \in Nat
      BY <2>4, SequenceLemma DEF MatchesFit
    <2>6. Len(MatchesOf(m, k)) + 2 = c
      BY <2>2 DEF CheckFits
    <2>. QED  BY <2>3, <2>5, <2>6
  <1>. QED  BY <1>1, <1>2 DEF BorrowedFit

\* A requirement in a frame above the host function's.
LEMMA RequireFits ==
    ASSUME NEW m, NEW stack, NEW object, Sound(m, stack, nonces, "none", ledger, seq), ~m.recording,
           GrantsFit(m, stack), TrackersFit(m, stack, nonces, "none", ledger), Len(stack) > 1,
           raised = "none", Require(m, stack, object)
    PROVE  GrantsFit(am', frames') /\ TrackersFit(am', frames', nonces', raised', ledger)
  <1>. DEFINE fn == Last(m.call_stack)
              R == AuthResult(m, object, fn)
              q == R.am
              i == R.tracker
              t == q.account[i]
              a == AddressOf[object]
              g == Grant(q, i, Len(stack))
              none == "none"
              b == Borrow(q, i)
  <1>1. /\ IsManager(m) /\ TrackersOK(m, stack, nonces, ledger, seq) /\ IsSequence(stack)
        /\ \A j \in DOMAIN stack : IsFrame(stack[j])
    BY DEF Sound, StackOK
  <1>2. AccountsOK(m) /\ \A k \in DOMAIN m.account : m.account[k].borrowed => ~m.account[k].verified
    BY <1>1 DEF TrackersOK
  <1>3. AllFit(m, stack, nonces, ledger)
    BY <1>1, BorrowedFits DEF AllFit
  <1>. HIDE DEF fn
  <1>4. /\ SameManager(m, q)
        /\ R.out \in {"denied", "ok", "authenticate", "internal"}
        /\ R.out = "authenticate" \/ (R.out = "ok" /\ i # 0) =>
              /\ i \in DOMAIN m.account
              /\ ~m.account[i].borrowed
              /\ m.account[i].verified <=> R.out = "ok"
              /\ UsesEntry(m, i, a, fn, q)
        /\ R.out = "ok" /\ i = 0 => q.account = m.account /\ q.call_stack = m.call_stack
    BY <1>1, <1>2, AuthLemma
  <1>5. Granted(stack, q, i) = IF i = 0 THEN stack ELSE WithGrants(stack, {g})
    BY DEF Granted, WithGrants
  <1>6. \/ R.out = "ok" /\ am' = q /\ frames' = Granted(stack, q, i) /\ raised' = raised /\ nonces' = nonces
        \/ R.out = "recorded"
        \/ /\ R.out \in {"denied", "internal"} /\ am' = m /\ frames' = stack /\ nonces' = nonces
        \/ /\ R.out = "authenticate" /\ am' = q /\ frames' = stack /\ nonces' = nonces
           /\ raised' \in {"fatal", "recoverable"}
        \/ /\ R.out = "authenticate" /\ Authenticates(t)
           /\ am' = Verified(q, i) /\ frames' = Granted(stack, q, i)
           /\ nonces' = verify_and_consume_nonce(t, nonces, seq) /\ raised' = raised
        \/ /\ R.out = "authenticate" /\ nonces' = nonces /\ raised' = raised /\ a \notin ClassicAccounts
           /\ am' = PushCall([q EXCEPT !.account[i].borrowed = TRUE], CheckAuthFn(a))
           /\ frames' = Append(stack, Frame("check_auth", CheckAuthFn(a), am', i))
    <2>1. Require(m, stack, object)
      OBVIOUS
    <2>2. \A x : NonceError(x) \in {"fatal", "recoverable"}
      BY DEF NonceError
    <2>. QED  BY <2>1, <2>2, Zenon DEF Require, fn
  <1>7. ASSUME R.out = "authenticate" \/ (R.out = "ok" /\ i # 0)
        PROVE  /\ CanMatch(m, stack, i) /\ UsesEntry(m, i, a, Last(m.call_stack), q)
               /\ Used(m, stack, nonces, ledger, i, q, b)
    <2>1. i \in DOMAIN m.account /\ ~m.account[i].borrowed /\ UsesEntry(m, i, a, Last(m.call_stack), q)
      BY <1>4, <1>7 DEF fn
    <2>2. TrackerFits(m, stack, "none", i)
      BY <2>1 DEF TrackersFit
    <2>3. CanMatch(m, stack, i)
      BY <1>1, <1>2, <2>1, <2>2 DEF CanMatch
    <2>4. b = Borrow(q, i)
      OBVIOUS
    <2>. HIDE DEF R, q, i, a, b
    <2>. QED  BY <1>3, <2>1, <2>3, <2>4, UsedLemma
  <1>8. \A k \in DOMAIN m.account : SignaturesOK(m.account[k])
    BY DEF GrantsFit
  <1>9. SameEntries(m, q) /\ IsManager(q) /\ AccountsOK(q) /\ DOMAIN q.account = DOMAIN m.account
    BY <1>2, <1>4 DEF SameManager, SameEntries
  <1>. HIDE DEF R, q, i, t, a, g, b
  <1>10. CASE R.out = "ok" /\ am' = q /\ frames' = Granted(stack, q, i) /\ raised' = raised /\ nonces' = nonces
    <2>1. CASE i = 0
      <3>1. q.account = m.account /\ q.call_stack = m.call_stack
        BY <1>4, <1>10, <2>1
      <3>2. GrantsFit(q, stack) /\ TrackersFit(q, stack, nonces, none, ledger)
        BY <3>1, SameFits
      <3>. QED  BY <1>5, <1>10, <2>1, <3>2, Zenon
    <2>2. CASE i # 0
      <3>. DEFINE r == WithGrants(stack, {g})
      <3>1. /\ CanMatch(m, stack, i) /\ UsesEntry(m, i, a, Last(m.call_stack), q)
            /\ i \in DOMAIN m.account /\ ~m.account[i].borrowed /\ m.account[i].verified
        BY <1>4, <1>7, <1>10, <2>2
      <3>2. EntrySigned(m.account[i])
        BY <3>1 DEF TrackersFit, VerifiedEntries
      <3>3. Used(m, stack, nonces, ledger, i, q, b)
        BY <1>7, <1>10, <2>2
      <3>4. q.account[i].verified
        BY <3>1, <3>3 DEF Used
      <3>5. ~q.account[i].borrowed
        BY <1>9, <3>1, <3>3 DEF Used, Freed, SameEntries
      <3>6. SameEntries(q, q)
        BY <1>9, EntryLemma DEF SameEntries, AccountsOK
      <3>7. DOMAIN nonces \subseteq DOMAIN nonces \cup {NonceKey(m.account[i])}
        OBVIOUS
      <3>8. g = Grant(q, i, Len(stack)) /\ r = WithGrants(stack, {g})
        BY DEF g
      <3>. HIDE DEF r
      <3>9. GrantsFit(q, r) /\ TrackersFit(q, r, nonces, "none", ledger)
        BY <1>3, <3>1, <3>2, <3>4, <3>5, <3>6, <3>7, <3>8, GrantedFits
      <3>. QED  BY <1>5, <1>10, <2>2, <3>8, <3>9, Zenon
    <2>. QED  BY <2>1, <2>2
  <1>11. CASE R.out \in {"denied", "internal"} /\ am' = m /\ frames' = stack /\ nonces' = nonces
    <2>1. TrackersFit(m, stack, nonces, raised', ledger)
      BY RaiseFits
    <2>. QED  BY <1>11, <2>1, Zenon
  <1>12. CASE /\ R.out = "authenticate" /\ am' = q /\ frames' = stack /\ nonces' = nonces
              /\ raised' \in {"fatal", "recoverable"}
    <2>. DEFINE e == raised'
    <2>1. e # "none"
      BY <1>12
    <2>2. CanMatch(m, stack, i) /\ UsesEntry(m, i, a, Last(m.call_stack), q)
      BY <1>7, <1>12
    <2>. HIDE DEF e
    <2>3. GrantsFit(q, stack) /\ TrackersFit(q, stack, nonces, e, ledger)
      BY <1>3, <2>1, <2>2, RefusedFits
    <2>. QED  BY <1>12, <2>3, Zenon DEF e
  <1>13. CASE /\ R.out = "authenticate" /\ Authenticates(t)
              /\ am' = Verified(q, i) /\ frames' = Granted(stack, q, i)
              /\ nonces' = verify_and_consume_nonce(t, nonces, seq) /\ raised' = raised
    <2>. DEFINE n == verify_and_consume_nonce(t, nonces, seq)
                p == Verified(q, i)
                r == WithGrants(stack, {g})
    <2>1. /\ CanMatch(m, stack, i) /\ UsesEntry(m, i, a, Last(m.call_stack), q)
          /\ i \in DOMAIN m.account /\ i # 0
      BY <1>2, <1>4, <1>7, <1>13 DEF AccountsOK
    <2>2. t = q.account[i] /\ SameEntry(m.account[i], t)
      BY <1>9, <2>1 DEF t, SameEntries
    <2>3. NonceKey(t) = NonceKey(m.account[i])
      BY <2>2 DEF NonceKey, SameEntry
    <2>4. DOMAIN n \subseteq DOMAIN nonces \cup {NonceKey(m.account[i])}
      BY <2>3 DEF verify_and_consume_nonce, consume_nonce
    <2>5. EntrySigned(m.account[i])
      <3>1. SignaturesOK(t)
        BY <1>8, <2>1, <2>2 DEF SignaturesOK, SameEntry
      <3>2. EntrySigned(t)
        BY <1>13, <3>1, AuthenticatesLemma
      <3>. QED  BY <2>2, <3>2 DEF EntrySigned, SameEntry, KeysOf
    <2>6. /\ SameEntries(q, p) /\ p.call_stack = q.call_stack
          /\ p.account[i].verified /\ ~p.account[i].borrowed
          /\ p.account[i].invocation = q.account[i].invocation
          /\ \A k \in DOMAIN m.account : k # i => p.account[k] = q.account[k]
      BY <1>9, <2>1, VerifiedLemma
    <2>7. g = Grant(q, i, Len(stack)) /\ r = WithGrants(stack, {g})
      BY DEF g
    <2>8. am' = p /\ nonces' = n /\ frames' = r /\ raised' = "none"
      BY <1>5, <1>13, <2>1, Zenon
    <2>. HIDE DEF n, p, r
    <2>9. GrantsFit(p, r) /\ TrackersFit(p, r, n, "none", ledger)
      BY <1>3, <2>1, <2>4, <2>5, <2>6, <2>7, GrantedFits
    <2>. QED  BY <2>8, <2>9, Zenon
  <1>14. CASE /\ R.out = "authenticate" /\ nonces' = nonces /\ raised' = raised /\ a \notin ClassicAccounts
              /\ am' = PushCall([q EXCEPT !.account[i].borrowed = TRUE], CheckAuthFn(a))
              /\ frames' = Append(stack, Frame("check_auth", CheckAuthFn(a), am', i))
    <2>. DEFINE c == CheckAuthFn(a)
                p == PushCall(b, c)
                f == Frame("check_auth", c, p, i)
    <2>1. /\ CanMatch(m, stack, i) /\ Used(m, stack, nonces, ledger, i, q, b)
          /\ UsesEntry(m, i, a, Last(m.call_stack), q)
          /\ i \in DOMAIN m.account /\ ~m.account[i].verified
      BY <1>4, <1>7, <1>14
    <2>2. am' = p /\ frames' = Append(stack, f) /\ raised' = "none" /\ nonces' = nonces
      BY <1>14 DEF Borrow, b
    <2>3. /\ f.kind = "check_auth" /\ f.fn = c /\ f.tracker = i /\ f.snap = snapshot(p)
          /\ f.nonces = nonces /\ f.grants = {}
      <3>1. f = Frame("check_auth", c, p, i)
        OBVIOUS
      <3>. HIDE DEF f, c, p
      <3>. QED  BY <3>1, FrameLemma
    <2>4. p = PushCall(b, c)
      OBVIOUS
    <2>. HIDE DEF c, p, f
    <2>5. /\ AllFit(b, stack, nonces, ledger) /\ Pending(b, stack, i) /\ IsManager(b) /\ SameEntries(m, b)
          /\ \A k \in DOMAIN m.account : b.account[k].verified = m.account[k].verified
          /\ \A k \in DOMAIN m.account : k # i => b.account[k] = m.account[k]
      BY <2>1 DEF Used
    <2>6. DOMAIN b.account = DOMAIN m.account /\ i \in DOMAIN b.account /\ b.account[i].borrowed
          /\ CheckFits(b, stack, Len(stack) + 1, i)
      BY <2>5 DEF SameEntries, Pending
    <2>7. \A k \in DOMAIN b.account : b.account[k].borrowed => ~b.account[k].verified
      BY <1>2, <2>1, <2>5, <2>6
    <2>8. b.account[i].invocation.address \notin ClassicAccounts
      <3>1. m.account[i].invocation.address = a
        BY <2>1 DEF UsesEntry
      <3>. QED  BY <1>14, <2>1, <2>5, <3>1 DEF SameEntries, SameEntry
    <2>9. stack # <<>>
      BY <1>1, SequenceLemma
    <2>10. PushFits(b, stack, nonces, ledger, c, f, p)
      BY <1>1, <2>3, <2>4, <2>5, <2>6, <2>7, <2>8, <2>9 DEF PushFits, AllFit
    <2>11. GrantsFit(p, Append(stack, f)) /\ TrackersFit(p, Append(stack, f), nonces, "none", ledger)
      BY <2>10, PushedFits
    <2>. QED  BY <2>2, <2>11, Zenon
  <1>. QED  BY <1>4, <1>6, <1>10, <1>11, <1>12, <1>13, <1>14

\* In recording mode the manager goes on recording.
LEMMA RequireRecording ==
    ASSUME NEW m, IsManager(m), m.recording, NEW stack, NEW object, Require(m, stack, object)
    PROVE  am'.recording
  <1>. DEFINE R == AuthResult(m, object, Last(m.call_stack))
  <1>1. R.am.recording /\ R.out \in {"denied", "ok", "recorded", "internal"}
    BY AuthLemma
  <1>2. R.out # "authenticate" => am' \in {R.am, m}
    <2>1. Require(m, stack, object)
      OBVIOUS
    <2>. QED  BY <2>1, Zenon DEF Require
  <1>. HIDE DEF R
  <1>. QED  BY <1>1, <1>2

\* A call pushes a frame, in an enforcing transaction where nothing failed.
LEMMA CallPushed ==
    ASSUME HostInv, GrantInv, Enforcing, raised = "none", NEW kind, kind # "check_auth",
           NEW fn, NEW q, q = PushCall(am, fn), NEW f, f = Frame(kind, fn, q, 0)
    PROVE  /\ GrantsFit(q, Append(frames, f))
           /\ TrackersFit(q, Append(frames, f), nonces, "none", ledger)
  <1>1. /\ IsManager(am) /\ GrantsFit(am, frames) /\ TrackersFit(am, frames, nonces, "none", ledger)
        /\ TrackersOK(am, frames, nonces, ledger, seq)
        /\ IsSequence(frames) /\ frames # <<>> /\ \A i \in DOMAIN frames : IsFrame(frames[i])
    BY EnforcingFits
  <1>2. BorrowedFit(am, frames)
    BY <1>1, BorrowedFits
  <1>3. \A k \in DOMAIN am.account : am.account[k].borrowed => ~am.account[k].verified
    BY <1>1 DEF TrackersOK
  <1>4. /\ f.kind = kind /\ f.fn = fn /\ f.snap = snapshot(q) /\ f.nonces = nonces /\ f.grants = {}
    BY FrameLemma
  <1>5. PushFits(am, frames, nonces, ledger, fn, f, q)
    BY <1>1, <1>2, <1>3, <1>4 DEF PushFits
  <1>. QED  BY <1>5, PushedFits

LEMMA CallFits ==
    ASSUME HostInv, GrantInv, NEW fn, NEW kind \in {"call", "try"}, Call(fn, kind)
    PROVE  GrantInv'
  <1>. DEFINE q == PushCall(am, fn)
              f == Frame(kind, fn, q, 0)
  <1>1. /\ ~Idle /\ raised = "none" /\ am' = q /\ frames' = Append(frames, f)
        /\ raised' = "none" /\ nonces' = nonces /\ ledger' = ledger /\ used' = used
    BY DEF Call, Step, Running, Pushed
  <1>2. IsManager(am)
    BY <1>1, RunningLemma
  <1>3. q.recording = am.recording
    BY <1>2, PushLemma DEF SameManager
  <1>4. CASE am.recording
    BY <1>1, <1>3, <1>4, FittingLemma
  <1>5. CASE ~am.recording
    <2>1. Enforcing /\ kind # "check_auth"
      BY <1>1, <1>5 DEF Enforcing
    <2>2. q = PushCall(am, fn) /\ f = Frame(kind, fn, q, 0)
      OBVIOUS
    <2>. HIDE DEF q, f
    <2>3. /\ GrantsFit(q, Append(frames, f))
          /\ TrackersFit(q, Append(frames, f), nonces, "none", ledger)
      BY <1>1, <2>1, <2>2, CallPushed
    <2>4. Fitting(am', frames', nonces', raised', ledger)
      BY <1>1, <2>3 DEF Fitting
    <2>. QED  BY <1>1, <2>4, FittingLemma
  <1>. QED  BY <1>4, <1>5

LEMMA AuthorizeFits ==
    ASSUME HostInv, GrantInv, NEW tree, AuthorizeAsCurrContract(tree)
    PROVE  GrantInv'
  <1>. DEFINE v == Append(am.invoker, NewTracker(Top.fn.contract, tree))
              q == [am EXCEPT !.invoker = v]
  <1>1. /\ ~Idle /\ raised = "none" /\ am' = q /\ frames' = frames
        /\ raised' = "none" /\ nonces' = nonces /\ ledger' = ledger /\ used' = used
    BY DEF AuthorizeAsCurrContract, Step, Running,
           add_invoker_contract_auth_with_curr_contract_as_invoker
  <1>2. IsManager(am)
    BY <1>1, RunningLemma
  <1>. HIDE DEF v
  <1>3. q.recording = am.recording /\ q.account = am.account /\ q.call_stack = am.call_stack
    BY <1>2, InvokerExcept DEF SameManager
  <1>. HIDE DEF q
  <1>4. CASE am.recording
    BY <1>1, <1>3, <1>4, FittingLemma
  <1>5. CASE ~am.recording
    <2>1. GrantsFit(am, frames) /\ TrackersFit(am, frames, nonces, "none", ledger)
      BY <1>1, <1>5, EnforcingFits DEF Enforcing
    <2>2. GrantsFit(q, frames) /\ TrackersFit(q, frames, nonces, "none", ledger)
      BY <1>3, <2>1, SameFits
    <2>3. Fitting(am', frames', nonces', raised', ledger)
      BY <1>1, <2>2 DEF Fitting
    <2>. QED  BY <1>1, <2>3, FittingLemma
  <1>. QED  BY <1>4, <1>5

LEMMA RequireAuthFits ==
    ASSUME HostInv, GrantInv, NEW object, RequireAuth(object)
    PROVE  GrantInv'
  <1>1. /\ ~Idle /\ raised = "none" /\ Top.kind \in ContractKinds /\ Require(am, frames, object)
        /\ ledger' = ledger /\ used' = used
    BY DEF RequireAuth, Step, Running
  <1>2. Sound(am, frames, nonces, "none", ledger, seq) /\ IsManager(am)
    BY <1>1, RunningLemma
  <1>3. CASE am.recording
    <2>1. am'.recording
      BY <1>1, <1>2, <1>3, RequireRecording
    <2>. QED  BY <1>1, <2>1, FittingLemma
  <1>4. CASE ~am.recording
    <2>1. /\ GrantsFit(am, frames) /\ TrackersFit(am, frames, nonces, "none", ledger)
          /\ Len(frames) \in Nat /\ Len(frames) > 0 /\ (Top.kind = "host_fn" <=> Len(frames) = 1)
      BY <1>1, <1>4, EnforcingFits DEF Enforcing
    <2>. DEFINE d == Len(frames)
    <2>2. d > 1
      <3>1. d \in Nat /\ d > 0 /\ d # 1
        BY <1>1, <2>1 DEF ContractKinds
      <3>. HIDE DEF d
      <3>. QED  BY <3>1
    <2>3. GrantsFit(am', frames') /\ TrackersFit(am', frames', nonces', raised', ledger)
      BY <1>1, <1>2, <1>4, <2>1, <2>2, RequireFits
    <2>4. Fitting(am', frames', nonces', raised', ledger)
      BY <2>3 DEF Fitting
    <2>. QED  BY <1>1, <2>4, FittingLemma
  <1>. QED  BY <1>3, <1>4

LEMMA CreateFits ==
    ASSUME HostInv, GrantInv, NEW object, CreateContract(object)
    PROVE  GrantInv'
  <1>. DEFINE fn == CreateFn(AddressOf[object])
              q == PushCall(am, fn)
              f == Frame("create", fn, q, 0)
              stack == Append(frames, f)
  <1>1. /\ ~Idle /\ raised = "none" /\ Require(q, stack, object)
        /\ ledger' = ledger /\ used' = used
    BY DEF CreateContract, Step, Running, Pushed
  <1>2. Sound(am, frames, nonces, "none", ledger, seq) /\ IsManager(am) /\ frames # <<>>
    BY <1>1, RunningLemma
  <1>3. SameManager(am, q)
    BY <1>2, PushLemma
  <1>4. q = PushCall(am, fn) /\ f = Frame("create", fn, q, 0) /\ stack = Append(frames, f)
    OBVIOUS
  <1>. HIDE DEF fn, q, f
  <1>5. IsFrame(f) /\ f.kind = "create" /\ f.snap = snapshot(q) /\ f.nonces = nonces /\ f.grants = {}
    BY <1>4, FrameLemma
  <1>6. Sound(q, stack, nonces, "none", ledger, seq)
    BY <1>2, <1>3, <1>5, PushSound
  <1>7. q.recording = am.recording /\ IsManager(q)
    BY <1>3 DEF SameManager
  <1>8. CASE am.recording
    <2>. HIDE DEF stack
    <2>1. am'.recording
      BY <1>1, <1>7, <1>8, RequireRecording
    <2>. QED  BY <1>1, <2>1, FittingLemma
  <1>9. CASE ~am.recording
    <2>1. Enforcing
      BY <1>1, <1>9 DEF Enforcing
    <2>2. IsSequence(frames) /\ Len(frames) \in Nat /\ Len(frames) > 0
      BY <2>1, EnforcingFits
    <2>. DEFINE kind == "create"
    <2>3. f = Frame(kind, fn, q, 0) /\ kind # "check_auth"
      BY <1>4
    <2>. HIDE DEF kind
    <2>4. GrantsFit(q, stack) /\ TrackersFit(q, stack, nonces, "none", ledger)
      BY <1>1, <1>4, <2>1, <2>3, CallPushed
    <2>5. Len(stack) > 1
      <3>1. Len(stack) = Len(frames) + 1
        BY <2>2, AppendLemma
      <3>. HIDE DEF stack
      <3>. QED  BY <2>2, <3>1
    <2>. HIDE DEF stack
    <2>6. GrantsFit(am', frames') /\ TrackersFit(am', frames', nonces', raised', ledger)
      BY <1>1, <1>6, <1>7, <1>9, <2>4, <2>5, RequireFits
    <2>7. Fitting(am', frames', nonces', raised', ledger)
      BY <2>6 DEF Fitting
    <2>. QED  BY <1>1, <2>7, FittingLemma
  <1>. QED  BY <1>8, <1>9

\* A call that is refused, and a contract that fails.
LEMMA FailFits ==
    ASSUME HostInv, GrantInv, ~Idle, raised = "none", am' = am, frames' = frames, nonces' = nonces,
           ledger' = ledger, used' = used
    PROVE  GrantInv'
  <1>1. CASE am.recording
    BY <1>1, FittingLemma
  <1>2. CASE ~am.recording
    <2>1. GrantsFit(am, frames) /\ TrackersFit(am, frames, nonces, "none", ledger)
      BY <1>2, EnforcingFits DEF Enforcing
    <2>. DEFINE e == raised'
    <2>. HIDE DEF e
    <2>2. TrackersFit(am, frames, nonces, e, ledger)
      BY <2>1, RaiseFits
    <2>3. Fitting(am', frames', nonces', raised', ledger)
      BY <2>1, <2>2, Zenon DEF Fitting, e
    <2>. QED  BY <2>3, FittingLemma
  <1>. QED  BY <1>1, <1>2

\* The frames that are left when the top frame returns.
LEMMA PoppedGrown ==
    ASSUME HostInv, GrantInv, Enforcing, Len(frames) > 1, NEW d, d = Len(frames) - 1, NEW r, r = Popped
    PROVE  Grown(frames, r, d, frames[d + 1].grants) /\ Len(r) = d /\ Len(frames) = d + 1 /\ d \in Nat /\ d > 0
  <1>1. /\ IsSequence(frames) /\ frames # <<>> /\ Len(frames) \in Nat
        /\ Top = frames[Len(frames)] /\ \A i \in DOMAIN frames : IsFrame(frames[i])
    BY EnforcingFits
  <1>. DEFINE n == Len(frames)
  <1>2. n = d + 1 /\ d \in Nat /\ d > 0 /\ d - 1 = n - 2
    <2>1. n \in Nat /\ n > 1 /\ d = n - 1
      BY <1>1
    <2>. HIDE DEF n
    <2>. QED  BY <2>1
  <1>3. /\ Below(Popped, frames, n - 1)
        /\ \A i \in 1..n - 2 : Popped[i].grants = frames[i].grants
        /\ Popped[n - 1].grants = frames[n - 1].grants \cup Top.grants
    BY <1>1, PoppedLemma
  <1>4. /\ IsSequence(r) /\ Len(r) = d /\ \A i \in 1..d : SameFrame(frames[i], r[i])
    BY <1>2, <1>3 DEF Below
  <1>5. /\ \A i \in 1..d - 1 : r[i].grants = frames[i].grants
        /\ r[d].grants = frames[d].grants \cup frames[d + 1].grants
    BY <1>1, <1>2, <1>3
  <1>6. d \in Nat \ {0} /\ d <= n /\ d <= Len(r)
    <2>. HIDE DEF n
    <2>. QED  BY <1>2, <1>4
  <1>. QED  BY <1>1, <1>2, <1>4, <1>5, <1>6 DEF Grown

LEMMA ReturnFits ==
    ASSUME HostInv, GrantInv, Return
    PROVE  GrantInv'
  <1>. DEFINE q == PopCall(am)
              d == Len(frames) - 1
              r == Popped
              n == Len(frames)
  <1>1. /\ ~Idle /\ raised = "none" /\ Top.kind \in {"call", "try", "create"}
        /\ am' = q /\ frames' = r /\ raised' = "none" /\ nonces' = nonces
        /\ ledger' = ledger /\ used' = used
    BY DEF Return
  <1>2. IsManager(am)
    BY <1>1, RunningLemma
  <1>3. q.recording = am.recording
    BY <1>2, PopLemma DEF SameManager
  <1>4. CASE am.recording
    BY <1>1, <1>3, <1>4, FittingLemma
  <1>5. CASE ~am.recording
    <2>1. Enforcing
      BY <1>1, <1>5 DEF Enforcing
    <2>2. /\ GrantsFit(am, frames) /\ TrackersFit(am, frames, nonces, "none", ledger)
          /\ TrackersOK(am, frames, nonces, ledger, seq)
          /\ n \in Nat /\ n > 0 /\ (Top.kind = "host_fn" <=> n = 1)
      BY <1>1, <2>1, EnforcingFits
    <2>3. n > 1
      <3>. HIDE DEF n
      <3>. QED  BY <1>1, <2>2
    <2>4. q = PopCall(am) /\ d = Len(frames) - 1 /\ r = Popped
      OBVIOUS
    <2>. HIDE DEF q, d, r
    <2>5. Grown(frames, r, d, frames[d + 1].grants) /\ Len(r) = d /\ Len(frames) = d + 1
      BY <2>1, <2>3, <2>4, PoppedGrown
    <2>6. GrantsFit(q, r) /\ TrackersFit(q, r, nonces, "none", ledger)
      BY <1>2, <2>2, <2>4, <2>5, PopFits
    <2>7. Fitting(am', frames', nonces', raised', ledger)
      BY <1>1, <2>6 DEF Fitting
    <2>. QED  BY <1>1, <2>7, FittingLemma
  <1>. QED  BY <1>4, <1>5

\* The entry whose __check_auth returned is used by the frame below.
LEMMA CheckedFits ==
    ASSUME NEW m, IsManager(m), AccountsOK(m), NEW stack, NEW n, NEW l, GrantsFit(m, stack),
           TrackersFit(m, stack, n, "none", l), BorrowedFit(m, stack), NEW i, Pending(m, stack, i),
           EntrySigned(m.account[i]), IsSequence(stack), stack # <<>>, \A j \in DOMAIN stack : IsFrame(stack[j]),
           NEW q, q = Verified(m, i), NEW n2, DOMAIN n2 \subseteq DOMAIN n \cup {NonceKey(m.account[i])},
           NEW g, g = Grant(m, i, Len(stack)), NEW r, r = WithGrants(stack, {g})
    PROVE  GrantsFit(q, r) /\ TrackersFit(q, r, n2, "none", l)
  <1>. DEFINE v == m.account[i].invocation
              d == Len(stack)
              x == {g}
              e == "none"
              c == Len(MatchesOf(m, i))
  <1>1. i \in DOMAIN m.account /\ m.account[i].borrowed /\ CheckFits(m, stack, Len(stack) + 1, i)
    BY DEF Pending
  <1>2. /\ SameEntries(m, q) /\ q.call_stack = m.call_stack
        /\ q.account[i].verified /\ ~q.account[i].borrowed /\ q.account[i].invocation = v
        /\ \A k \in DOMAIN m.account : k # i => q.account[k] = m.account[k]
    BY <1>1, VerifiedLemma
  <1>3. Freed(m, q, i)
    <2>1. ASSUME NEW k \in DOMAIN m.account
          PROVE  /\ NodesOf(q, k) = NodesOf(m, k) /\ MatchesOf(q, k) = MatchesOf(m, k)
                 /\ q.account[k].borrowed <=> m.account[k].borrowed /\ k # i
      <3>1. CASE k = i
        BY <1>2, <3>1 DEF NodesOf, MatchesOf
      <3>2. CASE k # i
        BY <1>2, <3>2 DEF NodesOf, MatchesOf
      <3>. QED  BY <3>1, <3>2
    <2>. QED  BY <1>2, <2>1 DEF Freed
  <1>4. MatchesOf(m, i)[c] = {last_authorized_invocation(v)}
    <2>1. c > 0 /\ MatchesOf(m, i)[c] # Unmatched
      BY <1>1 DEF CheckFits
    <2>2. MatchesFit(m, stack, i)
      BY <1>1 DEF TrackersFit, TrackerFits
    <2>3. IsSequence(MatchesOf(m, i)) /\ c \in Nat /\ DOMAIN MatchesOf(m, i) = 1..c
      BY <2>2, SequenceLemma DEF MatchesFit
    <2>4. \A p \in 1..c : MatchFits(m, stack, i, p)
      BY <2>2 DEF MatchesFit
    <2>5. OneNode(MatchesOf(m, i))
      BY <2>3, <2>4 DEF OneNode, MatchFits
    <2>. HIDE DEF c
    <2>6. c \in 1..c
      BY <2>1, <2>3
    <2>7. PICK path : MatchesOf(m, i)[c] = {path}
      BY <2>1, <2>4, <2>6 DEF MatchFits
    <2>8. last_authorized_invocation(v) = path
      <3>1. IsSequence(v.match_stack) /\ OneNode(v.match_stack) /\ Len(v.match_stack) > 0
            /\ v.match_stack[Len(v.match_stack)] = {path}
        BY <2>1, <2>3, <2>5, <2>7 DEF MatchesOf, c
      <3>. HIDE DEF v
      <3>. QED  BY <3>1, LastReached
    <2>. QED  BY <2>7, <2>8
  <1>5. GrantOf(m, d, i, g)
    BY <1>4, GrantFields DEF GrantOf
  <1>6. Grown(stack, r, d, x) /\ Len(r) = d
    <2>1. Len(stack) \in Nat /\ DOMAIN stack = 1..Len(stack) /\ Len(stack) > 0
      BY SequenceLemma
    <2>2. /\ Below(r, stack, Len(stack))
          /\ \A j \in 1..Len(stack) - 1 : r[j].grants = stack[j].grants
          /\ r[Len(stack)].grants = stack[Len(stack)].grants \cup x
      <3>. HIDE DEF x
      <3>. QED  BY <2>1, GrantedLemma DEF x
    <2>. HIDE DEF x
    <2>3. IsSequence(r) /\ Len(r) = d /\ \A j \in 1..d : SameFrame(stack[j], r[j])
      BY <2>2 DEF Below
    <2>4. d \in Nat \ {0} /\ d <= Len(stack) /\ d <= Len(r)
      BY <2>1, <2>3
    <2>. QED  BY <2>2, <2>3, <2>4 DEF Grown
  <1>7. Consumed(q, n2, l, VerifiedEntries(q)) /\ \A k \in VerifiedEntries(q) : EntrySigned(q.account[k])
    <2>1. \A k \in DOMAIN m.account : q.account[k].verified <=> m.account[k].verified \/ k = i
      BY <1>2
    <2>. HIDE DEF e
    <2>. QED  BY <1>1, <1>2, <2>1, VerifiedMore
  <1>8. d = Len(stack) /\ x = {g} /\ e = "none"
    OBVIOUS
  <1>. HIDE DEF d, x, e, c, v
  <1>9. GrantsFit(q, r) /\ TrackersFit(q, r, n2, e, l)
    BY <1>3, <1>5, <1>6, <1>7, <1>8, UseFits
  <1>. QED  BY <1>8, <1>9

\* An entry is free again and not used.
LEMMA FreedFits ==
    ASSUME NEW m, NEW stack, NEW n, NEW l, GrantsFit(m, stack), TrackersFit(m, stack, n, "none", l),
           BorrowedFit(m, stack), NEW i, Pending(m, stack, i), NEW q, Freed(m, q, i),
           \A k \in DOMAIN m.account : q.account[k].verified = m.account[k].verified,
           IsSequence(stack), stack # <<>>, \A j \in DOMAIN stack : IsFrame(stack[j]), NEW e, e # "none"
    PROVE  GrantsFit(q, stack) /\ TrackersFit(q, stack, n, e, l)
  <1>. DEFINE d == Len(stack)
              none == {}
              g == 0
  <1>1. SameEntries(m, q)
    BY DEF Freed
  <1>2. Consumed(q, n, l, VerifiedEntries(q)) /\ \A k \in VerifiedEntries(q) : EntrySigned(q.account[k])
    BY <1>1, VerifiedKept
  <1>3. Grown(stack, stack, d, none)
    BY GrownSame
  <1>4. none = {} /\ d = Len(stack)
    OBVIOUS
  <1>. HIDE DEF d, none, g
  <1>. QED  BY <1>2, <1>3, <1>4, UseFits

\* __check_auth accepted, and the nonce could not be consumed.
LEMMA UncheckedFits ==
    ASSUME NEW m, IsManager(m), AccountsOK(m), NEW stack, NEW n, NEW l, GrantsFit(m, stack),
           TrackersFit(m, stack, n, "none", l), BorrowedFit(m, stack), NEW i, Pending(m, stack, i),
           IsSequence(stack), stack # <<>>, \A j \in DOMAIN stack : IsFrame(stack[j]),
           NEW q, q = Release(m, i), NEW e, e # "none"
    PROVE  GrantsFit(q, stack) /\ TrackersFit(q, stack, n, e, l)
  <1>1. i \in DOMAIN m.account /\ m.account[i].borrowed
    BY DEF Pending
  <1>2. /\ SameEntries(m, q) /\ q.call_stack = m.call_stack
        /\ q.account[i].verified = m.account[i].verified /\ ~q.account[i].borrowed
        /\ q.account[i].invocation = m.account[i].invocation
        /\ \A k \in DOMAIN m.account : k # i => q.account[k] = m.account[k]
    BY <1>1, BorrowFalse
  <1>3. Freed(m, q, i)
    <2>1. ASSUME NEW k \in DOMAIN m.account
          PROVE  /\ NodesOf(q, k) = NodesOf(m, k) /\ MatchesOf(q, k) = MatchesOf(m, k)
                 /\ q.account[k].borrowed <=> m.account[k].borrowed /\ k # i
      <3>1. CASE k = i
        BY <1>2, <3>1 DEF NodesOf, MatchesOf
      <3>2. CASE k # i
        BY <1>2, <3>2 DEF NodesOf, MatchesOf
      <3>. QED  BY <3>1, <3>2
    <2>. QED  BY <1>2, <2>1 DEF Freed
  <1>4. \A k \in DOMAIN m.account : q.account[k].verified = m.account[k].verified
    BY <1>2
  <1>. QED  BY <1>3, <1>4, FreedFits

\* What is left when a __check_auth returns: its entry is still borrowed.
LEMMA CheckPopped ==
    ASSUME HostInv, GrantInv, Enforcing, raised = "none", Top.kind = "check_auth",
           NEW i, i = Top.tracker, NEW m, m = PopCall(am), NEW r, r = Popped
    PROVE  /\ IsManager(m) /\ AccountsOK(m) /\ GrantsFit(m, r) /\ TrackersFit(m, r, nonces, "none", ledger)
           /\ BorrowedFit(m, r) /\ Pending(m, r, i) /\ EntrySigned(m.account[i])
           /\ i \in DOMAIN m.account /\ i # 0
           /\ IsSequence(r) /\ r # <<>> /\ \A j \in DOMAIN r : IsFrame(r[j])
  <1>. DEFINE n == Len(frames)
              d == n - 1
  <1>1. /\ IsManager(am) /\ AccountsOK(am)
        /\ GrantsFit(am, frames) /\ TrackersFit(am, frames, nonces, "none", ledger)
        /\ TrackersOK(am, frames, nonces, ledger, seq)
        /\ n \in Nat /\ n > 0 /\ (Top.kind = "host_fn" <=> n = 1)
        /\ Top = frames[n] /\ n \in DOMAIN frames /\ DOMAIN frames = 1..n
    BY EnforcingFits
  <1>2. n > 1
    <2>. HIDE DEF n
    <2>. QED  BY <1>1
  <1>3. d = Len(frames) - 1
    OBVIOUS
  <1>4. Grown(frames, r, d, frames[d + 1].grants) /\ Len(r) = d /\ Len(frames) = d + 1 /\ d \in Nat /\ d > 0
    <2>. HIDE DEF d
    <2>. QED  BY <1>2, <1>3, PoppedGrown
  <1>5. n = d + 1
    BY <1>4
  <1>. HIDE DEF n, d
  <1>6. /\ GrantsFit(m, r) /\ TrackersFit(m, r, nonces, "none", ledger)
        /\ frames[d + 1].kind = "check_auth" => CheckFits(m, r, d + 1, frames[d + 1].tracker)
    BY <1>1, <1>4, PopFits
  <1>7. frames[d + 1].kind = "check_auth" /\ frames[d + 1].tracker = i /\ CheckFits(m, r, d + 1, i)
    BY <1>1, <1>5, <1>6
  <1>8. i \in DOMAIN am.account /\ am.account[i].borrowed
    BY <1>1, <1>5, <1>7 DEF TrackersOK
  <1>9. SameManager(am, m)
    BY <1>1, PopLemma
  <1>10. /\ IsManager(m) /\ SameEntries(am, m) /\ AccountsOK(m) /\ DOMAIN m.account = DOMAIN am.account
         /\ \A k \in DOMAIN am.account : m.account[k].borrowed = am.account[k].borrowed
    BY <1>1, <1>9 DEF SameManager, SameEntries, SameStatus
  <1>11. /\ IsSequence(r) /\ DOMAIN r = 1..d /\ r # <<>>
         /\ \A j \in 1..d : SameFrame(frames[j], r[j]) /\ IsFrame(r[j])
    <2>1. IsSequence(r) /\ \A j \in 1..d : SameFrame(frames[j], r[j])
      BY <1>4 DEF Grown
    <2>. QED  BY <1>4, <2>1, SequenceLemma DEF SameFrame
  <1>12. \A c \in 1..d : c \in DOMAIN frames /\ d + 1 # c /\ d + 1 \in DOMAIN frames
    BY <1>1, <1>4, <1>5
  <1>13. \A c \in DOMAIN r : ~Checks(r[c], i)
    <2>1. ASSUME NEW c \in 1..d, Checks(r[c], i) PROVE FALSE
      <3>1. frames[c].kind = "check_auth" /\ frames[c].tracker = i
        BY <1>11, <2>1 DEF SameFrame, Checks
      <3>. QED  BY <1>1, <1>7, <1>12, <3>1 DEF TrackersOK
    <2>. QED  BY <1>11, <2>1
  <1>14. BorrowedFit(m, r)
    <2>1. ASSUME NEW c \in DOMAIN r, r[c].kind = "check_auth"
          PROVE  r[c].tracker \in DOMAIN m.account /\ m.account[r[c].tracker].borrowed
      <3>1. c \in DOMAIN frames /\ frames[c].kind = "check_auth" /\ frames[c].tracker = r[c].tracker
        BY <1>11, <1>12, <2>1 DEF SameFrame
      <3>2. frames[c].tracker \in DOMAIN am.account /\ am.account[frames[c].tracker].borrowed
        BY <1>1, <3>1 DEF TrackersOK
      <3>. QED  BY <1>10, <3>1, <3>2
    <2>2. ASSUME NEW k \in DOMAIN m.account, m.account[k].borrowed
          PROVE  Len(MatchesOf(m, k)) + 1 <= Len(r)
      <3>. DEFINE w == Len(MatchesOf(m, k))
      <3>1. MatchesFit(m, r, k)
        BY <1>6 DEF TrackersFit, TrackerFits
      <3>2. w \in Nat
        BY <3>1, SequenceLemma DEF MatchesFit
      <3>3. CASE k = i
        <4>1. w + 2 = d + 1
          BY <1>7, <3>3 DEF CheckFits
        <4>. HIDE DEF w
        <4>2. w + 1 <= d
          BY <1>4, <3>2, <4>1
        <4>. QED  BY <1>4, <4>2 DEF w
      <3>4. CASE k # i
        <4>1. PICK c \in DOMAIN frames : Checks(frames[c], k)
          BY <1>1, <1>10, <2>2, BorrowedLemma
        <4>2. c \in 1..d
          <5>1. c \in 1..d + 1 /\ c # d + 1
            BY <1>1, <1>5, <1>7, <3>4, <4>1 DEF Checks
          <5>. QED  BY <1>4, <5>1
        <4>3. r[c].kind = "check_auth" /\ r[c].tracker = k
          BY <1>11, <4>1, <4>2 DEF SameFrame, Checks
        <4>4. CheckFits(m, r, c, k)
          BY <1>6, <1>11, <4>2, <4>3 DEF TrackersFit
        <4>5. w + 2 = c
          BY <4>4 DEF CheckFits
        <4>. HIDE DEF w
        <4>6. w + 1 <= d
          BY <1>4, <3>2, <4>2, <4>5
        <4>. QED  BY <1>4, <4>6 DEF w
      <3>. QED  BY <3>3, <3>4
    <2>. QED  BY <2>1, <2>2 DEF BorrowedFit
  <1>15. Pending(m, r, i)
    BY <1>4, <1>7, <1>8, <1>10, <1>13 DEF Pending
  <1>16. EntrySigned(m.account[i])
    <2>1. am.account[i].invocation.address \notin ClassicAccounts
      BY <1>1, <1>5, <1>7 DEF TrackersFit
    <2>. QED  BY <1>8, <1>10, <2>1 DEF EntrySigned, SameEntries, SameEntry
  <1>17. i # 0
    BY <1>1, <1>8 DEF AccountsOK
  <1>. QED  BY <1>6, <1>8, <1>10, <1>11, <1>14, <1>15, <1>16, <1>17

LEMMA CheckAuthReturnFits ==
    ASSUME HostInv, GrantInv, CheckAuthReturn
    PROVE  GrantInv'
  <1>. DEFINE i == Top.tracker
              m == PopCall(am)
              t == m.account[i]
              p == Release(m, i)
              v == Verified(m, i)
              n == verify_and_consume_nonce(t, nonces, seq)
              r == Popped
              g == Grant(m, i, Len(r))
              w == WithGrants(r, {g})
              e == raised'
  <1>1. /\ ~Idle /\ raised = "none" /\ Top.kind = "check_auth"
        /\ ledger' = ledger /\ used' = used
        /\ \/ /\ am' = v /\ frames' = Granted(r, m, i) /\ nonces' = n /\ e = "none"
           \/ am' = p /\ frames' = r /\ nonces' = nonces /\ e = NonceError(t)
    BY DEF CheckAuthReturn, Running, Release
  <1>2. ~am.recording
    <2>1. Sound(am, frames, nonces, "none", ledger, seq)
      BY <1>1, RunningLemma
    <2>2. Top = frames[Len(frames)] /\ Len(frames) \in DOMAIN frames
      BY <1>1, TopLemma
    <2>. QED  BY <1>1, <2>1, <2>2 DEF Sound, NoGrants
  <1>3. Enforcing
    BY <1>1, <1>2 DEF Enforcing
  <1>4. Granted(r, m, i) = IF i = 0 THEN r ELSE w
    BY DEF Granted, WithGrants
  <1>5. /\ i = Top.tracker /\ m = PopCall(am) /\ r = Popped /\ p = Release(m, i) /\ v = Verified(m, i)
        /\ g = Grant(m, i, Len(r)) /\ w = WithGrants(r, {g})
    OBVIOUS
  <1>6. NonceError(t) # "none"
    BY DEF NonceError
  <1>7. t = m.account[i] /\ DOMAIN n \subseteq DOMAIN nonces \cup {NonceKey(t)}
    BY DEF verify_and_consume_nonce, consume_nonce
  <1>. HIDE DEF i, m, t, p, v, n, r, g, w, e
  <1>8. /\ IsManager(m) /\ AccountsOK(m) /\ GrantsFit(m, r) /\ TrackersFit(m, r, nonces, "none", ledger)
        /\ BorrowedFit(m, r) /\ Pending(m, r, i) /\ EntrySigned(m.account[i])
        /\ i \in DOMAIN m.account /\ i # 0
        /\ IsSequence(r) /\ r # <<>> /\ \A j \in DOMAIN r : IsFrame(r[j])
    BY <1>1, <1>3, <1>5, CheckPopped
  <1>9. CASE am' = p /\ frames' = r /\ nonces' = nonces /\ e = NonceError(t)
    <2>1. GrantsFit(p, r) /\ TrackersFit(p, r, nonces, e, ledger)
      BY <1>5, <1>6, <1>8, <1>9, UncheckedFits
    <2>2. Fitting(am', frames', nonces', raised', ledger)
      BY <1>9, <2>1, Zenon DEF Fitting, e
    <2>. QED  BY <1>1, <2>2, FittingLemma
  <1>10. CASE am' = v /\ frames' = Granted(r, m, i) /\ nonces' = n /\ e = "none"
    <2>1. DOMAIN n \subseteq DOMAIN nonces \cup {NonceKey(m.account[i])}
      BY <1>7
    <2>2. GrantsFit(v, w) /\ TrackersFit(v, w, n, "none", ledger)
      BY <1>5, <1>8, <2>1, CheckedFits
    <2>3. frames' = w /\ raised' = "none"
      BY <1>4, <1>8, <1>10 DEF e
    <2>4. Fitting(am', frames', nonces', raised', ledger)
      BY <1>10, <2>2, <2>3, Zenon DEF Fitting
    <2>. QED  BY <1>1, <2>4, FittingLemma
  <1>. QED  BY <1>1, <1>9, <1>10

\* The entries of a transaction: nothing matched, and their signatures are by keys.
LEMMA NewEntries ==
    ASSUME NEW m \in NewManagers, ~m.recording
    PROVE  /\ m.call_stack = <<>>
           /\ \A k \in DOMAIN m.account :
                 MatchesOf(m, k) = <<>> /\ NodesOf(m, k) = {} /\ SignaturesOK(m.account[k])
  <1>1. m # new_recording
    BY DEF new_recording
  <1>2. PICK entries \in EntrySets : m = new_enforcing(entries)
    BY <1>1, Zenon DEF NewManagers
  <1>. DEFINE a == [i \in DOMAIN entries |-> from_authorization_entry(entries[i])]
  <1>3. m = [recording |-> FALSE, call_stack |-> <<>>, invoker |-> <<>>, by_handle |-> <<>>,
             account |-> a]
    BY <1>2 DEF new_enforcing
  <1>4. DOMAIN a = DOMAIN entries /\ \A i \in DOMAIN a : a[i] = from_authorization_entry(entries[i])
    OBVIOUS
  <1>. HIDE DEF a
  <1>5. m.call_stack = <<>> /\ m.account = a
    BY <1>3
  <1>6. ASSUME NEW i \in DOMAIN entries
        PROVE  /\ a[i].invocation.match_stack = <<>> /\ a[i].invocation.exhausted = {}
               /\ SignaturesOK(a[i])
    <2>. DEFINE x == entries[i]
                s == entries[i].signatures
                v == NewTracker(x.address, x.tree)
                t == from_authorization_entry(x)
    <2>1. t = [invocation |-> v, verified |-> FALSE, borrowed |-> FALSE, source |-> x.source,
               nonce |-> x.nonce, expiration |-> x.expiration, signatures |-> s]
      BY DEF from_authorization_entry
    <2>2. v.match_stack = <<>> /\ v.exhausted = {} /\ v.address = x.address
      BY DEF NewTracker
    <2>3. x.address \in ClassicAccounts =>
             DOMAIN s = 1..Len(s) /\ \A j \in DOMAIN s : s[j].key \in Keys
      BY CallsAssumption, Zenon
    <2>4. a[i] = t
      BY <1>4
    <2>. HIDE DEF x, s, v, t
    <2>5. t.invocation = v /\ t.signatures = s
      BY <2>1
    <2>. QED  BY <2>2, <2>3, <2>4, <2>5, Zenon DEF SignaturesOK
  <1>. QED  BY <1>4, <1>5, <1>6 DEF MatchesOf, NodesOf

\* The host function's frame, alone on the stack.
LEMMA FirstFits ==
    ASSUME NEW m \in NewManagers, ~m.recording, NEW h, IsFrame(h), h.kind = "host_fn", h.snap = snapshot(m),
           h.grants = {}, NEW l, h.nonces = l,
           NEW z, IsSequence(z), Len(z) = 1, \A j \in DOMAIN z : z[j] = h
    PROVE  GrantsFit(m, z) /\ TrackersFit(m, z, l, "none", l) /\ BorrowedFit(m, z)
  <1>. DEFINE empty == <<>>
  <1>1. DOMAIN z = 1..1
    BY SequenceLemma
  <1>2. IsSequence(empty) /\ Len(empty) = 0 /\ DOMAIN empty = {} /\ empty = <<>>
    <2>1. DOMAIN empty = {} /\ Len(empty) = 0
      OBVIOUS
    <2>2. empty \in Seq({empty[i] : i \in DOMAIN empty})
      BY EmptySeq, Zenon
    <2>. QED  BY <2>1, <2>2, Zenon DEF IsSequence
  <1>. HIDE DEF empty
  <1>3. z[1] = h /\ \A j \in DOMAIN z : j = 1 /\ z[j] = h
    BY <1>1
  <1>4. /\ AccountsOK(m) /\ m.call_stack = empty
        /\ \A k \in DOMAIN m.account :
              /\ ~m.account[k].verified /\ ~m.account[k].borrowed /\ SignaturesOK(m.account[k])
              /\ MatchesOf(m, k) = empty /\ NodesOf(m, k) = {}
    BY <1>2, NewManager, NewEntries
  <1>5. \A k \in DOMAIN m.account : h.snap.account[k].verified = m.account[k].verified
    BY SnapshotLemma
  <1>6. \A k \in DOMAIN m.account : h.snap.account[k].exhausted = {}
    BY <1>4, SnapshotNodes
  <1>7. \A k : PathsUpTo(z, k, 0) = {} /\ PathsUpTo(z, k, 1) = {}
    BY <1>3 DEF PathsUpTo
  <1>8. GrantsFit(m, z)
    <2>1. \A k \in DOMAIN m.account : m.account[k].verified \in BOOLEAN
      BY <1>4 DEF AccountsOK, IsEntry
    <2>2. FrameFits(m, h)
      BY <1>5, <2>1 DEF FrameFits
    <2>. QED  BY <1>3, <1>4, <2>2 DEF GrantsFit
  <1>9. BorrowedFit(m, z)
    BY <1>3, <1>4 DEF BorrowedFit
  <1>10. CallsFit(m, z)
    BY <1>2, <1>3, <1>4 DEF CallsFit
  <1>11. ASSUME NEW k \in DOMAIN m.account
         PROVE  TrackerFits(m, z, "none", k)
    <2>1. MatchesFit(m, z, k) /\ Held(m, z, k)
      BY <1>2, <1>4 DEF MatchesFit, Held
    <2>2. Settled(m, z, k)
      BY <1>3, <1>4, <1>7, <2>1 DEF Settled
    <2>. QED  BY <1>2, <1>3, <1>4, <2>1, <2>2 DEF TrackerFits
  <1>12. \A V : Consumed(m, l, l, V)
    BY DEF Consumed
  <1>13. VerifiedEntries(m) = {}
    BY <1>4 DEF VerifiedEntries
  <1>14. ASSUME NEW j \in DOMAIN z
         PROVE  RestoreFits(m, z, j, l)
    <2>1. j = 1 /\ z[j] = h
      BY <1>3
    <2>2. RestoredEntries(m, h) = {}
      BY <1>4, <1>5 DEF RestoredEntries
    <2>3. \A k \in DOMAIN m.account : h.snap.account[k].exhausted = PathsUpTo(z, k, j - 1)
      <3>1. j - 1 = 0
        BY <2>1
      <3>. QED  BY <1>6, <1>7, <3>1
    <2>4. Consumed(m, h.nonces, l, RestoredEntries(m, h))
      BY <1>12
    <2>. QED  BY <2>1, <2>2, <2>3, <2>4 DEF RestoreFits
  <1>15. \A c \in DOMAIN z : z[c].kind # "check_auth"
    BY <1>3
  <1>16. TrackersFit(m, z, l, "none", l)
    BY <1>10, <1>11, <1>12, <1>13, <1>14, <1>15 DEF TrackersFit
  <1>. QED  BY <1>8, <1>9, <1>16

LEMMA InvokeFits ==
    ASSUME NEW m \in NewManagers, NEW fn, HostInv, GrantInv, InvokeContract(m, fn)
    PROVE  GrantInv'
  <1>. DEFINE q == PushCall(m, fn)
  <1>1. /\ IsManager(m)
        /\ ~m.recording => \A k \in DOMAIN m.account : ~m.account[k].borrowed
    BY NewManager
  <1>2. SameManager(m, q)
    BY <1>1, PushLemma
  <1>3. q = PushCall(m, fn)
    OBVIOUS
  <1>. HIDE DEF q
  <1>4. /\ am' = q /\ nonces' = ledger /\ raised' = "none" /\ ledger' = ledger /\ used' = used
        /\ \E h, f, z : z = <<h>> /\ Started(m, fn, q, h, f) /\ frames' = Append(z, f)
    BY <1>3, StartedLemma
  <1>5. PICK h, f, z : z = <<h>> /\ Started(m, fn, q, h, f) /\ frames' = Append(z, f)
    BY <1>4
  <1>6. CASE m.recording
    <2>1. am'.recording
      BY <1>2, <1>4, <1>6 DEF SameManager
    <2>. QED  BY <1>4, <2>1, FittingLemma
  <1>7. CASE ~m.recording
    <2>1. /\ IsFrame(h) /\ h.kind = "host_fn" /\ h.snap = snapshot(m) /\ h.grants = {} /\ h.nonces = ledger
          /\ f.kind = "call" /\ f.fn = fn /\ f.snap = snapshot(q) /\ f.grants = {} /\ f.nonces = ledger
      BY <1>5 DEF Started
    <2>2. IsSequence(z) /\ Len(z) = 1 /\ z # <<>> /\ \A j \in DOMAIN z : z[j] = h
      <3>1. DOMAIN z = 1..1 /\ z = [j \in 1..1 |-> z[j]] /\ z[1] = h /\ z # <<>>
        BY <1>5
      <3>2. IsSequence(z) /\ Len(z) = 1
        BY <3>1, AnySequence
      <3>. QED  BY <3>1, <3>2
    <2>3. GrantsFit(m, z) /\ TrackersFit(m, z, ledger, "none", ledger) /\ BorrowedFit(m, z)
      BY <1>7, <2>1, <2>2, FirstFits
    <2>4. PushFits(m, z, ledger, ledger, fn, f, q)
      BY <1>1, <1>3, <1>7, <2>1, <2>2, <2>3 DEF PushFits
    <2>5. GrantsFit(q, Append(z, f)) /\ TrackersFit(q, Append(z, f), ledger, "none", ledger)
      BY <2>4, PushedFits
    <2>6. Fitting(am', frames', nonces', raised', ledger)
      BY <1>4, <1>5, <2>5, Zenon DEF Fitting
    <2>. QED  BY <1>4, <2>6, FittingLemma
  <1>. QED  BY <1>6, <1>7

\* What a transaction used when it succeeds was signed.
LEMMA CommitFits ==
    ASSUME HostInv, GrantInv, Commit
    PROVE  GrantInv'
  <1>1. /\ ~Idle /\ raised = "none" /\ frames' = <<>>
        /\ \A u \in used' :
              u \in used \/ \E g \in Top.grants : ~g.source /\ u.address = g.address /\ u.keys = g.keys
    BY DEF Commit
  <1>2. ASSUME NEW g \in Top.grants
        PROVE  GrantSigned(g)
    <2>1. Sound(am, frames, nonces, "none", ledger, seq)
      BY <1>1, RunningLemma
    <2>2. Top = frames[Len(frames)] /\ Len(frames) \in DOMAIN frames
      BY <1>1, TopLemma
    <2>3. ~am.recording
      BY <1>2, <2>1, <2>2 DEF Sound, NoGrants
    <2>4. GrantsFit(am, frames)
      BY <1>1, <2>3, EnforcingFits DEF Enforcing
    <2>. QED  BY <1>2, <2>2, <2>4 DEF GrantsFit, GrantFits
  <1>3. QuorumSigned <=> \A u \in used : u.address \in ClassicAccounts => QuorumOf(u.address, u.keys)
    BY Zenon DEF QuorumSigned, QuorumOf
  <1>4. QuorumSigned' <=> \A u \in used' : u.address \in ClassicAccounts => QuorumOf(u.address, u.keys)
    BY Zenon DEF QuorumSigned, QuorumOf
  <1>5. QuorumSigned'
    <2>1. QuorumSigned
      BY DEF GrantInv
    <2>2. ASSUME NEW u \in used', u.address \in ClassicAccounts
          PROVE  QuorumOf(u.address, u.keys)
      <3>1. CASE u \in used
        BY <1>3, <2>1, <2>2, <3>1
      <3>2. CASE \E g \in Top.grants : ~g.source /\ u.address = g.address /\ u.keys = g.keys
        <4>1. PICK g \in Top.grants : ~g.source /\ u.address = g.address /\ u.keys = g.keys
          BY <3>2
        <4>2. GrantSigned(g)
          BY <1>2
        <4>. QED  BY <2>2, <4>1, <4>2 DEF GrantSigned
      <3>. QED  BY <1>1, <3>1, <3>2
    <2>. QED  BY <1>4, <2>2
  <1>. QED  BY <1>1, <1>5 DEF GrantInv, Idle

LEMMA InitFits == Init => GrantInv
  BY DEF Init, GrantInv, QuorumSigned, Idle

\* Between transactions, and when nothing happens.
LEMMA IdleFits ==
    ASSUME GrantInv, Idle, frames' = frames, used' = used
    PROVE  GrantInv'
  BY DEF GrantInv, QuorumSigned, Idle

LEMMA NextFits ==
    ASSUME HostInv, GrantInv, Next
    PROVE  GrantInv'
  <1>1. CASE \E m \in NewManagers, fn \in Functions : InvokeContract(m, fn)
    BY <1>1, InvokeFits
  <1>2. CASE \E fn \in Functions, kind \in {"call", "try"} : Call(fn, kind)
    BY <1>2, CallFits
  <1>3. CASE \E fn \in Functions : CallRefused(fn)
    BY <1>3, FailFits DEF CallRefused, Step, Running
  <1>4. CASE \E tree \in InvokerTrees : AuthorizeAsCurrContract(tree)
    BY <1>4, AuthorizeFits
  <1>5. CASE \E object \in Objects : RequireAuth(object)
    BY <1>5, RequireAuthFits
  <1>6. CASE \E object \in Objects : CreateContract(object)
    BY <1>6, CreateFits
  <1>7. CASE Fail
    BY <1>7, FailFits DEF Fail, Running
  <1>8. CASE Return
    BY <1>8, ReturnFits
  <1>9. CASE CheckAuthReturn
    BY <1>9, CheckAuthReturnFits
  <1>10. CASE Unwind
    BY <1>10, UnwindFits
  <1>11. CASE Commit
    BY <1>11, CommitFits
  <1>12. CASE CloseLedger
    BY <1>12, IdleFits DEF CloseLedger
  <1>. QED  BY <1>1, <1>2, <1>3, <1>4, <1>5, <1>6, <1>7, <1>8, <1>9, <1>10, <1>11, <1>12 DEF Next

LEMMA StutterFits ==
    ASSUME GrantInv, UNCHANGED vars
    PROVE  GrantInv'
  <1>1. /\ am' = am /\ frames' = frames /\ raised' = raised /\ nonces' = nonces
        /\ ledger' = ledger /\ used' = used
    BY DEF vars
  <1>2. ~Idle => Fitting(am', frames', nonces', raised', ledger)
    BY <1>1 DEF GrantInv
  <1>. QED  BY <1>1, <1>2, FittingLemma DEF Idle

\* Whatever contracts call, require, authorize, recover from or leave to fail: every match
\* state of an entry is one of the frames on the stack, and every frame was granted what it
\* matched; the nodes an entry has used are those the frames hold, and what a frame would
\* roll back to are those the frames below it hold; a consumed nonce has a verified entry,
\* and a verified entry of a classic account the signatures of a quorum.
THEOREM GrantInvariant == Spec => []GrantInv
  <1>1. Init => GrantInv
    BY InitFits
  <1>2. HostInv /\ GrantInv /\ [Next]_vars => GrantInv'
    BY NextFits, StutterFits
  <1>. QED  BY <1>1, <1>2, HostInvariant, PTL DEF Spec

LEMMA InContextLemma ==
    ASSUME HostInv, GrantInv
    PROVE  GrantedInContext
  <1>1. ASSUME NEW i \in DOMAIN frames, NEW g \in OwnGrants(i)
        PROVE  /\ am.account[g.tracker].invocation.tree[g.path] = frames[i].fn
               /\ g.path # <<>> => \E j \in 1..i - 1 : \E h \in OwnGrants(j) :
                                      h.tracker = g.tracker /\ h.path = Front(g.path)
    <2>1. g \in frames[i].grants /\ g.depth = i
      BY <1>1 DEF OwnGrants
    <2>2. ~Idle
      BY DEF Idle
    <2>3. ~am.recording
      <3>1. Sound(am, frames, nonces, raised, ledger, seq)
        BY DEF HostInv
      <3>. QED  BY <2>1, <3>1 DEF Sound, NoGrants
    <2>4. GrantsFit(am, frames)
      BY <2>2, <2>3, EnforcingFits DEF Enforcing
    <2>5. InContext(am, frames, g.tracker, g.path, i)
      BY <2>1, <2>4 DEF GrantsFit, GrantFits
    <2>. QED  BY <2>5 DEF InContext, OwnGrants
  <1>2. QuorumSigned
    BY DEF GrantInv
  <1>. QED  BY <1>1, <1>2 DEF GrantedInContext

LEMMA SurviveLemma ==
    ASSUME HostInv, GrantInv
    PROVE  GrantsSurviveExactly
  <1>. SUFFICES ASSUME raised = "none", ~Idle, ~am.recording, NEW k \in DOMAIN am.account
                PROVE  LET t == am.account[k]
                       IN  /\ ~t.borrowed => t.invocation.exhausted = GrantsOf(k)
                           /\ t.verified => t.source \/ NonceKey(t) \in DOMAIN nonces \ DOMAIN ledger
                           /\ ~t.source /\ NonceKey(t) \in DOMAIN nonces \ DOMAIN ledger =>
                                   \E l \in DOMAIN am.account :
                                       am.account[l].verified /\ NonceKey(am.account[l]) = NonceKey(t)
    BY DEF GrantsSurviveExactly
  <1>. DEFINE t == am.account[k]
  <1>1. /\ TrackersFit(am, frames, nonces, "none", ledger) /\ TrackersOK(am, frames, nonces, ledger, seq)
        /\ DOMAIN frames = 1..Len(frames)
    BY EnforcingFits DEF Enforcing
  <1>2. ~t.borrowed => t.invocation.exhausted = GrantsOf(k)
    <2>1. TrackerFits(am, frames, "none", k)
      BY <1>1 DEF TrackersFit
    <2>2. ~t.borrowed => NodesOf(am, k) = PathsUpTo(frames, k, Len(frames))
      BY <2>1 DEF TrackerFits, Settled
    <2>3. PathsUpTo(frames, k, Len(frames)) = GrantsOf(k)
      BY <1>1 DEF PathsUpTo, GrantsOf
    <2>. QED  BY <2>2, <2>3 DEF NodesOf
  <1>3. t.verified => t.source \/ NonceKey(t) \in DOMAIN nonces \ DOMAIN ledger
    BY <1>1 DEF TrackersOK, EntryBacked, Backed
  <1>4. ~t.source /\ NonceKey(t) \in DOMAIN nonces \ DOMAIN ledger =>
            \E l \in DOMAIN am.account : am.account[l].verified /\ NonceKey(am.account[l]) = NonceKey(t)
    BY <1>1 DEF TrackersFit, Consumed, VerifiedEntries
  <1>. QED  BY <1>2, <1>3, <1>4

\* A node of an entry authorizes the function it names and only below the call its parent
\* authorized, and an account's entry only with the signatures of its quorum
\* (maybe_extend_invocation_match, check_account_authentication), for any contracts,
\* trees, signers and depths of calls, across try_call, rollback and __check_auth.
THEOREM ContextCorrect == Spec => []GrantedInContext
  <1>1. HostInv /\ GrantInv => GrantedInContext
    BY InContextLemma
  <1>. QED  BY <1>1, HostInvariant, GrantInvariant, PTL

\* Rolling a frame back gives back exactly the nodes it used, and an entry is verified
\* exactly while its nonce is consumed by this transaction (rollback_tracker, and the
\* storage that a frame's rollback point restores).
THEOREM RollbackCorrect == Spec => []GrantsSurviveExactly
  <1>1. HostInv /\ GrantInv => GrantsSurviveExactly
    BY SurviveLemma
  <1>. QED  BY <1>1, HostInvariant, GrantInvariant, PTL
=============================================================================
