------------------------------ MODULE Soroban ------------------------------
(***************************************************************************)
(* What every contract of this project takes from its host: the timestamp  *)
(* of the ledger and the authorization of addresses.                       *)
(*                                                                         *)
(* A Soroban invocation that returns an error or traps is rolled back as a *)
(* whole, so an action of a contract is enabled exactly when the call       *)
(* succeeds and every early return of the code is a conjunct of its guard. *)
(***************************************************************************)
EXTENDS Integers, FiniteSets

CONSTANTS
    Accounts,       \* addresses that can authorize an invocation (classic or smart accounts)
    SignerSets,     \* the sets of accounts that may be the ones that sign
    MaxTimestamp    \* the largest timestamp: arithmetic above it traps (overflow-checks)

VARIABLES
    now,            \* timestamp of the current ledger
    signing         \* the accounts whose keys sign in this behaviour; the others never do

ASSUME HostAssumption ==
    /\ SignerSets \subseteq SUBSET Accounts
    /\ MaxTimestamp \in Nat

\* addr.require_auth() for an account; a contract that is not the invoker fails it.
require_auth(a) == a \in signing

HostInit == now = 0 /\ signing \in SignerSets

\* The next ledger closes with a later timestamp.
CloseLedger == now < MaxTimestamp /\ now' = now + 1 /\ UNCHANGED signing
=============================================================================
