--------------------------- MODULE StellarLedger ---------------------------
(***************************************************************************)
(* The ledger the escrow and the pools run on: the host's clock and          *)
(* signatures, and the balances of the one configured Stellar Asset        *)
(* Contract token (soroban-env-host-patch, builtin stellar_asset_contract). *)
(***************************************************************************)
EXTENDS Soroban

CONSTANTS
    Contracts,      \* contract addresses: they authorize only what their own code calls
    Capacity,       \* most that an address can hold: trustline limit, or i128::MAX
    PaymentAmounts, \* amounts of direct transfers and clawbacks that are explored
    InitialBalances, \* the balances a behaviour may start from
    Payers,         \* accounts that make direct transfers
    Payees,         \* addresses that receive them
    Freezable,      \* addresses the issuer may deauthorize: {} unless AUTH_REVOCABLE
    Clawable,       \* addresses the issuer may claw back from: {} unless clawback is enabled
    MaxClawed       \* bound on the total clawed back from one address

VARIABLES
    balance,     \* the token's balance of every address
    authorized,  \* the addresses whose balance is authorized
    clawed       \* history: total the issuer has clawed back from every address

ledgerVars == <<now, signing, balance, authorized, clawed>>

Holders == Accounts \cup Contracts

ASSUME AddressAssumption ==
    /\ Accounts \cap Contracts = {}
    /\ IsFiniteSet(Holders)
    /\ Capacity \in [Holders -> Nat]
    /\ InitialBalances \subseteq [Holders -> Nat]
    /\ Payers \subseteq Accounts
    /\ Payees \subseteq Holders
    /\ Freezable \subseteq Holders
    /\ Clawable \subseteq Holders

ASSUME BoundAssumption ==
    /\ PaymentAmounts \subseteq Nat
    /\ MaxClawed \in Nat

LedgerTypeOK ==
    /\ now \in 0..MaxTimestamp
    /\ signing \subseteq Accounts
    /\ balance \in [Holders -> Nat]
    /\ authorized \subseteq Holders
    /\ clawed \in [Holders -> Nat]

----------------------------------------------------------------------------
(* transfer: spend_balance and then receive_balance, on a ledger b that may *)
(* be an intermediate one of the invocation.                               *)

SpendBalance(b, h, a) == [b EXCEPT ![h] = @ - a]

ReceiveBalance(b, h, a) == [b EXCEPT ![h] = @ + a]

CanSpend(b, h, a) == h \in authorized /\ b[h] >= a

CanReceive(b, h, a) == h \in authorized /\ b[h] + a <= Capacity[h]

CanTransfer(b, from, to, a) ==
    /\ a >= 0
    /\ CanSpend(b, from, a)
    /\ CanReceive(SpendBalance(b, from, a), to, a)

Transfer(b, from, to, a) == ReceiveBalance(SpendBalance(b, from, a), to, a)

----------------------------------------------------------------------------
(* Steps of the environment.                                               *)

LedgerInit ==
    /\ HostInit
    /\ balance \in InitialBalances
    /\ authorized = Holders
    /\ clawed = [h \in Holders |-> 0]

Tick == CloseLedger /\ UNCHANGED <<balance, authorized, clawed>>

\* A direct transfer of the token, which no TogetherFi contract takes part in.
Pay(from, to, a) ==
    /\ require_auth(from)
    /\ CanTransfer(balance, from, to, a)
    /\ balance' = Transfer(balance, from, to, a)
    /\ UNCHANGED <<now, signing, authorized, clawed>>

\* The issuer takes tokens back; a deauthorized balance can be clawed back too.
Clawback(h, a) ==
    /\ h \in Clawable
    /\ balance[h] >= a
    /\ clawed[h] + a <= MaxClawed
    /\ balance' = SpendBalance(balance, h, a)
    /\ clawed' = [clawed EXCEPT ![h] = @ + a]
    /\ UNCHANGED <<now, signing, authorized>>

\* The issuer freezes or releases a balance.
SetAuthorized(h, authorize) ==
    /\ h \in Freezable
    /\ authorized' = IF authorize THEN authorized \cup {h} ELSE authorized \ {h}
    /\ UNCHANGED <<now, signing, balance, clawed>>

LedgerNext ==
    \/ Tick
    \/ \E from \in Payers, to \in Payees, a \in PaymentAmounts : Pay(from, to, a)
    \/ \E h \in Holders, a \in PaymentAmounts : Clawback(h, a)
    \/ \E h \in Holders, authorize \in BOOLEAN : SetAuthorized(h, authorize)
=============================================================================
