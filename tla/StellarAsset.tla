---------------------------- MODULE StellarAsset ----------------------------
(***************************************************************************)
(* The Stellar Asset Contract, the token that the escrow and the pools hold:  *)
(* builtin_contracts/stellar_asset_contract of the patched host.            *)
(*                                                                         *)
(* An operation takes the token's state and returns the set of states it can *)
(* end in: {} when it fails, one state otherwise.  An optional value is a    *)
(* set, too.  Balances of accounts are kept by the classic ledger (account   *)
(* entries for the native asset, trustlines for the others), those of       *)
(* contracts in the token's own persistent data, allowances in temporary    *)
(* data.                                                                   *)
(***************************************************************************)
EXTENDS Totals, Sequences

CONSTANTS
    Accounts, Contracts,    \* addresses
    Issuer,                 \* the account that issued the asset
    Assets,                 \* kinds explored: "native", "alphanum4", "alphanum12"
    I64Max, I128Max,        \* the largest amounts of each width
    BaseReserve,            \* of an account entry, for each of its entries
    AccountEntries,         \* classic account entries a behaviour may start from
    TrustLines,             \* trustlines a behaviour may start from
    LineLimit,              \* the limits they have
    IssuerFlags,            \* {the flags of the issuer's account}, or {} without the account
    Amounts,                \* amounts of the operations explored
    Untils,                 \* live_until arguments explored
    Delegations,            \* pairs <<from, spender>> that are approved
    MinTempTtl, MaxTtl,     \* lives in ledgers, of the network
    Signers,                \* addresses that authorize operations
    MaxSeq, MaxOps          \* bounds: ledgers, operations

VARIABLES
    token,      \* [asset, admin, flags, accounts, lines, balances, allowances]
    seq,        \* ledger sequence number
    ops,        \* operations so far
    issued,     \* history: amounts that came from the issuer minus those that went back
    granted,    \* history: what every spender may still spend, and until when
    lapsing     \* history: pairs whose zero approval named a later ledger

vars == <<token, seq, ops, issued, granted, lapsing>>

Addresses == Accounts \cup Contracts

ASSUME TokenAssumption ==
    /\ Issuer \in Accounts /\ Accounts \cap Contracts = {} /\ IsFiniteSet(Addresses)
    /\ I64Max \in Nat /\ I128Max \in Nat /\ I64Max <= I128Max
    /\ MaxTtl \in Nat /\ MinTempTtl \in 1..MaxTtl
    /\ Signers \subseteq Addresses /\ Delegations \subseteq Addresses \X Addresses
    /\ "none" \notin Assets /\ Amounts \subseteq Int /\ Untils \subseteq Nat

\* Classic account entries and trustlines: their amounts are not negative.
AccountEntry ==
    [balance : Nat, sub_entries : Nat, sponsoring : Nat, sponsored : Nat, selling : Nat, buying : Nat]

TrustLine ==
    [balance : Nat, limit : Nat, selling : Nat, buying : Nat,
     authorized : BOOLEAN, maintain : BOOLEAN, clawback : BOOLEAN]

AtMostOne(S) == \A x, y \in S : x = y

\* What the classic ledger guarantees of its entries: an account has one at most, no
\* more entries are sponsored than there are, and a line without liabilities holds no
\* more than its limit, an i64.
AccountEntryOK(ae) == ae.sponsored <= 2 + ae.sub_entries

TrustLineOK(a, tl) ==
    tl.limit = LineLimit[a] /\ (tl.selling = 0 /\ tl.buying = 0 => tl.balance <= tl.limit)

ASSUME ClassicAssumption ==
    /\ BaseReserve \in Nat
    /\ LineLimit \in [Accounts -> 0..I64Max]
    /\ \A flags \in IssuerFlags : AtMostOne(flags)
    /\ AccountEntries \subseteq [Accounts -> SUBSET AccountEntry]
    /\ TrustLines \subseteq [Accounts -> SUBSET TrustLine]
    /\ \A accounts \in AccountEntries, a \in Accounts :
          AtMostOne(accounts[a]) /\ \A ae \in accounts[a] : AccountEntryOK(ae)
    /\ \A lines \in TrustLines, a \in Accounts :
          AtMostOne(lines[a]) /\ \A tl \in lines[a] : TrustLineOK(a, tl)

The(S) == CHOOSE x \in S : TRUE

max_live_until_ledger == seq + MaxTtl - 1

----------------------------------------------------------------------------
(* Balances of accounts.                                                   *)

is_native(t) == t.asset = "native"

is_issuer(t, a) == ~is_native(t) /\ a = Issuer

\* get_min_max_account_balance
AccountRange(ae) ==
    LET net_entries == 2 + ae.sub_entries + ae.sponsoring - ae.sponsored
    IN  (net_entries * BaseReserve + ae.selling)..(I64Max - ae.buying)

\* get_min_max_trustline_balance fails if the limit is below the liabilities.
TrustlineRange(tl) == IF tl.limit < tl.buying THEN {} ELSE tl.selling..(tl.limit - tl.buying)

transfer_account_balance(t, a, delta) ==
    {[t EXCEPT !.accounts[a] = {[ae EXCEPT !.balance = ae.balance + delta]}] :
        ae \in {x \in t.accounts[a] : x.balance + delta \in AccountRange(x)}}

transfer_trustline_balance(t, a, delta) ==
    {[t EXCEPT !.lines[a] = {[tl EXCEPT !.balance = tl.balance + delta]}] :
        tl \in {x \in t.lines[a] : x.balance + delta \in TrustlineRange(x)}}

\* The issuer holds no balance of its own asset.
transfer_classic_balance(t, a, delta) ==
    IF is_native(t) THEN transfer_account_balance(t, a, delta)
    ELSE IF is_issuer(t, a) THEN {t}
    ELSE transfer_trustline_balance(t, a, delta)

get_classic_balance(t, a) ==
    IF is_native(t) THEN {x.balance : x \in {y \in t.accounts[a] : y.balance \in AccountRange(y)}}
    ELSE IF is_issuer(t, a) THEN {I64Max}
    ELSE {x.balance : x \in {y \in t.lines[a] : y.balance \in TrustlineRange(y)}}

is_account_authorized(t, a) ==
    IF is_native(t) \/ is_issuer(t, a) THEN {TRUE}
    ELSE {x.authorized : x \in t.lines[a]}

\* Deauthorizing leaves the line able to keep its offers.
set_authorization(t, a, authorize) ==
    IF is_native(t) \/ is_issuer(t, a) THEN {}
    ELSE {IF tl.authorized = authorize THEN t
          ELSE [t EXCEPT !.lines[a] =
                    {[tl EXCEPT !.authorized = authorize, !.maintain = ~authorize]}] :
            tl \in t.lines[a]}

----------------------------------------------------------------------------
(* Balances of any address.                                                *)

is_issuer_flag_set(flags, flag) == flag \in flags

\* It fails when the issuer's account does not exist.
is_asset_issuer_flag_set(t, flag) ==
    IF is_native(t) THEN {FALSE} ELSE {is_issuer_flag_set(flags, flag) : flags \in t.flags}

read_balance(t, a) ==
    IF a \in Accounts THEN get_classic_balance(t, a)
    ELSE IF t.balances[a] = {} THEN {0} ELSE {x.amount : x \in t.balances[a]}

is_authorized(t, a) ==
    IF a \in Accounts THEN is_account_authorized(t, a)
    ELSE IF t.balances[a] = {} THEN {~x : x \in is_asset_issuer_flag_set(t, "required")}
    ELSE {x.authorized : x \in t.balances[a]}

write_contract_balance(t, c, b) == [t EXCEPT !.balances[c] = {b}]

\* The balance that a contract has, or would be given.
ContractBalance(t, c, authorized) ==
    IF t.balances[c] # {} THEN t.balances[c]
    ELSE {[amount |-> 0, authorized |-> authorized, clawback |-> x] :
             x \in is_asset_issuer_flag_set(t, "clawback")}

\* What a contract has after it received an amount.
Received(t, c, amount) ==
    {write_contract_balance(t, c, [b EXCEPT !.amount = b.amount + amount]) :
        b \in {x \in ContractBalance(t, c, TRUE) : x.amount + amount <= I128Max}}

\* Mutant: the authorization of the receiver is not looked at.
receive_balance_any(t, a, amount) ==
    IF a \in Accounts THEN (IF amount > I64Max THEN {} ELSE transfer_classic_balance(t, a, amount))
    ELSE Received(t, a, amount)

receive_balance(t, a, amount) ==
    IF TRUE \notin is_authorized(t, a) THEN {}
    ELSE IF a \in Accounts
    THEN IF amount > I64Max THEN {} ELSE transfer_classic_balance(t, a, amount)
    ELSE Received(t, a, amount)

\* Spending nothing from a contract without a balance succeeds and writes nothing.
spend_balance_no_authorization_check(t, a, amount) ==
    IF a \in Accounts
    THEN IF amount > I64Max THEN {} ELSE transfer_classic_balance(t, a, -amount)
    ELSE IF t.balances[a] = {} THEN (IF amount > 0 THEN {} ELSE {t})
    ELSE {write_contract_balance(t, a, [b EXCEPT !.amount = b.amount - amount]) :
            b \in {x \in t.balances[a] : x.amount >= amount}}

spend_balance(t, a, amount) ==
    IF TRUE \notin is_authorized(t, a) THEN {}
    ELSE spend_balance_no_authorization_check(t, a, amount)

write_authorization(t, a, authorize) ==
    IF ~authorize /\ TRUE \notin is_asset_issuer_flag_set(t, "revocable") THEN {}
    ELSE IF a \in Accounts THEN set_authorization(t, a, authorize)
    ELSE {write_contract_balance(t, a, [b EXCEPT !.authorized = authorize]) :
             b \in ContractBalance(t, a, authorize)}

check_clawbackable(t, a) ==
    IF a \in Accounts
    THEN ~is_native(t) /\ a # Issuer /\ \E tl \in t.lines[a] : tl.clawback
    ELSE \E b \in t.balances[a] : b.clawback

----------------------------------------------------------------------------
(* Allowances.  The entry's own life and the ledger it names are two things. *)

read_allowance(t, p) ==
    IF \E x \in t.allowances[p] : x.until >= seq THEN The(t.allowances[p]).amount ELSE 0

\* extend_contract_data_ttl of a temporary entry, by the same number of ledgers
\* for threshold and extension.
extend_allowance_ttl(x, live_for) ==
    IF seq + live_for > max_live_until_ledger THEN {}
    ELSE IF seq + live_for > x.live /\ x.live - seq <= live_for
    THEN {[x EXCEPT !.live = seq + live_for]} ELSE {x}

write_allowance(t, p, amount, until) ==
    LET old == t.allowances[p]
        new == [amount |-> amount, until |-> until,
                live |-> IF old = {} THEN seq + MinTempTtl - 1 ELSE The(old).live]
        lengthened == amount > 0 /\ (IF old = {} THEN 0 ELSE The(old).until) < until
        live_for == (IF until > seq THEN until - seq ELSE 0) + 1
    IN  IF until > max_live_until_ledger \/ (amount > 0 /\ until < seq) THEN {}
        ELSE IF old = {} /\ amount = 0 THEN {t}
        ELSE {[t EXCEPT !.allowances[p] = {x}] :
                x \in IF lengthened THEN extend_allowance_ttl(new, live_for) ELSE {new}}

\* Mutant: the allowance is checked and not reduced.
spend_allowance_kept(t, p, amount) == IF read_allowance(t, p) < amount THEN {} ELSE {t}

spend_allowance(t, p, amount) ==
    IF read_allowance(t, p) < amount THEN {}
    ELSE IF amount = 0 THEN {t}
    ELSE write_allowance(t, p, read_allowance(t, p) - amount, The(t.allowances[p]).until)

----------------------------------------------------------------------------
(* The contract's functions, without their authorization.                  *)

Then(S, F(_)) == UNION {F(t) : t \in S}

check_nonnegative_amount(amount) == amount >= 0

check_not_issuer(t, a) == ~is_issuer(t, a)

\* Mutant: both balances are read before either is written.
transfer_stale(t, from, to, amount) ==
    IF ~check_nonnegative_amount(amount) THEN {}
    ELSE {IF from \in Contracts THEN x
          ELSE [x EXCEPT !.lines[from] = {[tl EXCEPT !.balance = @ - amount] : tl \in t.lines[from]}] :
             x \in IF spend_balance(t, from, amount) = {} THEN {} ELSE receive_balance(t, to, amount)}

transfer(t, from, to, amount) ==
    IF ~check_nonnegative_amount(amount) THEN {}
    ELSE Then(spend_balance(t, from, amount), LAMBDA x : receive_balance(x, to, amount))

transfer_from(t, spender, from, to, amount) ==
    IF ~check_nonnegative_amount(amount) THEN {}
    ELSE Then(spend_allowance(t, <<from, spender>>, amount), LAMBDA x : transfer(x, from, to, amount))

burn(t, from, amount) ==
    IF ~check_nonnegative_amount(amount) \/ is_native(t) \/ ~check_not_issuer(t, from) THEN {}
    ELSE spend_balance(t, from, amount)

burn_from(t, spender, from, amount) ==
    IF ~check_nonnegative_amount(amount) \/ is_native(t) \/ ~check_not_issuer(t, from) THEN {}
    ELSE Then(spend_allowance(t, <<from, spender>>, amount), LAMBDA x : spend_balance(x, from, amount))

clawback(t, from, amount) ==
    IF ~check_nonnegative_amount(amount) \/ ~check_clawbackable(t, from) \/ ~check_not_issuer(t, from)
    THEN {} ELSE spend_balance_no_authorization_check(t, from, amount)

mint(t, to, amount) ==
    IF ~check_nonnegative_amount(amount) \/ ~check_not_issuer(t, to) THEN {}
    ELSE receive_balance(t, to, amount)

----------------------------------------------------------------------------
(* Behaviours.  A signer is an address that authorizes one call.           *)

Init ==
    /\ \E accounts \in AccountEntries, lines \in TrustLines, flags \in IssuerFlags :
        token = [asset |-> "none", admin |-> {}, flags |-> flags, accounts |-> accounts,
                 lines |-> lines, balances |-> [c \in Contracts |-> {}],
                 allowances |-> [p \in Delegations |-> {}]]
    /\ seq = 1 /\ ops = 0
    /\ issued = 0
    /\ granted = [p \in Delegations |-> [left |-> 0, until |-> 0]]
    /\ lapsing = {}

Holders == Addresses \ {Issuer}

BalanceOf(t, a) == IF read_balance(t, a) = {} THEN 0 ELSE The(read_balance(t, a))

\* The entry that holds the balance of an address, whether it can be read or not.
HoldingOf(t, a) ==
    LET amounts == IF a \in Contracts THEN {b.amount : b \in t.balances[a]}
                   ELSE IF is_native(t) THEN {ae.balance : ae \in t.accounts[a]}
                   ELSE {tl.balance : tl \in t.lines[a]}
    IN  IF amounts = {} THEN 0 ELSE The(amounts)

\* The balances in circulation: the issuer's own is not one.
Held(t) == Total([a \in IF is_native(t) THEN Addresses ELSE Holders |-> HoldingOf(t, a)])

\* init_asset, once: asset_info, the administrator and the metadata.
InitAsset(asset) ==
    /\ token.asset = "none"
    /\ token' = [token EXCEPT !.asset = asset, !.admin = IF asset = "native" THEN {} ELSE {Issuer}]
    /\ issued' = Held(token')
    /\ UNCHANGED <<seq, ops, granted, lapsing>>

\* A call by s that ends in one of the states given.  An issuer without its account
\* signs nothing.
Does(s, S) ==
    /\ token.asset # "none" /\ ops < MaxOps
    /\ s \in Signers /\ (is_issuer(token, s) => token.flags # {})
    /\ token' \in S
    /\ ops' = ops + 1
    /\ UNCHANGED seq

Approve(from, spender, amount, until) ==
    /\ check_nonnegative_amount(amount)
    /\ Does(from, write_allowance(token, <<from, spender>>, amount, until))
    /\ granted' = [granted EXCEPT ![<<from, spender>>] = [left |-> amount, until |-> until]]
    /\ lapsing' = IF amount = 0 /\ until >= seq THEN lapsing \cup {<<from, spender>>}
                  ELSE IF token.allowances[<<from, spender>>] = {} THEN lapsing \ {<<from, spender>>}
                  ELSE lapsing
    /\ UNCHANGED issued

\* What leaves or enters circulation when from pays to.
Flow(from, to, amount) ==
    (IF is_issuer(token, from) THEN amount ELSE 0) - (IF is_issuer(token, to) THEN amount ELSE 0)

Transfer(from, to, amount) ==
    /\ Does(from, transfer(token, from, to, amount))
    /\ issued' = issued + Flow(from, to, amount)
    /\ UNCHANGED <<granted, lapsing>>

Spent(p, amount) ==
    granted' = IF amount = 0 THEN granted
               ELSE [granted EXCEPT ![p].left = IF granted[p].until < seq THEN -1 ELSE @ - amount]

TransferFrom(spender, from, to, amount) ==
    /\ Does(spender, transfer_from(token, spender, from, to, amount))
    /\ issued' = issued + Flow(from, to, amount)
    /\ Spent(<<from, spender>>, amount)
    /\ UNCHANGED lapsing

Burn(from, amount) ==
    /\ Does(from, burn(token, from, amount))
    /\ issued' = issued - amount
    /\ UNCHANGED <<granted, lapsing>>

BurnFrom(spender, from, amount) ==
    /\ Does(spender, burn_from(token, spender, from, amount))
    /\ issued' = issued - amount
    /\ Spent(<<from, spender>>, amount)
    /\ UNCHANGED lapsing

Clawback(admin, from, amount) ==
    /\ admin \in token.admin
    /\ Does(admin, clawback(token, from, amount))
    /\ issued' = issued - amount
    /\ UNCHANGED <<granted, lapsing>>

Mint(admin, to, amount) ==
    /\ admin \in token.admin
    /\ Does(admin, mint(token, to, amount))
    /\ issued' = issued + amount
    /\ UNCHANGED <<granted, lapsing>>

SetAuthorized(admin, a, authorize) ==
    /\ admin \in token.admin
    /\ Does(admin, write_authorization(token, a, authorize))
    /\ UNCHANGED <<issued, granted, lapsing>>

SetAdmin(admin, new_admin) ==
    /\ admin \in token.admin
    /\ Does(admin, {[token EXCEPT !.admin = {new_admin}]})
    /\ UNCHANGED <<issued, granted, lapsing>>

\* The issuer changes its account's flags, or the account is merged into another or
\* created again: operations of the classic ledger.
SetOptions(flags) ==
    /\ flags # token.flags
    /\ token.asset # "none" /\ ops < MaxOps
    /\ token' = [token EXCEPT !.flags = flags]
    /\ ops' = ops + 1
    /\ UNCHANGED <<seq, issued, granted, lapsing>>

\* The next ledger: temporary entries past their life are gone.
CloseLedger ==
    /\ token.asset # "none" /\ seq < MaxSeq
    /\ seq' = seq + 1
    /\ token' = [token EXCEPT !.allowances =
                    [p \in Delegations |-> {x \in token.allowances[p] : x.live >= seq + 1}]]
    /\ UNCHANGED <<ops, issued, granted, lapsing>>

Next ==
    \/ \E asset \in Assets : InitAsset(asset)
    \/ \E p \in Delegations, a \in Amounts, u \in Untils : Approve(p[1], p[2], a, u)
    \/ \E from, to \in Addresses, a \in Amounts : Transfer(from, to, a)
    \/ \E p \in Delegations, to \in Addresses, a \in Amounts : TransferFrom(p[2], p[1], to, a)
    \/ \E from \in Addresses, a \in Amounts : Burn(from, a)
    \/ \E p \in Delegations, a \in Amounts : BurnFrom(p[2], p[1], a)
    \/ \E admin, from \in Addresses, a \in Amounts : Clawback(admin, from, a)
    \/ \E admin, to \in Addresses, a \in Amounts : Mint(admin, to, a)
    \/ \E admin, a \in Addresses, authorize \in BOOLEAN : SetAuthorized(admin, a, authorize)
    \/ \E admin, new_admin \in Addresses : SetAdmin(admin, new_admin)
    \/ \E flags \in IssuerFlags : SetOptions(flags)
    \/ CloseLedger

Spec == Init /\ [][Next]_vars

----------------------------------------------------------------------------
(* Properties.                                                             *)

\* The balances in circulation are what the issuer gave out and did not get back,
\* whoever moved them, between accounts and contracts, to oneself, or through an
\* allowance, and whoever froze them.
SupplyIsIssued == token.asset # "none" => Held(token) = issued

\* A spender can spend exactly what was last approved and not spent yet, until the
\* ledger that the approval named, although the entry has a life of its own; the
\* exception is a pair whose allowance was set to zero with a later ledger.
AllowanceIsAsApproved ==
    \A p \in Delegations \ lapsing :
        read_allowance(token, p) = IF granted[p].until >= seq THEN granted[p].left ELSE 0

\* The ledger that the escrow and the pools are specified on.
Abstract ==
    INSTANCE StellarLedger WITH
        Capacity <- [a \in Addresses |-> IF a \in Contracts THEN I128Max ELSE LineLimit[a]],
        balance <- [a \in Addresses |-> BalanceOf(token, a)],
        authorized <- {a \in Addresses : TRUE \in is_authorized(token, a)},
        clawed <- [a \in Addresses |-> 0], now <- 0, signing <- {}, SignerSets <- {}, MaxTimestamp <- 0,
        PaymentAmounts <- Amounts, InitialBalances <- {}, Payers <- {}, Payees <- {}, Freezable <- {},
        Clawable <- {}, MaxClawed <- 0

\* Holders that the abstract ledger speaks of: not the issuer, no liabilities.
Plain(a) ==
    a # Issuer /\ (a \in Accounts => \E tl \in token.lines[a] : tl.selling = 0 /\ tl.buying = 0)

\* The ledger that the escrow and the pools are specified on (StellarLedger) agrees
\* with the contract: a transfer between plain holders succeeds in one exactly when
\* it does in the other, and with the same balances.
LedgerAgrees ==
    token.asset \notin {"none", "native"} =>
        LET bal == [a \in Addresses |-> BalanceOf(token, a)]
        IN  \A from, to \in {a \in Addresses : Plain(a)}, x \in Amounts :
            LET result == transfer(token, from, to, x)
            IN  /\ Abstract!CanTransfer(bal, from, to, x) <=> result # {}
                /\ \A t \in result :
                        [a \in Addresses |-> BalanceOf(t, a)] = Abstract!Transfer(bal, from, to, x)
=============================================================================
