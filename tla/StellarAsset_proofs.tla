------------------------- MODULE StellarAsset_proofs -------------------------
(***************************************************************************)
(* Theorems about the token, for every set of accounts and contracts, every *)
(* classic ledger it starts on, every width of the amounts, and every       *)
(* number of operations and ledgers.                                       *)
(***************************************************************************)
EXTENDS StellarAsset, Totals_proofs

ContractEntry == [amount : 0..I128Max, authorized : BOOLEAN, clawback : BOOLEAN]

AllowanceEntry == [amount : Nat, until : Nat, live : Int]

\* The states of the token: every optional entry is one at most, and the classic
\* ones are as the ledger guarantees.
TokenOK(t) ==
    /\ t \in [asset : {"none"} \cup Assets, admin : SUBSET Addresses, flags : IssuerFlags,
              accounts : [Accounts -> SUBSET AccountEntry], lines : [Accounts -> SUBSET TrustLine],
              balances : [Contracts -> SUBSET ContractEntry],
              allowances : [Delegations -> SUBSET AllowanceEntry]]
    /\ \A a \in Accounts :
          /\ AtMostOne(t.accounts[a]) /\ \A ae \in t.accounts[a] : AccountEntryOK(ae)
          /\ AtMostOne(t.lines[a]) /\ \A tl \in t.lines[a] : TrustLineOK(a, tl)
    /\ \A c \in Contracts : AtMostOne(t.balances[c])
    /\ \A p \in Delegations : AtMostOne(t.allowances[p])

\* r differs from t in the entries of address a only.
OnlyAt(a, t, r) ==
    /\ r.asset = t.asset /\ r.flags = t.flags /\ r.allowances = t.allowances
    /\ \A b \in Accounts : b # a => r.accounts[b] = t.accounts[b] /\ r.lines[b] = t.lines[b]
    /\ \A c \in Contracts : c # a => r.balances[c] = t.balances[c]

(***************************************************************************)
(* Entries.                                                                *)
(***************************************************************************)

LEMMA OneLemma ==
    ASSUME NEW S, AtMostOne(S), NEW x \in S
    PROVE  S = {x} /\ The(S) = x
  BY DEF AtMostOne, The

LEMMA OptionLemma ==
    ASSUME NEW S, AtMostOne(S)
    PROVE  S = {} \/ \E x : S = {x}
  BY OneLemma, Zenon

LEMMA SingleLemma ==
    ASSUME NEW x
    PROVE  AtMostOne({x}) /\ The({x}) = x
  BY DEF AtMostOne, The

\* An account entry is replaced.
LEMMA AccountMove ==
    ASSUME NEW t, TokenOK(t), NEW a \in Accounts, NEW d \in Int,
           NEW r \in transfer_account_balance(t, a, d)
    PROVE  /\ TokenOK(r) /\ OnlyAt(a, t, r)
           /\ r.lines = t.lines /\ r.balances = t.balances
           /\ \E ae \in t.accounts[a] :
                 /\ t.accounts[a] = {ae}
                 /\ r.accounts[a] = {[ae EXCEPT !.balance = ae.balance + d]}
                 /\ ae.balance + d \in Nat
  <1>1. PICK ae \in t.accounts[a] :
           /\ ae.balance + d \in AccountRange(ae)
           /\ r = [t EXCEPT !.accounts[a] = {[ae EXCEPT !.balance = ae.balance + d]}]
    BY DEF transfer_account_balance
  <1>. DEFINE new == [ae EXCEPT !.balance = ae.balance + d]
  <1>2. ae \in AccountEntry /\ AccountEntryOK(ae) /\ t.accounts[a] = {ae}
    BY OneLemma DEF TokenOK
  <1>3. ae.balance + d \in Nat
    <2>1. /\ ae.sub_entries \in Nat /\ ae.sponsoring \in Nat /\ ae.sponsored \in Nat
          /\ ae.selling \in Nat /\ ae.balance \in Nat /\ ae.buying \in Nat
      BY <1>2 DEF AccountEntry
    <2>. DEFINE n == 2 + ae.sub_entries + ae.sponsoring - ae.sponsored
    <2>2. n \in Nat
      BY <1>2, <2>1 DEF AccountEntryOK
    <2>. HIDE DEF n
    <2>3. n * BaseReserve \in Nat
      BY <2>2, ClassicAssumption
    <2>4. ae.balance + d \in (n * BaseReserve + ae.selling)..(I64Max - ae.buying)
      BY <1>1 DEF AccountRange, n
    <2>. QED  BY <2>1, <2>3, <2>4
  <1>4. new \in AccountEntry /\ AccountEntryOK(new)
    BY <1>2, <1>3 DEF AccountEntry, AccountEntryOK
  <1>. HIDE DEF new
  <1>5. AtMostOne({new})
    BY SingleLemma
  <1>6. r = [t EXCEPT !.accounts[a] = {new}]
    BY <1>1 DEF new
  <1>7. /\ r.asset = t.asset /\ r.admin = t.admin /\ r.flags = t.flags /\ r.lines = t.lines
        /\ r.balances = t.balances /\ r.allowances = t.allowances
        /\ r.accounts = [t.accounts EXCEPT ![a] = {new}]
    BY <1>6 DEF TokenOK
  <1>8. r.accounts \in [Accounts -> SUBSET AccountEntry]
    BY <1>4, <1>7 DEF TokenOK
  <1>9. \A b \in Accounts : r.accounts[b] = IF b = a THEN {new} ELSE t.accounts[b]
    BY <1>7 DEF TokenOK
  <1>10. TokenOK(r)
    <2>1. r \in [asset : {"none"} \cup Assets, admin : SUBSET Addresses, flags : IssuerFlags,
              accounts : [Accounts -> SUBSET AccountEntry], lines : [Accounts -> SUBSET TrustLine],
              balances : [Contracts -> SUBSET ContractEntry],
              allowances : [Delegations -> SUBSET AllowanceEntry]]
      BY <1>4, <1>6 DEF TokenOK
    <2>2. \A b \in Accounts : AtMostOne(r.accounts[b]) /\ \A e \in r.accounts[b] : AccountEntryOK(e)
      BY <1>4, <1>5, <1>9 DEF TokenOK
    <2>. QED  BY <1>7, <2>1, <2>2 DEF TokenOK
  <1>. QED  BY <1>2, <1>3, <1>7, <1>9, <1>10 DEF OnlyAt, new

\* A trustline is replaced.
WithLine(t, a, tl) == [t EXCEPT !.lines[a] = {tl}]

LEMMA LineReplaced ==
    ASSUME NEW t, TokenOK(t), NEW a \in Accounts, NEW new \in TrustLine, TrustLineOK(a, new),
           NEW r, r = WithLine(t, a, new)
    PROVE  /\ TokenOK(r) /\ OnlyAt(a, t, r)
           /\ r.accounts = t.accounts /\ r.balances = t.balances
           /\ r.lines[a] = {new}
  <1>5. AtMostOne({new})
    BY SingleLemma
  <1>7. /\ r.asset = t.asset /\ r.admin = t.admin /\ r.flags = t.flags /\ r.accounts = t.accounts
        /\ r.balances = t.balances /\ r.allowances = t.allowances
        /\ r.lines = [t.lines EXCEPT ![a] = {new}]
    BY DEF TokenOK, WithLine
  <1>9. \A b \in Accounts : r.lines[b] = IF b = a THEN {new} ELSE t.lines[b]
    BY <1>7 DEF TokenOK
  <1>10. TokenOK(r)
    <2>1. r \in [asset : {"none"} \cup Assets, admin : SUBSET Addresses, flags : IssuerFlags,
              accounts : [Accounts -> SUBSET AccountEntry], lines : [Accounts -> SUBSET TrustLine],
              balances : [Contracts -> SUBSET ContractEntry],
              allowances : [Delegations -> SUBSET AllowanceEntry]]
      BY DEF TokenOK, WithLine
    <2>2. \A b \in Accounts : AtMostOne(r.lines[b]) /\ \A e \in r.lines[b] : TrustLineOK(b, e)
      BY <1>5, <1>9 DEF TokenOK
    <2>. QED  BY <1>7, <2>1, <2>2 DEF TokenOK
  <1>. QED  BY <1>7, <1>9, <1>10 DEF OnlyAt

LEMMA LineMove ==
    ASSUME NEW t, TokenOK(t), NEW a \in Accounts, NEW d \in Int,
           NEW r \in transfer_trustline_balance(t, a, d)
    PROVE  /\ TokenOK(r) /\ OnlyAt(a, t, r)
           /\ r.accounts = t.accounts /\ r.balances = t.balances
           /\ \E tl \in t.lines[a] :
                 /\ t.lines[a] = {tl}
                 /\ r.lines[a] = {[tl EXCEPT !.balance = tl.balance + d]}
                 /\ tl.balance + d \in TrustlineRange(tl)
                 /\ tl.balance + d \in Nat
  <1>1. PICK tl \in t.lines[a] :
           /\ tl.balance + d \in TrustlineRange(tl)
           /\ r = [t EXCEPT !.lines[a] = {[tl EXCEPT !.balance = tl.balance + d]}]
    BY DEF transfer_trustline_balance
  <1>. DEFINE new == [tl EXCEPT !.balance = tl.balance + d]
  <1>2. tl \in TrustLine /\ TrustLineOK(a, tl) /\ t.lines[a] = {tl}
    BY OneLemma DEF TokenOK
  <1>3. tl.balance + d \in Nat /\ tl.balance + d <= tl.limit
    BY <1>1, <1>2 DEF TrustlineRange, TrustLine
  <1>4. new \in TrustLine /\ TrustLineOK(a, new)
    BY <1>2, <1>3 DEF TrustLine, TrustLineOK
  <1>5. r = WithLine(t, a, new)
    BY <1>1 DEF WithLine
  <1>. HIDE DEF new
  <1>6. /\ TokenOK(r) /\ OnlyAt(a, t, r)
        /\ r.accounts = t.accounts /\ r.balances = t.balances /\ r.lines[a] = {new}
    BY <1>4, <1>5, LineReplaced
  <1>. QED  BY <1>1, <1>2, <1>3, <1>6 DEF new

\* The balance of a contract is written.
LEMMA ContractWrite ==
    ASSUME NEW t, TokenOK(t), NEW c \in Contracts, NEW b \in ContractEntry,
           NEW r, r = write_contract_balance(t, c, b)
    PROVE  /\ TokenOK(r) /\ OnlyAt(c, t, r)
           /\ r.accounts = t.accounts /\ r.lines = t.lines
           /\ r.balances[c] = {b}
  <1>5. AtMostOne({b})
    BY SingleLemma
  <1>6. r = [t EXCEPT !.balances[c] = {b}]
    BY DEF write_contract_balance
  <1>7. /\ r.asset = t.asset /\ r.admin = t.admin /\ r.flags = t.flags /\ r.accounts = t.accounts
        /\ r.lines = t.lines /\ r.allowances = t.allowances
        /\ r.balances = [t.balances EXCEPT ![c] = {b}]
    BY <1>6 DEF TokenOK
  <1>9. \A d \in Contracts : r.balances[d] = IF d = c THEN {b} ELSE t.balances[d]
    BY <1>7 DEF TokenOK
  <1>10. TokenOK(r)
    <2>1. r \in [asset : {"none"} \cup Assets, admin : SUBSET Addresses, flags : IssuerFlags,
              accounts : [Accounts -> SUBSET AccountEntry], lines : [Accounts -> SUBSET TrustLine],
              balances : [Contracts -> SUBSET ContractEntry],
              allowances : [Delegations -> SUBSET AllowanceEntry]]
      BY <1>6 DEF TokenOK
    <2>2. \A d \in Contracts : AtMostOne(r.balances[d])
      BY <1>5, <1>9 DEF TokenOK
    <2>. QED  BY <1>7, <2>1, <2>2 DEF TokenOK
  <1>. QED  BY <1>7, <1>9, <1>10 DEF OnlyAt

\* The entry that a contract has or would be given.
LEMMA ContractBalanceLemma ==
    ASSUME NEW t, TokenOK(t), NEW c \in Contracts, NEW authorized \in BOOLEAN,
           NEW b \in ContractBalance(t, c, authorized)
    PROVE  /\ b \in ContractEntry
           /\ t.balances[c] # {} => t.balances[c] = {b}
           /\ t.balances[c] = {} => b.amount = 0
  <1>1. CASE t.balances[c] # {}
    <2>1. b \in t.balances[c]
      BY <1>1 DEF ContractBalance
    <2>2. t.balances[c] = {b} /\ b \in ContractEntry
      BY <2>1, OneLemma DEF TokenOK
    <2>. QED  BY <1>1, <2>2
  <1>2. CASE t.balances[c] = {}
    <2>1. is_asset_issuer_flag_set(t, "clawback") \subseteq BOOLEAN
      <3>1. \A flags : is_issuer_flag_set(flags, "clawback") \in BOOLEAN
        BY DEF is_issuer_flag_set
      <3>. QED  BY <3>1, Zenon DEF is_asset_issuer_flag_set
    <2>2. 0 \in 0..I128Max
      BY TokenAssumption
    <2>3. PICK x \in BOOLEAN : b = [amount |-> 0, authorized |-> authorized, clawback |-> x]
      BY <1>2, <2>1 DEF ContractBalance
    <2>. QED  BY <1>2, <2>2, <2>3 DEF ContractEntry
  <1>. QED  BY <1>1, <1>2

(***************************************************************************)
(* Holdings.                                                               *)
(***************************************************************************)

LEMMA HoldingLemma ==
    ASSUME NEW t, TokenOK(t)
    PROVE  /\ \A c \in Contracts : /\ HoldingOf(t, c) \in Nat
                                   /\ t.balances[c] = {} => HoldingOf(t, c) = 0
                                   /\ \A b : t.balances[c] = {b} => HoldingOf(t, c) = b.amount
           /\ \A a \in Accounts :
                 /\ HoldingOf(t, a) \in Nat
                 /\ is_native(t) => \A ae : t.accounts[a] = {ae} => HoldingOf(t, a) = ae.balance
                 /\ ~is_native(t) => \A tl : t.lines[a] = {tl} => HoldingOf(t, a) = tl.balance
  <1>0. Accounts \cap Contracts = {}
    BY TokenAssumption
  <1>1. ASSUME NEW c \in Contracts
        PROVE  /\ HoldingOf(t, c) \in Nat
               /\ t.balances[c] = {} => HoldingOf(t, c) = 0
               /\ \A b : t.balances[c] = {b} => HoldingOf(t, c) = b.amount
    <2>1. CASE t.balances[c] = {}
      BY <2>1 DEF HoldingOf
    <2>2. ASSUME NEW b, t.balances[c] = {b}
          PROVE  HoldingOf(t, c) = b.amount /\ HoldingOf(t, c) \in Nat
      <3>1. b.amount \in Nat
        BY <2>2, TokenAssumption DEF TokenOK, ContractEntry
      <3>2. {x.amount : x \in t.balances[c]} = {b.amount}
        BY <2>2
      <3>. QED  BY <3>1, <3>2, SingleLemma DEF HoldingOf
    <2>3. t.balances[c] = {} \/ \E b : t.balances[c] = {b}
      <3>1. AtMostOne(t.balances[c])
        BY DEF TokenOK
      <3>. QED  BY <3>1, OptionLemma, Zenon
    <2>. QED  BY <2>1, <2>2, <2>3
  <1>2. ASSUME NEW a \in Accounts, is_native(t)
        PROVE  HoldingOf(t, a) \in Nat /\ \A ae : t.accounts[a] = {ae} => HoldingOf(t, a) = ae.balance
    <2>1. ASSUME t.accounts[a] = {}
          PROVE  HoldingOf(t, a) = 0
      BY <1>0, <1>2, <2>1 DEF HoldingOf
    <2>2. ASSUME NEW b, t.accounts[a] = {b}
          PROVE  HoldingOf(t, a) = b.balance /\ HoldingOf(t, a) \in Nat
      <3>1. b.balance \in Nat
        BY <2>2 DEF TokenOK, AccountEntry
      <3>2. {x.balance : x \in t.accounts[a]} = {b.balance}
        BY <2>2
      <3>. QED  BY <1>0, <1>2, <3>1, <3>2, SingleLemma DEF HoldingOf
    <2>3. t.accounts[a] = {} \/ \E b : t.accounts[a] = {b}
      <3>1. AtMostOne(t.accounts[a])
        BY DEF TokenOK
      <3>. QED  BY <3>1, OptionLemma, Zenon
    <2>. QED  BY <2>1, <2>2, <2>3
  <1>3. ASSUME NEW a \in Accounts, ~is_native(t)
        PROVE  HoldingOf(t, a) \in Nat /\ \A tl : t.lines[a] = {tl} => HoldingOf(t, a) = tl.balance
    <2>1. ASSUME t.lines[a] = {}
          PROVE  HoldingOf(t, a) = 0
      BY <1>0, <1>3, <2>1 DEF HoldingOf
    <2>2. ASSUME NEW b, t.lines[a] = {b}
          PROVE  HoldingOf(t, a) = b.balance /\ HoldingOf(t, a) \in Nat
      <3>1. b.balance \in Nat
        BY <2>2 DEF TokenOK, TrustLine
      <3>2. {x.balance : x \in t.lines[a]} = {b.balance}
        BY <2>2
      <3>. QED  BY <1>0, <1>3, <3>1, <3>2, SingleLemma DEF HoldingOf
    <2>3. t.lines[a] = {} \/ \E b : t.lines[a] = {b}
      <3>1. AtMostOne(t.lines[a])
        BY DEF TokenOK
      <3>. QED  BY <3>1, OptionLemma, Zenon
    <2>. QED  BY <2>1, <2>2, <2>3
  <1>4. is_native(t) \in BOOLEAN
    BY DEF is_native
  <1>. QED  BY <1>1, <1>2, <1>3, <1>4, Zenon

\* What is read at the other addresses stays.
LEMMA ElsewhereLemma ==
    ASSUME NEW t, NEW r, NEW a, OnlyAt(a, t, r)
    PROVE  /\ is_native(r) <=> is_native(t)
           /\ \A b : is_issuer(r, b) <=> is_issuer(t, b)
           /\ \A b \in Addresses : b # a =>
                 /\ HoldingOf(r, b) = HoldingOf(t, b)
                 /\ BalanceOf(r, b) = BalanceOf(t, b)
                 /\ is_authorized(r, b) = is_authorized(t, b)
  <1>1. is_native(r) <=> is_native(t)
    BY DEF OnlyAt, is_native
  <1>2. \A b : is_issuer(r, b) <=> is_issuer(t, b)
    BY <1>1 DEF is_issuer
  <1>3. ASSUME NEW b \in Contracts, b # a
        PROVE  /\ HoldingOf(r, b) = HoldingOf(t, b)
               /\ BalanceOf(r, b) = BalanceOf(t, b)
               /\ is_authorized(r, b) = is_authorized(t, b)
    <2>1. r.balances[b] = t.balances[b] /\ r.flags = t.flags /\ b \notin Accounts
      BY <1>3, TokenAssumption DEF OnlyAt
    <2>2. is_asset_issuer_flag_set(r, "required") = is_asset_issuer_flag_set(t, "required")
      BY <1>1, <2>1 DEF is_asset_issuer_flag_set
    <2>3. read_balance(r, b) = read_balance(t, b)
      BY <2>1 DEF read_balance
    <2>. QED  BY <2>1, <2>2, <2>3 DEF HoldingOf, BalanceOf, is_authorized
  <1>4. ASSUME NEW b \in Accounts, b # a
        PROVE  /\ HoldingOf(r, b) = HoldingOf(t, b)
               /\ BalanceOf(r, b) = BalanceOf(t, b)
               /\ is_authorized(r, b) = is_authorized(t, b)
    <2>1. r.accounts[b] = t.accounts[b] /\ r.lines[b] = t.lines[b] /\ b \notin Contracts
      BY <1>4, TokenAssumption DEF OnlyAt
    <2>2. read_balance(r, b) = read_balance(t, b)
      BY <1>1, <1>2, <2>1 DEF read_balance, get_classic_balance
    <2>3. is_authorized(r, b) = is_authorized(t, b)
      BY <1>1, <1>2, <2>1 DEF is_authorized, is_account_authorized
    <2>. QED  BY <1>1, <2>1, <2>2, <2>3 DEF HoldingOf, BalanceOf
  <1>. QED  BY <1>1, <1>2, <1>3, <1>4 DEF Addresses

\* A classic balance is moved, except the issuer's.
LEMMA ClassicEffect ==
    ASSUME NEW t, TokenOK(t), NEW a \in Accounts, NEW d \in Int,
           NEW r \in transfer_classic_balance(t, a, d)
    PROVE  /\ TokenOK(r) /\ OnlyAt(a, t, r)
           /\ is_issuer(t, a) => r = t
           /\ ~is_issuer(t, a) => HoldingOf(r, a) = HoldingOf(t, a) + d
  <1>1. CASE is_native(t)
    <2>1. r \in transfer_account_balance(t, a, d) /\ ~is_issuer(t, a)
      BY <1>1 DEF transfer_classic_balance, is_issuer
    <2>2. TokenOK(r) /\ OnlyAt(a, t, r)
      BY <2>1, AccountMove
    <2>3. PICK ae \in t.accounts[a] :
             /\ t.accounts[a] = {ae}
             /\ r.accounts[a] = {[ae EXCEPT !.balance = ae.balance + d]}
      BY <2>1, AccountMove
    <2>4. is_native(r)
      BY <1>1, <2>2, ElsewhereLemma
    <2>5. ae \in AccountEntry
      BY DEF TokenOK
    <2>. DEFINE new == [ae EXCEPT !.balance = ae.balance + d]
    <2>6. new.balance = ae.balance + d /\ r.accounts[a] = {new}
      BY <2>3, <2>5 DEF AccountEntry
    <2>. HIDE DEF new
    <2>7. HoldingOf(t, a) = ae.balance
      BY <1>1, <2>3, HoldingLemma
    <2>8. HoldingOf(r, a) = ae.balance + d
      BY <2>2, <2>4, <2>6, HoldingLemma
    <2>. QED  BY <2>1, <2>2, <2>7, <2>8
  <1>2. CASE is_issuer(t, a)
    <2>1. r = t
      BY <1>2 DEF transfer_classic_balance, is_issuer
    <2>. QED  BY <1>2, <2>1 DEF OnlyAt
  <1>3. CASE ~is_native(t) /\ ~is_issuer(t, a)
    <2>1. r \in transfer_trustline_balance(t, a, d)
      BY <1>3 DEF transfer_classic_balance
    <2>2. TokenOK(r) /\ OnlyAt(a, t, r)
      BY <2>1, LineMove
    <2>3. PICK tl \in t.lines[a] :
             /\ t.lines[a] = {tl}
             /\ r.lines[a] = {[tl EXCEPT !.balance = tl.balance + d]}
      BY <2>1, LineMove
    <2>4. ~is_native(r)
      BY <1>3, <2>2, ElsewhereLemma
    <2>5. tl \in TrustLine
      BY DEF TokenOK
    <2>. DEFINE new == [tl EXCEPT !.balance = tl.balance + d]
    <2>6. new.balance = tl.balance + d /\ r.lines[a] = {new}
      BY <2>3, <2>5 DEF TrustLine
    <2>. HIDE DEF new
    <2>7. HoldingOf(t, a) = tl.balance
      BY <1>3, <2>3, HoldingLemma
    <2>8. HoldingOf(r, a) = tl.balance + d
      BY <2>2, <2>4, <2>6, HoldingLemma
    <2>. QED  BY <1>3, <2>2, <2>7, <2>8
  <1>. QED  BY <1>1, <1>2, <1>3

\* Spending takes the amount from one holding and touches no other, and no
\* allowance.
LEMMA SpendEffect ==
    ASSUME NEW t, TokenOK(t), NEW a \in Addresses, NEW x \in Nat,
           NEW r \in spend_balance_no_authorization_check(t, a, x)
    PROVE  /\ TokenOK(r) /\ OnlyAt(a, t, r)
           /\ ~is_issuer(t, a) => HoldingOf(r, a) = HoldingOf(t, a) - x
           /\ is_issuer(t, a) => r = t
  <1>1. CASE a \in Accounts
    <2>1. r \in transfer_classic_balance(t, a, -x)
      BY <1>1 DEF spend_balance_no_authorization_check
    <2>2. -x \in Int
      OBVIOUS
    <2>3. /\ TokenOK(r) /\ OnlyAt(a, t, r) /\ (is_issuer(t, a) => r = t)
          /\ ~is_issuer(t, a) => HoldingOf(r, a) = HoldingOf(t, a) + (-x)
      BY <1>1, <2>1, <2>2, ClassicEffect
    <2>4. HoldingOf(t, a) \in Nat
      BY <1>1, HoldingLemma
    <2>. QED  BY <2>3, <2>4
  <1>2. CASE a \in Contracts
    <2>0. a \notin Accounts /\ ~is_issuer(t, a)
      BY <1>2, TokenAssumption DEF is_issuer
    <2>1. CASE t.balances[a] = {}
      <3>1. r = t /\ x = 0
        BY <2>0, <2>1 DEF spend_balance_no_authorization_check
      <3>2. HoldingOf(t, a) \in Nat
        BY <1>2, HoldingLemma
      <3>. QED  BY <2>0, <3>1, <3>2 DEF OnlyAt
    <2>2. CASE t.balances[a] # {}
      <3>1. PICK b \in t.balances[a] :
               b.amount >= x /\ r = write_contract_balance(t, a, [b EXCEPT !.amount = b.amount - x])
        BY <2>0, <2>2 DEF spend_balance_no_authorization_check
      <3>. DEFINE new == [b EXCEPT !.amount = b.amount - x]
      <3>2. t.balances[a] = {b} /\ b \in ContractEntry
        BY <1>2, OneLemma DEF TokenOK
      <3>3. new \in ContractEntry /\ new.amount = b.amount - x
        BY <3>1, <3>2, TokenAssumption DEF ContractEntry
      <3>. HIDE DEF new
      <3>4. r = write_contract_balance(t, a, new)
        BY <3>1 DEF new
      <3>5. TokenOK(r) /\ OnlyAt(a, t, r) /\ r.balances[a] = {new}
        BY <1>2, <3>3, <3>4, ContractWrite
      <3>6. HoldingOf(t, a) = b.amount /\ HoldingOf(r, a) = new.amount
        BY <1>2, <3>2, <3>5, HoldingLemma
      <3>. QED  BY <2>0, <3>3, <3>5, <3>6
    <2>. QED  BY <2>1, <2>2
  <1>. QED  BY <1>1, <1>2 DEF Addresses

\* Receiving adds the amount to one holding.
LEMMA ReceiveEffect ==
    ASSUME NEW t, TokenOK(t), NEW a \in Addresses, NEW x \in Nat,
           NEW r \in receive_balance(t, a, x)
    PROVE  /\ TokenOK(r) /\ OnlyAt(a, t, r)
           /\ ~is_issuer(t, a) => HoldingOf(r, a) = HoldingOf(t, a) + x
           /\ is_issuer(t, a) => r = t
  <1>1. CASE a \in Accounts
    <2>1. r \in transfer_classic_balance(t, a, x)
      BY <1>1 DEF receive_balance
    <2>. QED  BY <1>1, <2>1, ClassicEffect
  <1>2. CASE a \in Contracts
    <2>0. a \notin Accounts /\ ~is_issuer(t, a)
      BY <1>2, TokenAssumption DEF is_issuer
    <2>a. PICK b \in ContractBalance(t, a, TRUE) :
             /\ b.amount + x <= I128Max
             /\ r = write_contract_balance(t, a, [b EXCEPT !.amount = b.amount + x])
      <3>1. r \in Received(t, a, x)
        BY <2>0, Zenon DEF receive_balance
      <3>. QED  BY <3>1, Zenon DEF Received
    <2>. DEFINE new == [b EXCEPT !.amount = b.amount + x]
    <2>1. b \in ContractEntry /\ HoldingOf(t, a) = b.amount
      <3>1. /\ b \in ContractEntry /\ (t.balances[a] # {} => t.balances[a] = {b})
            /\ t.balances[a] = {} => b.amount = 0
        BY <1>2, ContractBalanceLemma
      <3>. QED  BY <1>2, <3>1, HoldingLemma
    <2>2. b.amount + x <= I128Max /\ r = write_contract_balance(t, a, new)
      BY <2>a
    <2>3. new \in ContractEntry /\ new.amount = b.amount + x
      BY <2>1, <2>2, TokenAssumption DEF ContractEntry
    <2>. HIDE DEF new
    <2>4. TokenOK(r) /\ OnlyAt(a, t, r) /\ r.balances[a] = {new}
      BY <1>2, <2>2, <2>3, ContractWrite
    <2>5. HoldingOf(r, a) = new.amount
      BY <1>2, <2>4, HoldingLemma
    <2>. QED  BY <2>0, <2>1, <2>3, <2>4, <2>5
  <1>. QED  BY <1>1, <1>2 DEF Addresses

(***************************************************************************)
(* The supply.                                                             *)
(***************************************************************************)

\* A sum changes by what one of its numbers changes by.
LEMMA TotalMoved ==
    ASSUME NEW K, IsFiniteSet(K), NEW f \in [K -> Nat], NEW g \in [K -> Nat], NEW a \in K,
           \A b \in K \ {a} : g[b] = f[b]
    PROVE  Total(g) - Total(f) = g[a] - f[a]
  <1>. DEFINE rest == [b \in K \ {a} |-> f[b]]
  <1>1. [b \in K \ {a} |-> g[b]] = rest
    OBVIOUS
  <1>2. Total(f) = Total([b \in K \ {a} |-> f[b]]) + f[a]
    BY TotalAdd
  <1>3. Total(g) = Total([b \in K \ {a} |-> g[b]]) + g[a]
    BY TotalAdd
  <1>4. IsFiniteSet(K \ {a}) /\ rest \in [K \ {a} -> Nat]
    BY FS_Subset
  <1>5. Total(f) = Total(rest) + f[a] /\ Total(g) = Total(rest) + g[a]
    BY <1>1, <1>2, <1>3
  <1>. HIDE DEF rest
  <1>6. Total(rest) \in Nat /\ f[a] \in Nat /\ g[a] \in Nat
    BY <1>4, TotalType
  <1>. QED  BY <1>5, <1>6

LEMMA HeldMoved ==
    ASSUME NEW t, TokenOK(t), NEW r, TokenOK(r), NEW a \in Addresses, OnlyAt(a, t, r), NEW d \in Int,
           is_issuer(t, a) => r = t,
           ~is_issuer(t, a) => HoldingOf(r, a) = HoldingOf(t, a) + d
    PROVE  /\ Held(t) \in Nat
           /\ Held(r) = Held(t) + (IF is_issuer(t, a) THEN 0 ELSE d)
  <1>. DEFINE K == IF is_native(t) THEN Addresses ELSE Holders
              f == [b \in K |-> HoldingOf(t, b)]
              g == [b \in K |-> HoldingOf(r, b)]
  <1>1. IsFiniteSet(K) /\ K \subseteq Addresses
    BY TokenAssumption, FS_Subset DEF Holders
  <1>2. \A b \in Addresses : HoldingOf(t, b) \in Nat /\ HoldingOf(r, b) \in Nat
    BY HoldingLemma DEF Addresses
  <1>3. f \in [K -> Nat] /\ g \in [K -> Nat]
    BY <1>1, <1>2
  <1>4. Held(t) = Total(f) /\ Held(r) = Total(g)
    BY ElsewhereLemma DEF Held
  <1>5. a \in K <=> ~is_issuer(t, a)
    BY DEF Holders, is_issuer
  <1>6. Total(f) \in Nat /\ Total(g) \in Nat
    BY <1>1, <1>3, TotalType
  <1>7. CASE is_issuer(t, a)
    BY <1>4, <1>6, <1>7
  <1>8. CASE ~is_issuer(t, a)
    <2>1. a \in K /\ f[a] = HoldingOf(t, a) /\ g[a] = HoldingOf(t, a) + d
      BY <1>5, <1>8
    <2>2. \A b \in K \ {a} : g[b] = f[b]
      BY <1>1, ElsewhereLemma
    <2>3. HoldingOf(t, a) \in Nat
      BY <1>2
    <2>. HIDE DEF f, g, K
    <2>4. Total(g) - Total(f) = g[a] - f[a]
      BY <1>1, <1>3, <2>1, <2>2, TotalMoved
    <2>. QED  BY <1>4, <1>6, <1>8, <2>1, <2>3, <2>4
  <1>. QED  BY <1>7, <1>8

\* The supply and the allowances are left alone by what touches no holding.
LEMMA HeldKept ==
    ASSUME NEW t, NEW r, is_native(r) <=> is_native(t),
           \A b \in Addresses : HoldingOf(r, b) = HoldingOf(t, b)
    PROVE  Held(r) = Held(t)
  <1>. DEFINE K == IF is_native(t) THEN Addresses ELSE Holders
  <1>1. K \subseteq Addresses /\ K = IF is_native(r) THEN Addresses ELSE Holders
    BY DEF Holders
  <1>. HIDE DEF K
  <1>2. [b \in K |-> HoldingOf(r, b)] = [b \in K |-> HoldingOf(t, b)]
    BY <1>1
  <1>. QED  BY <1>1, <1>2 DEF Held, K

LEMMA HeldSame ==
    ASSUME NEW t, NEW r, r.asset = t.asset, r.accounts = t.accounts, r.lines = t.lines,
           r.balances = t.balances
    PROVE  Held(r) = Held(t)
  <1>1. is_native(r) <=> is_native(t)
    BY DEF is_native
  <1>2. \A b \in Addresses : HoldingOf(r, b) = HoldingOf(t, b)
    BY <1>1 DEF HoldingOf
  <1>. QED  BY <1>1, <1>2, HeldKept

LEMMA SpendHeld ==
    ASSUME NEW t, TokenOK(t), NEW a \in Addresses, NEW x \in Nat,
           NEW r \in spend_balance_no_authorization_check(t, a, x)
    PROVE  /\ TokenOK(r) /\ r.asset = t.asset /\ r.allowances = t.allowances
           /\ Held(t) \in Nat
           /\ Held(r) = Held(t) - (IF is_issuer(t, a) THEN 0 ELSE x)
  <1>1. /\ TokenOK(r) /\ OnlyAt(a, t, r)
        /\ ~is_issuer(t, a) => HoldingOf(r, a) = HoldingOf(t, a) - x
        /\ is_issuer(t, a) => r = t
    BY SpendEffect
  <1>2. HoldingOf(t, a) \in Nat /\ -x \in Int
    BY HoldingLemma DEF Addresses
  <1>3. ~is_issuer(t, a) => HoldingOf(r, a) = HoldingOf(t, a) + (-x)
    BY <1>1, <1>2
  <1>4. Held(t) \in Nat /\ Held(r) = Held(t) + (IF is_issuer(t, a) THEN 0 ELSE -x)
    BY <1>1, <1>2, <1>3, HeldMoved
  <1>. QED  BY <1>1, <1>4 DEF OnlyAt

LEMMA ReceiveHeld ==
    ASSUME NEW t, TokenOK(t), NEW a \in Addresses, NEW x \in Nat,
           NEW r \in receive_balance(t, a, x)
    PROVE  /\ TokenOK(r) /\ r.asset = t.asset /\ r.allowances = t.allowances
           /\ Held(t) \in Nat
           /\ Held(r) = Held(t) + (IF is_issuer(t, a) THEN 0 ELSE x)
  <1>1. /\ TokenOK(r) /\ OnlyAt(a, t, r)
        /\ ~is_issuer(t, a) => HoldingOf(r, a) = HoldingOf(t, a) + x
        /\ is_issuer(t, a) => r = t
    BY ReceiveEffect
  <1>2. Held(t) \in Nat /\ Held(r) = Held(t) + (IF is_issuer(t, a) THEN 0 ELSE x)
    BY <1>1, HeldMoved
  <1>. QED  BY <1>1, <1>2 DEF OnlyAt

LEMMA TransferHeld ==
    ASSUME NEW t, TokenOK(t), NEW from \in Addresses, NEW to \in Addresses, NEW x \in Int,
           NEW r \in transfer(t, from, to, x)
    PROVE  /\ x \in Nat
           /\ TokenOK(r) /\ r.asset = t.asset /\ r.allowances = t.allowances
           /\ Held(t) \in Nat
           /\ Held(r) = Held(t) - (IF is_issuer(t, from) THEN 0 ELSE x)
                                + (IF is_issuer(t, to) THEN 0 ELSE x)
  <1>1. x \in Nat
    BY DEF transfer, check_nonnegative_amount
  <1>2. PICK s \in spend_balance(t, from, x) : r \in receive_balance(s, to, x)
    BY DEF transfer, Then
  <1>3. s \in spend_balance_no_authorization_check(t, from, x)
    BY <1>2 DEF spend_balance
  <1>4. /\ TokenOK(s) /\ s.asset = t.asset /\ s.allowances = t.allowances
        /\ Held(t) \in Nat
        /\ Held(s) = Held(t) - (IF is_issuer(t, from) THEN 0 ELSE x)
    BY <1>1, <1>3, SpendHeld
  <1>5. is_issuer(s, to) <=> is_issuer(t, to)
    BY <1>4 DEF is_issuer, is_native
  <1>6. /\ TokenOK(r) /\ r.asset = s.asset /\ r.allowances = s.allowances
        /\ Held(r) = Held(s) + (IF is_issuer(s, to) THEN 0 ELSE x)
    BY <1>1, <1>2, <1>4, ReceiveHeld
  <1>. QED  BY <1>1, <1>4, <1>5, <1>6

(***************************************************************************)
(* Allowances.                                                             *)
(***************************************************************************)

\* An allowance is replaced.
WithAllowance(t, p, x) == [t EXCEPT !.allowances[p] = {x}]

LEMMA AllowanceReplaced ==
    ASSUME NEW t, TokenOK(t), NEW p \in Delegations, NEW x \in AllowanceEntry,
           NEW r, r = WithAllowance(t, p, x)
    PROVE  /\ TokenOK(r) /\ r.asset = t.asset /\ Held(r) = Held(t)
           /\ r.allowances[p] = {x}
           /\ \A q \in Delegations : q # p => r.allowances[q] = t.allowances[q]
  <1>1. AtMostOne({x})
    BY SingleLemma
  <1>2. /\ r.asset = t.asset /\ r.admin = t.admin /\ r.flags = t.flags /\ r.accounts = t.accounts
        /\ r.balances = t.balances /\ r.lines = t.lines
        /\ r.allowances = [t.allowances EXCEPT ![p] = {x}]
    BY DEF TokenOK, WithAllowance
  <1>3. \A q \in Delegations : r.allowances[q] = IF q = p THEN {x} ELSE t.allowances[q]
    BY <1>2 DEF TokenOK
  <1>4. TokenOK(r)
    <2>1. r \in [asset : {"none"} \cup Assets, admin : SUBSET Addresses, flags : IssuerFlags,
              accounts : [Accounts -> SUBSET AccountEntry], lines : [Accounts -> SUBSET TrustLine],
              balances : [Contracts -> SUBSET ContractEntry],
              allowances : [Delegations -> SUBSET AllowanceEntry]]
      BY DEF TokenOK, WithAllowance
    <2>2. \A q \in Delegations : AtMostOne(r.allowances[q])
      BY <1>1, <1>3 DEF TokenOK
    <2>. QED  BY <1>2, <2>1, <2>2 DEF TokenOK
  <1>7. Held(r) = Held(t)
    BY <1>2, HeldSame
  <1>. QED  BY <1>2, <1>3, <1>4, <1>7

\* What write_allowance leaves of the pair's entry.
Written(t, r, p, amount, until) ==
    \/ t.allowances[p] = {} /\ amount = 0 /\ r.allowances[p] = {}
    \/ \E x \in AllowanceEntry :
          /\ r.allowances[p] = {x} /\ x.amount = amount /\ x.until = until
          /\ t.allowances[p] = {} => x.live >= until
          /\ \A o : t.allowances[p] = {o} =>
                IF amount > 0 /\ o.until < until THEN x.live >= until ELSE x.live = o.live

\* The life that the entry of an allowance has after it was written: long enough for
\* the ledger it names when it was lengthened, else the one it had.
LEMMA WriteAllowanceLemma ==
    ASSUME seq \in Nat, seq > 0, NEW t, TokenOK(t), NEW p \in Delegations, NEW amount \in Nat,
           NEW until \in Nat, NEW r \in write_allowance(t, p, amount, until)
    PROVE  /\ TokenOK(r) /\ r.asset = t.asset /\ Held(r) = Held(t)
           /\ \A q \in Delegations : q # p => r.allowances[q] = t.allowances[q]
           /\ amount > 0 => until >= seq
           /\ Written(t, r, p, amount, until)
  <1>. DEFINE old == t.allowances[p]
              olive == IF old = {} THEN seq + MinTempTtl - 1 ELSE The(old).live
              ountil == IF old = {} THEN 0 ELSE The(old).until
              new == [amount |-> amount, until |-> until, live |-> olive]
              live_for == (IF until > seq THEN until - seq ELSE 0) + 1
              lengthened == amount > 0 /\ ountil < until
  <1>1. old = {} \/ \E o \in AllowanceEntry : old = {o} /\ The(old) = o
    <2>1. AtMostOne(old) /\ old \subseteq AllowanceEntry
      BY DEF TokenOK
    <2>2. old = {} \/ \E o : old = {o}
      BY <2>1, OptionLemma, Zenon
    <2>. QED  BY <2>1, <2>2, SingleLemma
  <1>2. olive \in Int /\ ountil \in Nat /\ MinTempTtl \in Nat
    <2>1. MinTempTtl \in Nat
      BY TokenAssumption
    <2>2. CASE old = {}
      BY <2>1, <2>2
    <2>3. CASE \E o \in AllowanceEntry : old = {o} /\ The(old) = o
      BY <2>1, <2>3 DEF AllowanceEntry
    <2>. QED  BY <1>1, <2>2, <2>3
  <1>3. /\ ~(until > max_live_until_ledger \/ (amount > 0 /\ until < seq))
        /\ \/ old = {} /\ amount = 0 /\ r = t
           \/ /\ ~(old = {} /\ amount = 0)
              /\ \E x \in IF lengthened THEN extend_allowance_ttl(new, live_for) ELSE {new} :
                    r = WithAllowance(t, p, x)
    BY DEF write_allowance, WithAllowance
  <1>4. amount > 0 => until >= seq
    BY <1>3
  <1>5. CASE old = {} /\ amount = 0 /\ r = t
    BY <1>4, <1>5 DEF Written
  <1>6. CASE ~(old = {} /\ amount = 0)
    <2>1. PICK x \in IF lengthened THEN extend_allowance_ttl(new, live_for) ELSE {new} :
             r = WithAllowance(t, p, x)
      BY <1>3, <1>6
    <2>2. new \in AllowanceEntry /\ new.amount = amount /\ new.until = until /\ new.live = olive
      <3>. HIDE DEF olive
      <3>. QED  BY <1>2 DEF AllowanceEntry
    <2>. HIDE DEF new
    <2>3. /\ x \in AllowanceEntry /\ x.amount = amount /\ x.until = until
          /\ lengthened => x.live >= until
          /\ ~lengthened => x.live = olive
      <3>1. CASE ~lengthened
        BY <2>1, <2>2, <3>1
      <3>2. CASE lengthened
        <4>1. live_for = until - seq + 1 /\ live_for \in Nat
          BY <1>4, <3>2
        <4>. HIDE DEF live_for, olive
        <4>2. seq + live_for = until + 1
          BY <4>1
        <4>3. x \in extend_allowance_ttl(new, live_for)
          BY <2>1, <3>2
        <4>4. \/ x = [new EXCEPT !.live = seq + live_for]
              \/ x = new /\ ~(seq + live_for > new.live /\ new.live - seq <= live_for)
          BY <4>3 DEF extend_allowance_ttl
        <4>5. CASE x = [new EXCEPT !.live = seq + live_for]
          <5>1. x \in AllowanceEntry /\ x.amount = new.amount /\ x.until = new.until
                   /\ x.live = until + 1
            BY <2>2, <4>2, <4>5 DEF AllowanceEntry
          <5>. QED  BY <2>2, <3>2, <5>1
        <4>6. CASE x = new /\ ~(seq + live_for > new.live /\ new.live - seq <= live_for)
          <5>1. new.live >= until
            BY <1>2, <2>2, <4>1, <4>2, <4>6
          <5>. QED  BY <2>2, <3>2, <4>6, <5>1
        <4>. QED  BY <4>4, <4>5, <4>6
      <3>. QED  BY <3>1, <3>2
    <2>4. /\ TokenOK(r) /\ r.asset = t.asset /\ Held(r) = Held(t) /\ r.allowances[p] = {x}
          /\ \A q \in Delegations : q # p => r.allowances[q] = t.allowances[q]
      BY <2>1, <2>3, AllowanceReplaced
    <2>5. old = {} => x.live >= until
      <3>. SUFFICES ASSUME old = {}
                   PROVE  x.live >= until
        OBVIOUS
      <3>1. ountil = 0 /\ amount > 0
        BY <1>6
      <3>2. lengthened
        BY <1>4, <3>1
      <3>. QED  BY <2>3, <3>2
    <2>6. ASSUME NEW o, old = {o}
          PROVE  IF amount > 0 /\ o.until < until THEN x.live >= until ELSE x.live = o.live
      <3>1. The(old) = o /\ old # {}
        BY <2>6, SingleLemma
      <3>2. ountil = o.until /\ olive = o.live
        BY <3>1
      <3>. QED  BY <2>3, <3>2
    <2>7. Written(t, r, p, amount, until)
      BY <2>3, <2>4, <2>5, <2>6 DEF Written
    <2>. QED  BY <1>4, <2>4, <2>7
  <1>. QED  BY <1>3, <1>5, <1>6

LEMMA ReadAllowanceLemma ==
    ASSUME NEW t, NEW p, NEW x, t.allowances[p] = {x}
    PROVE  read_allowance(t, p) = IF x.until >= seq THEN x.amount ELSE 0
  BY SingleLemma DEF read_allowance

\* Spending takes the amount from an allowance that has not run out, and changes
\* neither the ledger it names nor its life.
LEMMA SpendAllowanceLemma ==
    ASSUME seq \in Nat, seq > 0, NEW t, TokenOK(t), NEW p \in Delegations, NEW amount \in Nat,
           NEW r \in spend_allowance(t, p, amount)
    PROVE  /\ TokenOK(r) /\ r.asset = t.asset /\ Held(r) = Held(t)
           /\ \A q \in Delegations : q # p => r.allowances[q] = t.allowances[q]
           /\ amount = 0 => r.allowances[p] = t.allowances[p]
           /\ amount > 0 => \E o, n \in AllowanceEntry :
                 /\ t.allowances[p] = {o} /\ r.allowances[p] = {n}
                 /\ o.until >= seq
                 /\ n.amount = o.amount - amount /\ n.until = o.until /\ n.live = o.live
  <1>1. CASE amount = 0
    <2>1. r = t
      BY <1>1 DEF spend_allowance
    <2>. QED  BY <1>1, <2>1
  <1>2. CASE amount > 0
    <2>1. /\ ~(read_allowance(t, p) < amount)
          /\ r \in write_allowance(t, p, read_allowance(t, p) - amount, The(t.allowances[p]).until)
      BY <1>2 DEF spend_allowance
    <2>2. \E x \in t.allowances[p] : x.until >= seq
      <3>1. CASE ~ \E x \in t.allowances[p] : x.until >= seq
        <4>1. read_allowance(t, p) = 0
          BY <3>1 DEF read_allowance
        <4>. QED  BY <1>2, <2>1, <4>1
      <3>. QED  BY <3>1
    <2>3. PICK o \in t.allowances[p] : o.until >= seq
      BY <2>2
    <2>4. o \in AllowanceEntry /\ t.allowances[p] = {o} /\ The(t.allowances[p]) = o
      BY OneLemma DEF TokenOK
    <2>5. read_allowance(t, p) = o.amount /\ o.amount \in Nat /\ o.until \in Nat
      BY <2>3, <2>4, ReadAllowanceLemma DEF AllowanceEntry
    <2>6. o.amount - amount \in Nat
      BY <2>1, <2>5
    <2>7. r \in write_allowance(t, p, o.amount - amount, o.until)
      BY <2>1, <2>4, <2>5
    <2>. DEFINE left == o.amount - amount
    <2>. HIDE DEF left
    <2>8. /\ TokenOK(r) /\ r.asset = t.asset /\ Held(r) = Held(t)
          /\ \A q \in Delegations : q # p => r.allowances[q] = t.allowances[q]
          /\ Written(t, r, p, left, o.until)
      <3>1. left \in Nat /\ r \in write_allowance(t, p, left, o.until)
        BY <2>6, <2>7 DEF left
      <3>. QED  BY <2>5, <3>1, WriteAllowanceLemma
    <2>9. PICK x \in AllowanceEntry :
             /\ r.allowances[p] = {x} /\ x.amount = left /\ x.until = o.until
             /\ \A z : t.allowances[p] = {z} =>
                   IF left > 0 /\ z.until < o.until THEN x.live >= o.until ELSE x.live = z.live
      BY <2>4, <2>8 DEF Written
    <2>10. x.live = o.live
      BY <2>4, <2>5, <2>9
    <2>. QED  BY <1>2, <2>3, <2>4, <2>8, <2>9, <2>10 DEF left
  <1>. QED  BY <1>1, <1>2

(***************************************************************************)
(* The inductive invariant.                                                *)
(***************************************************************************)

\* The entry of an allowance is what was granted, and lives as long as the ledger it
\* names unless that ledger has passed; without an entry nothing is left.
EntryMatches(entries, g) ==
    \/ entries = {} /\ (g.until < seq \/ g.left = 0)
    \/ \E x \in entries :
          /\ entries = {x}
          /\ x.amount = g.left /\ x.until = g.until
          /\ x.live >= x.until \/ x.until < seq

AllowancesMatch ==
    \A p \in Delegations : p \notin lapsing => EntryMatches(token.allowances[p], granted[p])

AssetInv ==
    /\ TokenOK(token)
    /\ seq \in Nat /\ seq > 0
    /\ issued \in Int
    /\ granted \in [Delegations -> [left : Int, until : Nat]]
    /\ SupplyIsIssued
    /\ AllowancesMatch

LEMMA HeldType ==
    ASSUME NEW t, TokenOK(t)
    PROVE  Held(t) \in Nat
  <1>. DEFINE K == IF is_native(t) THEN Addresses ELSE Holders
              f == [b \in K |-> HoldingOf(t, b)]
  <1>1. IsFiniteSet(K) /\ K \subseteq Addresses
    BY TokenAssumption, FS_Subset DEF Holders
  <1>2. f \in [K -> Nat]
    BY <1>1, HoldingLemma DEF Addresses
  <1>3. Total(f) \in Nat
    BY <1>1, <1>2, TotalType
  <1>. QED  BY <1>3 DEF Held

LEMMA AssetInitLemma ==
    ASSUME Init
    PROVE  AssetInv
  <1>1. PICK accounts \in AccountEntries, lines \in TrustLines, flags \in IssuerFlags :
           token = [asset |-> "none", admin |-> {}, flags |-> flags, accounts |-> accounts,
                    lines |-> lines, balances |-> [c \in Contracts |-> {}],
                    allowances |-> [p \in Delegations |-> {}]]
    BY DEF Init
  <1>2. /\ token.asset = "none" /\ token.accounts = accounts /\ token.lines = lines
        /\ \A c \in Contracts : token.balances[c] = {}
        /\ \A p \in Delegations : token.allowances[p] = {}
    BY <1>1
  <1>3. accounts \in [Accounts -> SUBSET AccountEntry] /\ lines \in [Accounts -> SUBSET TrustLine]
    BY ClassicAssumption
  <1>4. AtMostOne({})
    BY DEF AtMostOne
  <1>5. TokenOK(token)
    <2>1. token \in [asset : {"none"} \cup Assets, admin : SUBSET Addresses, flags : IssuerFlags,
              accounts : [Accounts -> SUBSET AccountEntry], lines : [Accounts -> SUBSET TrustLine],
              balances : [Contracts -> SUBSET ContractEntry],
              allowances : [Delegations -> SUBSET AllowanceEntry]]
      BY <1>1, <1>3
    <2>. QED  BY <1>2, <1>4, <2>1, ClassicAssumption DEF TokenOK
  <1>6. AllowancesMatch
    BY <1>2 DEF Init, AllowancesMatch, EntryMatches
  <1>7. SupplyIsIssued
    BY <1>2 DEF SupplyIsIssued
  <1>. QED  BY <1>5, <1>6, <1>7 DEF Init, AssetInv

\* A step that touches no allowance leaves them as granted.
LEMMA AllowancesKept ==
    ASSUME AllowancesMatch, token'.allowances = token.allowances, UNCHANGED <<seq, granted, lapsing>>
    PROVE  AllowancesMatch'
  BY DEF AllowancesMatch, EntryMatches

\* A call keeps the invariant if the supply moves with what was issued and the
\* allowances are as granted.
LEMMA CallLemma ==
    ASSUME AssetInv, token.asset # "none", TokenOK(token'), token'.asset = token.asset, seq' = seq,
           NEW d \in Int, issued' = issued + d, Held(token') = Held(token) + d,
           granted' \in [Delegations -> [left : Int, until : Nat]],
           AllowancesMatch'
    PROVE  AssetInv'
  <1>1. Held(token) = issued
    BY DEF AssetInv, SupplyIsIssued
  <1>2. SupplyIsIssued'
    BY <1>1 DEF SupplyIsIssued
  <1>. QED  BY <1>2 DEF AssetInv

LEMMA InitAssetLemma ==
    ASSUME AssetInv, NEW asset \in Assets, InitAsset(asset)
    PROVE  AssetInv'
  <1>1. /\ token' = [token EXCEPT !.asset = asset, !.admin = IF asset = "native" THEN {} ELSE {Issuer}]
        /\ issued' = Held(token') /\ UNCHANGED <<seq, granted, lapsing>>
    BY DEF InitAsset
  <1>2. TokenOK(token)
    BY DEF AssetInv
  <1>3. /\ token'.asset = asset /\ token'.accounts = token.accounts /\ token'.lines = token.lines
        /\ token'.balances = token.balances /\ token'.allowances = token.allowances
    BY <1>1, <1>2 DEF TokenOK
  <1>4. TokenOK(token')
    <2>1. Issuer \in Addresses
      BY TokenAssumption DEF Addresses
    <2>. DEFINE admin == IF asset = "native" THEN {} ELSE {Issuer}
    <2>2. admin \in SUBSET Addresses
      BY <2>1
    <2>. HIDE DEF admin
    <2>3. token' = [token EXCEPT !.asset = asset, !.admin = admin]
      BY <1>1 DEF admin
    <2>4. token' \in [asset : {"none"} \cup Assets, admin : SUBSET Addresses, flags : IssuerFlags,
              accounts : [Accounts -> SUBSET AccountEntry], lines : [Accounts -> SUBSET TrustLine],
              balances : [Contracts -> SUBSET ContractEntry],
              allowances : [Delegations -> SUBSET AllowanceEntry]]
      BY <1>2, <2>2, <2>3 DEF TokenOK
    <2>. QED  BY <1>2, <1>3, <2>4 DEF TokenOK
  <1>5. issued' \in Int /\ SupplyIsIssued'
    BY <1>1, <1>4, HeldType DEF SupplyIsIssued
  <1>6. AllowancesMatch'
    BY <1>1, <1>3, AllowancesKept DEF AssetInv
  <1>. QED  BY <1>1, <1>4, <1>5, <1>6 DEF AssetInv

LEMMA DelegationLemma ==
    ASSUME NEW p \in Delegations
    PROVE  p = <<p[1], p[2]>> /\ p[1] \in Addresses /\ p[2] \in Addresses
  <1>1. p \in Addresses \X Addresses
    BY TokenAssumption
  <1>. QED  BY <1>1

LEMMA ApproveLemma ==
    ASSUME AssetInv, NEW p \in Delegations, NEW amount \in Amounts, NEW until \in Untils,
           Approve(p[1], p[2], amount, until)
    PROVE  AssetInv'
  <1>0. p = <<p[1], p[2]>>
    BY DelegationLemma
  <1>1. /\ amount >= 0 /\ token.asset # "none" /\ token' \in write_allowance(token, p, amount, until)
        /\ granted' = [granted EXCEPT ![p] = [left |-> amount, until |-> until]]
        /\ lapsing' = IF amount = 0 /\ until >= seq THEN lapsing \cup {p}
                      ELSE IF token.allowances[p] = {} THEN lapsing \ {p}
                      ELSE lapsing
        /\ seq' = seq /\ issued' = issued
    <2>1. Approve(p[1], p[2], amount, until) /\ <<p[1], p[2]>> = p
      BY <1>0
    <2>. QED  BY <2>1 DEF Approve, Does, check_nonnegative_amount
  <1>2. amount \in Nat /\ until \in Nat
    BY <1>1, TokenAssumption
  <1>3. TokenOK(token) /\ seq \in Nat /\ seq > 0
           /\ granted \in [Delegations -> [left : Int, until : Nat]] /\ AllowancesMatch
    BY DEF AssetInv
  <1>4. /\ TokenOK(token') /\ token'.asset = token.asset /\ Held(token') = Held(token)
        /\ \A q \in Delegations : q # p => token'.allowances[q] = token.allowances[q]
        /\ amount > 0 => until >= seq
        /\ Written(token, token', p, amount, until)
    BY <1>1, <1>2, <1>3, WriteAllowanceLemma
  <1>5. /\ granted' \in [Delegations -> [left : Int, until : Nat]]
        /\ granted'[p].left = amount /\ granted'[p].until = until
        /\ \A q \in Delegations : q # p => granted'[q] = granted[q]
    BY <1>1, <1>2, <1>3
  <1>6. ASSUME NEW q \in Delegations, q # p, q \notin lapsing'
        PROVE  EntryMatches(token.allowances[q], granted[q])
    BY <1>1, <1>3, <1>6 DEF AllowancesMatch
  <1>7. ASSUME p \notin lapsing'
        PROVE  \/ token'.allowances[p] = {} /\ (until < seq \/ amount = 0)
               \/ \E x \in token'.allowances[p] :
                     /\ token'.allowances[p] = {x} /\ x.amount = amount /\ x.until = until
                     /\ x.live >= x.until \/ x.until < seq
    <2>1. CASE token'.allowances[p] = {} /\ amount = 0
      BY <2>1
    <2>2. ASSUME NEW x \in AllowanceEntry, token'.allowances[p] = {x},
                 x.amount = amount, x.until = until,
                 token.allowances[p] = {} => x.live >= until,
                 \A o : token.allowances[p] = {o} =>
                    IF amount > 0 /\ o.until < until THEN x.live >= until ELSE x.live = o.live
          PROVE  x.live >= until \/ until < seq
      <3>1. CASE token.allowances[p] = {}
        BY <2>2, <3>1
      <3>2. CASE token.allowances[p] # {}
        <4>1. p \notin lapsing /\ ~(amount = 0 /\ until >= seq)
          BY <1>1, <1>7, <3>2
        <4>2. EntryMatches(token.allowances[p], granted[p])
          BY <1>3, <4>1 DEF AllowancesMatch
        <4>3. PICK o \in token.allowances[p] :
                 token.allowances[p] = {o} /\ (o.live >= o.until \/ o.until < seq)
          BY <3>2, <4>2 DEF EntryMatches
        <4>4. o \in AllowanceEntry
          BY <1>3 DEF TokenOK
        <4>5. o.until \in Nat /\ o.live \in Int /\ x.live \in Int
          BY <2>2, <4>4 DEF AllowanceEntry
        <4>6. IF amount > 0 /\ o.until < until THEN x.live >= until ELSE x.live = o.live
          BY <2>2, <4>3
        <4>. QED  BY <1>2, <1>3, <4>1, <4>3, <4>5, <4>6
      <3>. QED  BY <3>1, <3>2
    <2>. QED  BY <1>4, <2>1, <2>2 DEF Written
  <1>8. AllowancesMatch'
    <2>. SUFFICES ASSUME NEW q \in Delegations, q \notin lapsing'
                 PROVE  EntryMatches(token.allowances[q], granted[q])'
      BY DEF AllowancesMatch
    <2>1. CASE q # p
      BY <1>1, <1>4, <1>5, <1>6, <2>1 DEF EntryMatches
    <2>2. CASE q = p
      BY <1>1, <1>5, <1>7, <2>2 DEF EntryMatches
    <2>. QED  BY <2>1, <2>2
  <1>9. issued' = issued + 0 /\ Held(token') = Held(token) + 0
    BY <1>1, <1>3, <1>4, HeldType DEF AssetInv
  <1>. QED  BY <1>1, <1>4, <1>5, <1>8, <1>9, CallLemma

LEMMA TransferLemma ==
    ASSUME AssetInv, NEW from \in Addresses, NEW to \in Addresses, NEW amount \in Amounts,
           Transfer(from, to, amount)
    PROVE  AssetInv'
  <1>. DEFINE d == Flow(from, to, amount)
  <1>1. /\ token.asset # "none" /\ token' \in transfer(token, from, to, amount)
        /\ seq' = seq /\ issued' = issued + d /\ UNCHANGED <<granted, lapsing>>
    BY DEF Transfer, Does
  <1>2. TokenOK(token) /\ amount \in Int
    BY TokenAssumption DEF AssetInv
  <1>3. /\ amount \in Nat /\ TokenOK(token') /\ token'.asset = token.asset
        /\ token'.allowances = token.allowances /\ Held(token) \in Nat
        /\ Held(token') = Held(token) - (IF is_issuer(token, from) THEN 0 ELSE amount)
                                      + (IF is_issuer(token, to) THEN 0 ELSE amount)
    BY <1>1, <1>2, TransferHeld
  <1>4. d \in Int /\ Held(token') = Held(token) + d
    BY <1>3 DEF Flow
  <1>. HIDE DEF d
  <1>5. AllowancesMatch'
    BY <1>1, <1>3, AllowancesKept DEF AssetInv
  <1>6. granted' \in [Delegations -> [left : Int, until : Nat]]
    BY <1>1 DEF AssetInv
  <1>. QED  BY <1>1, <1>3, <1>4, <1>5, <1>6, CallLemma

\* What a spender has left is reduced where the allowance is.
LEMMA SpentLemma ==
    ASSUME AssetInv, NEW p \in Delegations, NEW amount \in Nat, NEW s \in spend_allowance(token, p, amount),
           Spent(p, amount), token'.allowances = s.allowances, UNCHANGED <<seq, lapsing>>
    PROVE  /\ granted' \in [Delegations -> [left : Int, until : Nat]]
           /\ AllowancesMatch'
  <1>1. TokenOK(token) /\ seq \in Nat /\ seq > 0
           /\ granted \in [Delegations -> [left : Int, until : Nat]] /\ AllowancesMatch
    BY DEF AssetInv
  <1>2. /\ \A q \in Delegations : q # p => s.allowances[q] = token.allowances[q]
        /\ amount = 0 => s.allowances[p] = token.allowances[p]
        /\ amount > 0 => \E o, n \in AllowanceEntry :
              /\ token.allowances[p] = {o} /\ s.allowances[p] = {n}
              /\ o.until >= seq
              /\ n.amount = o.amount - amount /\ n.until = o.until /\ n.live = o.live
    BY <1>1, SpendAllowanceLemma
  <1>3. CASE amount = 0
    <2>1. granted' = granted
      BY <1>3 DEF Spent
    <2>2. \A q \in Delegations : token'.allowances[q] = token.allowances[q]
      BY <1>2, <1>3
    <2>. QED  BY <1>1, <2>1, <2>2 DEF AllowancesMatch, EntryMatches
  <1>4. CASE amount > 0
    <2>. DEFINE left == IF granted[p].until < seq THEN -1 ELSE granted[p].left - amount
    <2>1. granted[p] \in [left : Int, until : Nat] /\ left \in Int
      BY <1>1
    <2>2. granted' = [granted EXCEPT ![p].left = left]
      BY <1>4 DEF Spent
    <2>. HIDE DEF left
    <2>3. /\ granted' \in [Delegations -> [left : Int, until : Nat]]
          /\ granted'[p].left = left /\ granted'[p].until = granted[p].until
          /\ \A q \in Delegations : q # p => granted'[q] = granted[q]
      BY <1>1, <2>1, <2>2
    <2>4. AllowancesMatch'
      <3>. SUFFICES ASSUME NEW q \in Delegations, q \notin lapsing'
                   PROVE  EntryMatches(token.allowances[q], granted[q])'
        BY DEF AllowancesMatch
      <3>0. EntryMatches(token.allowances[q], granted[q])
        BY <1>1 DEF AllowancesMatch
      <3>1. CASE q # p
        BY <1>2, <2>3, <3>0, <3>1 DEF EntryMatches
      <3>2. CASE q = p
        <4>1. PICK o \in AllowanceEntry, n \in AllowanceEntry :
              /\ token.allowances[p] = {o} /\ s.allowances[p] = {n}
              /\ o.until >= seq
              /\ n.amount = o.amount - amount /\ n.until = o.until /\ n.live = o.live
          BY <1>2, <1>4
        <4>2. o.amount = granted[p].left /\ o.until = granted[p].until /\ (o.live >= o.until \/ o.until < seq)
          BY <3>0, <3>2, <4>1 DEF EntryMatches
        <4>3. left = granted[p].left - amount
          BY <1>1, <2>1, <4>1, <4>2 DEF left
        <4>4. /\ token'.allowances[p] = {n} /\ n.amount = granted'[p].left
              /\ n.until = granted'[p].until /\ (n.live >= n.until \/ n.until < seq')
          BY <2>3, <4>1, <4>2, <4>3
        <4>. QED  BY <3>2, <4>4 DEF EntryMatches
      <3>. QED  BY <3>1, <3>2
    <2>. QED  BY <2>3, <2>4
  <1>. QED  BY <1>3, <1>4

LEMMA TransferFromLemma ==
    ASSUME AssetInv, NEW p \in Delegations, NEW to \in Addresses, NEW amount \in Amounts,
           TransferFrom(p[2], p[1], to, amount)
    PROVE  AssetInv'
  <1>0. p = <<p[1], p[2]>> /\ p[1] \in Addresses
    BY DelegationLemma
  <1>. DEFINE d == Flow(p[1], to, amount)
  <1>1. /\ token.asset # "none" /\ token' \in transfer_from(token, p[2], p[1], to, amount)
        /\ seq' = seq /\ issued' = issued + d /\ Spent(<<p[1], p[2]>>, amount) /\ lapsing' = lapsing
    BY DEF TransferFrom, Does
  <1>2. TokenOK(token) /\ amount \in Int /\ seq \in Nat /\ seq > 0
    BY TokenAssumption DEF AssetInv
  <1>3. amount \in Nat
    BY <1>1, <1>2 DEF transfer_from, check_nonnegative_amount
  <1>4. PICK s \in spend_allowance(token, <<p[1], p[2]>>, amount) : token' \in transfer(s, p[1], to, amount)
    BY <1>1 DEF transfer_from, Then
  <1>5. s \in spend_allowance(token, p, amount) /\ Spent(p, amount)
    BY <1>0, <1>1, <1>4
  <1>6. TokenOK(s) /\ s.asset = token.asset /\ Held(s) = Held(token)
    BY <1>2, <1>3, <1>5, SpendAllowanceLemma
  <1>7. \A b : is_issuer(s, b) <=> is_issuer(token, b)
    BY <1>6 DEF is_issuer, is_native
  <1>8. /\ TokenOK(token') /\ token'.asset = s.asset
        /\ token'.allowances = s.allowances /\ Held(s) \in Nat
        /\ Held(token') = Held(s) - (IF is_issuer(s, p[1]) THEN 0 ELSE amount)
                                  + (IF is_issuer(s, to) THEN 0 ELSE amount)
    BY <1>0, <1>2, <1>4, <1>6, TransferHeld
  <1>9. d \in Int /\ Held(token') = Held(token) + d
    BY <1>3, <1>6, <1>7, <1>8 DEF Flow
  <1>. HIDE DEF d
  <1>10. granted' \in [Delegations -> [left : Int, until : Nat]] /\ AllowancesMatch'
    BY <1>1, <1>3, <1>5, <1>8, SpentLemma
  <1>. QED  BY <1>1, <1>6, <1>8, <1>9, <1>10, CallLemma

\* What takes an amount out of circulation, or adds one.
LEMMA SupplyLemma ==
    ASSUME AssetInv, NEW d \in Int, token.asset # "none",
           TokenOK(token'), token'.asset = token.asset, token'.allowances = token.allowances,
           Held(token') = Held(token) + d,
           seq' = seq, issued' = issued + d, UNCHANGED <<granted, lapsing>>
    PROVE  AssetInv'
  <1>1. AllowancesMatch'
    BY AllowancesKept DEF AssetInv
  <1>2. granted' \in [Delegations -> [left : Int, until : Nat]]
    BY DEF AssetInv
  <1>. QED  BY <1>1, <1>2, CallLemma

LEMMA BurnLemma ==
    ASSUME AssetInv, NEW from \in Addresses, NEW amount \in Amounts, Burn(from, amount)
    PROVE  AssetInv'
  <1>1. /\ token.asset # "none" /\ token' \in burn(token, from, amount)
        /\ seq' = seq /\ issued' = issued - amount /\ UNCHANGED <<granted, lapsing>>
    BY DEF Burn, Does
  <1>2. TokenOK(token) /\ amount \in Int /\ issued \in Int
    BY TokenAssumption DEF AssetInv
  <1>3. amount \in Nat /\ ~is_issuer(token, from)
           /\ token' \in spend_balance_no_authorization_check(token, from, amount)
    <2>1. amount \in Nat /\ ~is_issuer(token, from) /\ token' \in spend_balance(token, from, amount)
      BY <1>1, <1>2 DEF burn, check_nonnegative_amount, check_not_issuer
    <2>. QED  BY <2>1, Zenon DEF spend_balance
  <1>4. /\ TokenOK(token') /\ token'.asset = token.asset /\ token'.allowances = token.allowances
        /\ Held(token) \in Nat /\ Held(token') = Held(token) - amount
    BY <1>2, <1>3, SpendHeld
  <1>. DEFINE d == -amount
  <1>5. d \in Int /\ Held(token') = Held(token) + d /\ issued' = issued + d
    BY <1>1, <1>2, <1>3, <1>4
  <1>. HIDE DEF d
  <1>. QED  BY <1>1, <1>4, <1>5, SupplyLemma

LEMMA ClawbackLemma ==
    ASSUME AssetInv, NEW admin, NEW from \in Addresses, NEW amount \in Amounts, Clawback(admin, from, amount)
    PROVE  AssetInv'
  <1>1. /\ token.asset # "none" /\ token' \in clawback(token, from, amount)
        /\ seq' = seq /\ issued' = issued - amount /\ UNCHANGED <<granted, lapsing>>
    BY DEF Clawback, Does
  <1>2. TokenOK(token) /\ amount \in Int /\ issued \in Int
    BY TokenAssumption DEF AssetInv
  <1>3. amount \in Nat /\ ~is_issuer(token, from)
           /\ token' \in spend_balance_no_authorization_check(token, from, amount)
    BY <1>1, <1>2 DEF clawback, check_nonnegative_amount, check_not_issuer
  <1>4. /\ TokenOK(token') /\ token'.asset = token.asset /\ token'.allowances = token.allowances
        /\ Held(token) \in Nat /\ Held(token') = Held(token) - amount
    BY <1>2, <1>3, SpendHeld
  <1>. DEFINE d == -amount
  <1>5. d \in Int /\ Held(token') = Held(token) + d /\ issued' = issued + d
    BY <1>1, <1>2, <1>3, <1>4
  <1>. HIDE DEF d
  <1>. QED  BY <1>1, <1>4, <1>5, SupplyLemma

LEMMA MintLemma ==
    ASSUME AssetInv, NEW admin, NEW to \in Addresses, NEW amount \in Amounts, Mint(admin, to, amount)
    PROVE  AssetInv'
  <1>1. /\ token.asset # "none" /\ token' \in mint(token, to, amount)
        /\ seq' = seq /\ issued' = issued + amount /\ UNCHANGED <<granted, lapsing>>
    BY DEF Mint, Does
  <1>2. TokenOK(token) /\ amount \in Int
    BY TokenAssumption DEF AssetInv
  <1>3. amount \in Nat /\ ~is_issuer(token, to) /\ token' \in receive_balance(token, to, amount)
    BY <1>1, <1>2 DEF mint, check_nonnegative_amount, check_not_issuer
  <1>4. /\ TokenOK(token') /\ token'.asset = token.asset /\ token'.allowances = token.allowances
        /\ Held(token') = Held(token) + amount
    BY <1>2, <1>3, ReceiveHeld
  <1>. QED  BY <1>1, <1>2, <1>4, SupplyLemma

LEMMA BurnFromLemma ==
    ASSUME AssetInv, NEW p \in Delegations, NEW amount \in Amounts, BurnFrom(p[2], p[1], amount)
    PROVE  AssetInv'
  <1>0. p = <<p[1], p[2]>> /\ p[1] \in Addresses
    BY DelegationLemma
  <1>1. /\ token.asset # "none" /\ token' \in burn_from(token, p[2], p[1], amount)
        /\ seq' = seq /\ issued' = issued - amount /\ Spent(<<p[1], p[2]>>, amount) /\ lapsing' = lapsing
    BY DEF BurnFrom, Does
  <1>2. TokenOK(token) /\ amount \in Int /\ seq \in Nat /\ seq > 0 /\ issued \in Int
    BY TokenAssumption DEF AssetInv
  <1>3. amount \in Nat /\ ~is_issuer(token, p[1])
    BY <1>1, <1>2 DEF burn_from, check_nonnegative_amount, check_not_issuer
  <1>4. PICK s \in spend_allowance(token, <<p[1], p[2]>>, amount) :
           token' \in spend_balance_no_authorization_check(s, p[1], amount)
    BY <1>1 DEF burn_from, Then, spend_balance
  <1>5. s \in spend_allowance(token, p, amount) /\ Spent(p, amount)
    BY <1>0, <1>1, <1>4
  <1>6. TokenOK(s) /\ s.asset = token.asset /\ Held(s) = Held(token)
    BY <1>2, <1>3, <1>5, SpendAllowanceLemma
  <1>7. ~is_issuer(s, p[1])
    BY <1>3, <1>6 DEF is_issuer, is_native
  <1>8. /\ TokenOK(token') /\ token'.asset = s.asset /\ token'.allowances = s.allowances
        /\ Held(s) \in Nat /\ Held(token') = Held(s) - amount
    BY <1>0, <1>3, <1>4, <1>6, <1>7, SpendHeld
  <1>. DEFINE d == -amount
  <1>9. d \in Int /\ Held(token') = Held(token) + d /\ issued' = issued + d
    BY <1>1, <1>2, <1>3, <1>6, <1>8
  <1>. HIDE DEF d
  <1>10. granted' \in [Delegations -> [left : Int, until : Nat]] /\ AllowancesMatch'
    BY <1>1, <1>3, <1>5, <1>8, SpentLemma
  <1>. QED  BY <1>1, <1>6, <1>8, <1>9, <1>10, CallLemma

\* Freezing and releasing an address changes no holding.
LEMMA AuthorizationEffect ==
    ASSUME NEW t, TokenOK(t), NEW a \in Addresses, NEW authorize \in BOOLEAN,
           NEW r \in write_authorization(t, a, authorize)
    PROVE  /\ TokenOK(r) /\ OnlyAt(a, t, r)
           /\ HoldingOf(r, a) = HoldingOf(t, a)
  <1>1. CASE a \in Accounts
    <2>1. ~is_native(t) /\ r \in set_authorization(t, a, authorize)
      BY <1>1 DEF write_authorization, set_authorization
    <2>2. PICK tl \in t.lines[a] :
             \/ r = t
             \/ r = [t EXCEPT !.lines[a] = {[tl EXCEPT !.authorized = authorize, !.maintain = ~authorize]}]
      BY <2>1 DEF set_authorization
    <2>. DEFINE new == [tl EXCEPT !.authorized = authorize, !.maintain = ~authorize]
    <2>3. tl \in TrustLine /\ TrustLineOK(a, tl) /\ t.lines[a] = {tl}
      BY <1>1, OneLemma DEF TokenOK
    <2>4. CASE r = t
      BY <2>4 DEF OnlyAt
    <2>5. CASE r = WithLine(t, a, new)
      <3>1. new \in TrustLine /\ TrustLineOK(a, new) /\ new.balance = tl.balance
        BY <2>3 DEF TrustLine, TrustLineOK
      <3>. HIDE DEF new
      <3>2. TokenOK(r) /\ OnlyAt(a, t, r) /\ r.lines[a] = {new}
        BY <1>1, <2>5, <3>1, LineReplaced
      <3>3. ~is_native(r)
        BY <2>1, <3>2, ElsewhereLemma
      <3>4. HoldingOf(t, a) = tl.balance /\ HoldingOf(r, a) = new.balance
        BY <1>1, <2>1, <2>3, <3>2, <3>3, HoldingLemma
      <3>. QED  BY <3>1, <3>2, <3>4
    <2>. QED  BY <2>2, <2>4, <2>5 DEF WithLine
  <1>2. CASE a \in Contracts
    <2>0. a \notin Accounts
      BY <1>2, TokenAssumption
    <2>a. PICK b \in ContractBalance(t, a, authorize) :
             r = write_contract_balance(t, a, [b EXCEPT !.authorized = authorize])
      BY <2>0, Zenon DEF write_authorization
    <2>. DEFINE new == [b EXCEPT !.authorized = authorize]
    <2>1. b \in ContractEntry /\ HoldingOf(t, a) = b.amount
      BY <1>2, ContractBalanceLemma, HoldingLemma
    <2>2. r = write_contract_balance(t, a, new)
      BY <2>a
    <2>3. new \in ContractEntry /\ new.amount = b.amount
      BY <2>1 DEF ContractEntry
    <2>. HIDE DEF new
    <2>4. TokenOK(r) /\ OnlyAt(a, t, r) /\ r.balances[a] = {new}
      BY <1>2, <2>2, <2>3, ContractWrite
    <2>5. HoldingOf(r, a) = new.amount
      BY <1>2, <2>4, HoldingLemma
    <2>. QED  BY <2>1, <2>3, <2>4, <2>5
  <1>. QED  BY <1>1, <1>2 DEF Addresses

LEMMA SetAuthorizedLemma ==
    ASSUME AssetInv, NEW admin, NEW a \in Addresses, NEW authorize \in BOOLEAN,
           SetAuthorized(admin, a, authorize)
    PROVE  AssetInv'
  <1>1. /\ token.asset # "none" /\ token' \in write_authorization(token, a, authorize)
        /\ seq' = seq /\ UNCHANGED <<issued, granted, lapsing>>
    BY DEF SetAuthorized, Does
  <1>2. TokenOK(token) /\ issued \in Int
    BY DEF AssetInv
  <1>3. TokenOK(token') /\ OnlyAt(a, token, token') /\ HoldingOf(token', a) = HoldingOf(token, a)
    BY <1>1, <1>2, AuthorizationEffect
  <1>4. /\ is_native(token') <=> is_native(token)
        /\ \A b \in Addresses : HoldingOf(token', b) = HoldingOf(token, b)
    BY <1>3, ElsewhereLemma
  <1>5. Held(token') = Held(token) + 0 /\ issued' = issued + 0
    BY <1>1, <1>2, <1>4, HeldKept, HeldType
  <1>6. token'.asset = token.asset /\ token'.allowances = token.allowances
    BY <1>3 DEF OnlyAt
  <1>. QED  BY <1>1, <1>3, <1>5, <1>6, SupplyLemma

\* The administrator and the issuer's flags are not part of any holding.
LEMMA SettingLemma ==
    ASSUME AssetInv, NEW admin \in SUBSET Addresses, NEW flags \in IssuerFlags, token.asset # "none",
           token' = [token EXCEPT !.admin = admin, !.flags = flags],
           UNCHANGED <<seq, issued, granted, lapsing>>
    PROVE  AssetInv'
  <1>1. TokenOK(token) /\ issued \in Int
    BY DEF AssetInv
  <1>2. /\ token'.asset = token.asset /\ token'.accounts = token.accounts /\ token'.lines = token.lines
        /\ token'.balances = token.balances /\ token'.allowances = token.allowances
    BY <1>1 DEF TokenOK
  <1>3. TokenOK(token')
    <2>1. token' \in [asset : {"none"} \cup Assets, admin : SUBSET Addresses, flags : IssuerFlags,
              accounts : [Accounts -> SUBSET AccountEntry], lines : [Accounts -> SUBSET TrustLine],
              balances : [Contracts -> SUBSET ContractEntry],
              allowances : [Delegations -> SUBSET AllowanceEntry]]
      BY <1>1 DEF TokenOK
    <2>. QED  BY <1>1, <1>2, <2>1 DEF TokenOK
  <1>6. Held(token') = Held(token) + 0 /\ issued' = issued + 0
    <2>1. Held(token') = Held(token)
      BY <1>2, HeldSame
    <2>2. Held(token) \in Nat
      BY <1>1, HeldType
    <2>. QED  BY <1>1, <2>1, <2>2
  <1>. QED  BY <1>2, <1>3, <1>6, SupplyLemma

LEMMA SetAdminLemma ==
    ASSUME AssetInv, NEW admin, NEW new_admin \in Addresses, SetAdmin(admin, new_admin)
    PROVE  AssetInv'
  <1>1. /\ token.asset # "none" /\ token' = [token EXCEPT !.admin = {new_admin}]
        /\ UNCHANGED <<seq, issued, granted, lapsing>>
    BY DEF SetAdmin, Does
  <1>2. TokenOK(token)
    BY DEF AssetInv
  <1>. DEFINE new == {new_admin}
  <1>3. token.flags \in IssuerFlags /\ new \in SUBSET Addresses
           /\ token' = [token EXCEPT !.admin = new, !.flags = token.flags]
    BY <1>1, <1>2 DEF TokenOK
  <1>. HIDE DEF new
  <1>. QED  BY <1>1, <1>3, SettingLemma

LEMMA SetOptionsLemma ==
    ASSUME AssetInv, NEW flags \in IssuerFlags, SetOptions(flags)
    PROVE  AssetInv'
  <1>1. /\ token.asset # "none" /\ token' = [token EXCEPT !.flags = flags]
        /\ UNCHANGED <<seq, issued, granted, lapsing>>
    BY DEF SetOptions, Does
  <1>2. TokenOK(token)
    BY DEF AssetInv
  <1>3. token.admin \in SUBSET Addresses /\ token' = [token EXCEPT !.admin = token.admin, !.flags = flags]
    BY <1>1, <1>2 DEF TokenOK
  <1>. QED  BY <1>1, <1>3, SettingLemma

\* A ledger closes: an entry that is dropped has outlived the ledger it names.
LEMMA CloseLedgerLemma ==
    ASSUME AssetInv, CloseLedger
    PROVE  AssetInv'
  <1>. DEFINE kept == [p \in Delegations |-> {x \in token.allowances[p] : x.live >= seq + 1}]
  <1>1. /\ token.asset # "none" /\ seq' = seq + 1 /\ token' = [token EXCEPT !.allowances = kept]
        /\ UNCHANGED <<issued, granted, lapsing>>
    BY DEF CloseLedger
  <1>2. /\ TokenOK(token) /\ issued \in Int /\ seq \in Nat /\ seq > 0 /\ AllowancesMatch
        /\ granted \in [Delegations -> [left : Int, until : Nat]]
    BY DEF AssetInv
  <1>3. /\ kept \in [Delegations -> SUBSET AllowanceEntry]
        /\ \A p \in Delegations : kept[p] = {x \in token.allowances[p] : x.live >= seq + 1}
    BY <1>2 DEF TokenOK
  <1>. HIDE DEF kept
  <1>4. /\ token'.asset = token.asset /\ token'.accounts = token.accounts /\ token'.lines = token.lines
        /\ token'.balances = token.balances /\ token'.allowances = kept
    BY <1>1, <1>2 DEF TokenOK
  <1>5. TokenOK(token')
    <2>1. token' \in [asset : {"none"} \cup Assets, admin : SUBSET Addresses, flags : IssuerFlags,
              accounts : [Accounts -> SUBSET AccountEntry], lines : [Accounts -> SUBSET TrustLine],
              balances : [Contracts -> SUBSET ContractEntry],
              allowances : [Delegations -> SUBSET AllowanceEntry]]
      BY <1>1, <1>2, <1>3 DEF TokenOK
    <2>2. \A p \in Delegations : AtMostOne(kept[p])
      BY <1>2, <1>3 DEF TokenOK, AtMostOne
    <2>. QED  BY <1>2, <1>4, <2>1, <2>2 DEF TokenOK
  <1>6. SupplyIsIssued'
    <2>1. Held(token') = Held(token)
      BY <1>4, HeldSame
    <2>. QED  BY <1>1, <1>4, <2>1 DEF AssetInv, SupplyIsIssued
  <1>7. AllowancesMatch'
    <2>. SUFFICES ASSUME NEW p \in Delegations, p \notin lapsing'
                 PROVE  EntryMatches(token.allowances[p], granted[p])'
      BY DEF AllowancesMatch
    <2>1. EntryMatches(token.allowances[p], granted[p])
      BY <1>1, <1>2 DEF AllowancesMatch
    <2>2. granted[p].until \in Nat
      BY <1>2
    <2>3. CASE token.allowances[p] = {} /\ (granted[p].until < seq \/ granted[p].left = 0)
      <3>1. token'.allowances[p] = {} /\ (granted'[p].until < seq' \/ granted'[p].left = 0)
        BY <1>1, <1>2, <1>3, <1>4, <2>2, <2>3
      <3>. QED  BY <3>1 DEF EntryMatches
    <2>4. ASSUME NEW x \in token.allowances[p], token.allowances[p] = {x},
                 x.amount = granted[p].left, x.until = granted[p].until,
                 x.live >= x.until \/ x.until < seq
          PROVE  EntryMatches(token.allowances[p], granted[p])'
      <3>1. x \in AllowanceEntry
        BY <1>2 DEF TokenOK
      <3>2. x.live \in Int /\ x.until \in Nat
        BY <3>1 DEF AllowanceEntry
      <3>3. CASE x.live >= seq + 1
        <4>1. /\ token'.allowances[p] = {x} /\ x.amount = granted'[p].left /\ x.until = granted'[p].until
              /\ x.live >= x.until \/ x.until < seq'
          BY <1>1, <1>2, <1>3, <1>4, <2>4, <3>2, <3>3
        <4>. QED  BY <4>1 DEF EntryMatches
      <3>4. CASE ~(x.live >= seq + 1)
        <4>1. token'.allowances[p] = {} /\ granted'[p].until < seq'
          BY <1>1, <1>2, <1>3, <1>4, <2>4, <3>2, <3>4
        <4>. QED  BY <4>1 DEF EntryMatches
      <3>. QED  BY <3>3, <3>4
    <2>. QED  BY <2>1, <2>3, <2>4 DEF EntryMatches
  <1>. QED  BY <1>1, <1>2, <1>5, <1>6, <1>7 DEF AssetInv

(***************************************************************************)
(* Theorems.                                                               *)
(***************************************************************************)

\* The token's invariant: its entries are well formed (one at most for an address or
\* a pair), the balances in circulation are what was issued, and the entry of an
\* allowance is what was granted and lives long enough.
THEOREM AssetInvariant == Spec => []AssetInv
  <1>1. Init => AssetInv
    BY AssetInitLemma
  <1>2. AssetInv /\ [Next]_vars => AssetInv'
    <2>. SUFFICES ASSUME AssetInv, [Next]_vars
                 PROVE  AssetInv'
      OBVIOUS
    <2>1. CASE UNCHANGED vars
      <3>1. UNCHANGED <<token, seq, issued, granted, lapsing>>
        BY <2>1 DEF vars
      <3>2. SupplyIsIssued' /\ AllowancesMatch'
        BY <3>1 DEF AssetInv, SupplyIsIssued, AllowancesMatch, EntryMatches
      <3>. QED  BY <3>1, <3>2 DEF AssetInv
    <2>2. ASSUME NEW asset \in Assets, InitAsset(asset)
          PROVE  AssetInv'
      BY <2>2, InitAssetLemma
    <2>3. ASSUME NEW p \in Delegations, NEW a \in Amounts, NEW u \in Untils, Approve(p[1], p[2], a, u)
          PROVE  AssetInv'
      BY <2>3, ApproveLemma
    <2>4. ASSUME NEW from \in Addresses, NEW to \in Addresses, NEW a \in Amounts, Transfer(from, to, a)
          PROVE  AssetInv'
      BY <2>4, TransferLemma
    <2>5. ASSUME NEW p \in Delegations, NEW to \in Addresses, NEW a \in Amounts,
                 TransferFrom(p[2], p[1], to, a)
          PROVE  AssetInv'
      BY <2>5, TransferFromLemma
    <2>6. ASSUME NEW from \in Addresses, NEW a \in Amounts, Burn(from, a)
          PROVE  AssetInv'
      BY <2>6, BurnLemma
    <2>7. ASSUME NEW p \in Delegations, NEW a \in Amounts, BurnFrom(p[2], p[1], a)
          PROVE  AssetInv'
      BY <2>7, BurnFromLemma
    <2>8. ASSUME NEW admin \in Addresses, NEW from \in Addresses, NEW a \in Amounts, Clawback(admin, from, a)
          PROVE  AssetInv'
      BY <2>8, ClawbackLemma
    <2>9. ASSUME NEW admin \in Addresses, NEW to \in Addresses, NEW a \in Amounts, Mint(admin, to, a)
          PROVE  AssetInv'
      BY <2>9, MintLemma
    <2>10. ASSUME NEW admin \in Addresses, NEW a \in Addresses, NEW authorize \in BOOLEAN,
                  SetAuthorized(admin, a, authorize)
           PROVE  AssetInv'
      BY <2>10, SetAuthorizedLemma
    <2>11. ASSUME NEW admin \in Addresses, NEW new_admin \in Addresses, SetAdmin(admin, new_admin)
           PROVE  AssetInv'
      BY <2>11, SetAdminLemma
    <2>12. ASSUME NEW flags \in IssuerFlags, SetOptions(flags)
           PROVE  AssetInv'
      BY <2>12, SetOptionsLemma
    <2>13. CASE CloseLedger
      BY <2>13, CloseLedgerLemma
    <2>. QED
      BY <2>1, <2>2, <2>3, <2>4, <2>5, <2>6, <2>7, <2>8, <2>9, <2>10, <2>11, <2>12, <2>13 DEF Next
  <1>. QED  BY <1>1, <1>2, PTL DEF Spec

\* The balances in circulation are what the issuer gave out and did not get back,
\* through every function of the contract, for accounts and contracts alike.
THEOREM SupplyCorrect == Spec => []SupplyIsIssued
  <1>1. AssetInv => SupplyIsIssued
    BY DEF AssetInv
  <1>. QED  BY <1>1, AssetInvariant, PTL

\* A spender can spend exactly what was last approved and not spent yet, until the
\* ledger that approve named, except after a zero approval that named a later one:
\* the entry's own life, which the contract lengthens, never ends too early.
THEOREM AllowanceCorrect == Spec => []AllowanceIsAsApproved
  <1>1. AssetInv => AllowanceIsAsApproved
    <2>. SUFFICES ASSUME AssetInv, NEW p \in Delegations, p \notin lapsing
                 PROVE  read_allowance(token, p) = IF granted[p].until >= seq THEN granted[p].left ELSE 0
      BY DEF AllowanceIsAsApproved
    <2>1. EntryMatches(token.allowances[p], granted[p]) /\ seq \in Nat /\ granted[p].until \in Nat
      BY DEF AssetInv, AllowancesMatch
    <2>2. CASE token.allowances[p] = {} /\ (granted[p].until < seq \/ granted[p].left = 0)
      <3>1. read_allowance(token, p) = 0
        BY <2>2 DEF read_allowance
      <3>. QED  BY <2>1, <2>2, <3>1
    <2>3. ASSUME NEW x, token.allowances[p] = {x}, x.amount = granted[p].left, x.until = granted[p].until
          PROVE  read_allowance(token, p) = IF granted[p].until >= seq THEN granted[p].left ELSE 0
      BY <2>3, ReadAllowanceLemma
    <2>. QED  BY <2>1, <2>2, <2>3 DEF EntryMatches
  <1>. QED  BY <1>1, AssetInvariant, PTL

(***************************************************************************)
(* The ledger of the escrow and the pools.                                 *)
(***************************************************************************)

\* Plain, of any state of the token; what such a holder can hold.
IsPlain(t, a) ==
    a # Issuer /\ (a \in Accounts => \E tl \in t.lines[a] : tl.selling = 0 /\ tl.buying = 0)

Room(a) == IF a \in Contracts THEN I128Max ELSE LineLimit[a]

MayMove(t, a) == TRUE \in is_authorized(t, a)

\* The line of a plain account.
LEMMA PlainLine ==
    ASSUME NEW t, TokenOK(t), ~is_native(t), NEW a \in Accounts, IsPlain(t, a)
    PROVE  /\ ~is_issuer(t, a) /\ Room(a) = LineLimit[a] /\ Room(a) \in 0..I64Max
           /\ \E tl \in TrustLine :
                 /\ t.lines[a] = {tl} /\ tl.selling = 0 /\ tl.buying = 0
                 /\ TrustlineRange(tl) = 0..Room(a)
                 /\ tl.balance \in 0..Room(a)
                 /\ HoldingOf(t, a) = tl.balance
                 /\ BalanceOf(t, a) = tl.balance
  <1>1. ~is_issuer(t, a) /\ a \notin Contracts
    BY TokenAssumption DEF IsPlain, is_issuer
  <1>2. Room(a) = LineLimit[a] /\ Room(a) \in 0..I64Max
    BY <1>1, ClassicAssumption DEF Room
  <1>3. PICK tl \in t.lines[a] : tl.selling = 0 /\ tl.buying = 0
    BY DEF IsPlain
  <1>4. t.lines[a] = {tl} /\ tl \in TrustLine /\ TrustLineOK(a, tl)
    BY OneLemma DEF TokenOK
  <1>5. tl.limit = Room(a) /\ tl.balance \in Nat /\ tl.balance <= Room(a) /\ tl.limit \in Nat
    BY <1>2, <1>3, <1>4 DEF TrustLineOK, TrustLine
  <1>6. TrustlineRange(tl) = 0..Room(a) /\ tl.balance \in TrustlineRange(tl) /\ tl.balance \in 0..Room(a)
    BY <1>3, <1>5 DEF TrustlineRange
  <1>7. HoldingOf(t, a) = tl.balance
    BY <1>4, HoldingLemma
  <1>8. BalanceOf(t, a) = tl.balance
    <2>1. {y \in t.lines[a] : y.balance \in TrustlineRange(y)} = {tl}
      BY <1>4, <1>6
    <2>2. get_classic_balance(t, a) = {tl.balance}
      BY <1>1, <2>1 DEF get_classic_balance
    <2>3. read_balance(t, a) = {tl.balance}
      BY <2>2 DEF read_balance
    <2>. QED  BY <2>3, SingleLemma DEF BalanceOf
  <1>. QED  BY <1>1, <1>2, <1>3, <1>4, <1>6, <1>7, <1>8

\* A plain holder's balance can be read, and fits.
LEMMA PlainBalance ==
    ASSUME NEW t, TokenOK(t), ~is_native(t), NEW a \in Addresses, IsPlain(t, a)
    PROVE  /\ ~is_issuer(t, a)
           /\ BalanceOf(t, a) = HoldingOf(t, a)
           /\ HoldingOf(t, a) \in 0..Room(a)
           /\ Room(a) \in Nat
  <1>1. CASE a \in Accounts
    BY <1>1, PlainLine
  <1>2. CASE a \in Contracts
    <2>1. a \notin Accounts /\ ~is_issuer(t, a) /\ Room(a) = I128Max /\ I128Max \in Nat
      BY <1>2, TokenAssumption DEF is_issuer, Room
    <2>2. CASE t.balances[a] = {}
      <3>1. read_balance(t, a) = {0}
        BY <2>1, <2>2 DEF read_balance
      <3>2. BalanceOf(t, a) = 0
        BY <3>1, SingleLemma DEF BalanceOf
      <3>. QED  BY <1>2, <2>1, <2>2, <3>2, HoldingLemma
    <2>3. CASE t.balances[a] # {}
      <3>1. PICK b \in t.balances[a] : TRUE
        BY <2>3
      <3>2. t.balances[a] = {b} /\ b \in ContractEntry
        BY <1>2, OneLemma DEF TokenOK
      <3>3. read_balance(t, a) = {b.amount}
        BY <2>1, <3>2 DEF read_balance
      <3>4. BalanceOf(t, a) = b.amount
        BY <3>3, SingleLemma DEF BalanceOf
      <3>5. HoldingOf(t, a) = b.amount
        BY <1>2, <3>2, HoldingLemma
      <3>. QED  BY <2>1, <3>2, <3>4, <3>5 DEF ContractEntry
    <2>. QED  BY <2>2, <2>3
  <1>. QED  BY <1>1, <1>2 DEF Addresses

\* A line that only gets another balance keeps its owner plain and as authorized.
LEMMA LineKept ==
    ASSUME NEW t, TokenOK(t), ~is_native(t), NEW a \in Accounts, IsPlain(t, a), NEW d \in Int,
           NEW r \in transfer_classic_balance(t, a, d)
    PROVE  IsPlain(r, a) /\ (MayMove(r, a) <=> MayMove(t, a))
  <1>0. ~is_issuer(t, a)
    BY PlainLine
  <1>1. r \in transfer_trustline_balance(t, a, d)
    BY <1>0 DEF transfer_classic_balance
  <1>2. TokenOK(r) /\ OnlyAt(a, t, r)
    BY <1>1, LineMove
  <1>3. PICK tl \in t.lines[a] : t.lines[a] = {tl} /\ r.lines[a] = {[tl EXCEPT !.balance = tl.balance + d]}
    BY <1>1, LineMove
  <1>. DEFINE new == [tl EXCEPT !.balance = tl.balance + d]
  <1>4. tl \in TrustLine
    BY DEF TokenOK
  <1>5. new.selling = tl.selling /\ new.buying = tl.buying /\ new.authorized = tl.authorized
    BY <1>4 DEF TrustLine
  <1>. HIDE DEF new
  <1>6. r.lines[a] = {new}
    BY <1>3 DEF new
  <1>7. IsPlain(r, a)
    BY <1>3, <1>5, <1>6 DEF IsPlain
  <1>8. ~is_native(r) /\ ~is_issuer(r, a)
    BY <1>0, <1>2, ElsewhereLemma
  <1>9. is_authorized(r, a) = {new.authorized}
    BY <1>6, <1>8 DEF is_authorized, is_account_authorized
  <1>10. is_authorized(t, a) = {tl.authorized}
    BY <1>0, <1>3 DEF is_authorized, is_account_authorized
  <1>11. is_authorized(r, a) = is_authorized(t, a)
    BY <1>5, <1>9, <1>10
  <1>. QED  BY <1>7, <1>11, Zenon DEF MayMove

\* Moving the balance of a plain account succeeds exactly when it stays in its range.
LEMMA LineMoves ==
    ASSUME NEW t, TokenOK(t), ~is_native(t), NEW a \in Accounts, IsPlain(t, a), NEW d \in Int
    PROVE  transfer_classic_balance(t, a, d) # {} <=> HoldingOf(t, a) + d \in 0..Room(a)
  <1>1. ~is_issuer(t, a)
    BY PlainLine
  <1>2. PICK tl \in TrustLine :
           t.lines[a] = {tl} /\ TrustlineRange(tl) = 0..Room(a) /\ HoldingOf(t, a) = tl.balance
    BY PlainLine
  <1>3. transfer_classic_balance(t, a, d) = transfer_trustline_balance(t, a, d)
    BY <1>1 DEF transfer_classic_balance
  <1>4. transfer_trustline_balance(t, a, d) # {} <=> \E x \in t.lines[a] : x.balance + d \in TrustlineRange(x)
    BY DEF transfer_trustline_balance
  <1>. QED  BY <1>2, <1>3, <1>4

\* Spending by a plain holder.
LEMMA SpendPlain ==
    ASSUME NEW t, TokenOK(t), ~is_native(t), NEW a \in Addresses, IsPlain(t, a), NEW x \in Nat
    PROVE  /\ spend_balance(t, a, x) # {} <=> MayMove(t, a) /\ HoldingOf(t, a) >= x
           /\ \A r \in spend_balance(t, a, x) :
                 IsPlain(r, a) /\ (MayMove(r, a) <=> MayMove(t, a))
  <1>. DEFINE S == spend_balance_no_authorization_check(t, a, x)
  <1>0. spend_balance(t, a, x) = IF MayMove(t, a) THEN S ELSE {}
    BY Zenon DEF spend_balance, MayMove
  <1>1. /\ S # {} <=> HoldingOf(t, a) >= x
        /\ \A r \in S : IsPlain(r, a) /\ (MayMove(r, a) <=> MayMove(t, a))
    <2>1. CASE a \in Accounts
      <3>1. HoldingOf(t, a) \in 0..Room(a) /\ Room(a) \in 0..I64Max /\ I64Max \in Nat
        BY <2>1, PlainLine, TokenAssumption
      <3>2. S = IF x > I64Max THEN {} ELSE transfer_classic_balance(t, a, -x)
        BY <2>1 DEF spend_balance_no_authorization_check
      <3>. DEFINE d == -x
      <3>3. d \in Int
        OBVIOUS
      <3>4. HoldingOf(t, a) + d \in 0..Room(a) <=> HoldingOf(t, a) >= x
        BY <3>1
      <3>5. S = IF x > I64Max THEN {} ELSE transfer_classic_balance(t, a, d)
        BY <3>2
      <3>. HIDE DEF d, S
      <3>6. transfer_classic_balance(t, a, d) # {} <=> HoldingOf(t, a) >= x
        BY <2>1, <3>3, <3>4, LineMoves
      <3>7. \A r \in transfer_classic_balance(t, a, d) : IsPlain(r, a) /\ (MayMove(r, a) <=> MayMove(t, a))
        BY <2>1, <3>3, LineKept
      <3>8. x > I64Max => ~(HoldingOf(t, a) >= x)
        BY <3>1
      <3>. QED  BY <3>5, <3>6, <3>7, <3>8
    <2>2. CASE a \in Contracts
      <3>1. a \notin Accounts
        BY <2>2, TokenAssumption
      <3>2. CASE t.balances[a] = {}
        <4>1. S = IF x > 0 THEN {} ELSE {t}
          BY <3>1, <3>2 DEF spend_balance_no_authorization_check
        <4>2. HoldingOf(t, a) = 0
          BY <2>2, <3>2, HoldingLemma
        <4>. QED  BY <4>1, <4>2
      <3>3. CASE t.balances[a] # {}
        <4>1. PICK b \in t.balances[a] : TRUE
          BY <3>3
        <4>2. t.balances[a] = {b} /\ b \in ContractEntry
          BY <2>2, OneLemma DEF TokenOK
        <4>3. HoldingOf(t, a) = b.amount
          BY <2>2, <4>2, HoldingLemma
        <4>. DEFINE new == [b EXCEPT !.amount = b.amount - x]
        <4>4. S = {write_contract_balance(t, a, [y EXCEPT !.amount = y.amount - x]) :
                     y \in {z \in t.balances[a] : z.amount >= x}}
          BY <3>1, <3>3 DEF spend_balance_no_authorization_check
        <4>5. S = IF b.amount >= x THEN {write_contract_balance(t, a, new)} ELSE {}
          BY <4>2, <4>4
        <4>6. ASSUME NEW r \in S
              PROVE  IsPlain(r, a) /\ (MayMove(r, a) <=> MayMove(t, a))
          <5>1. b.amount >= x /\ r = write_contract_balance(t, a, new)
            BY <4>5, <4>6
          <5>2. new \in ContractEntry /\ new.authorized = b.authorized
            BY <4>2, <5>1, TokenAssumption DEF ContractEntry
          <5>. HIDE DEF new
          <5>3. r.balances[a] = {new}
            BY <2>2, <5>1, <5>2, ContractWrite
          <5>4. is_authorized(r, a) = {new.authorized} /\ is_authorized(t, a) = {b.authorized}
            BY <3>1, <4>2, <5>3 DEF is_authorized
          <5>5. is_authorized(r, a) = is_authorized(t, a)
            BY <5>2, <5>4
          <5>6. IsPlain(r, a)
            BY <3>1 DEF IsPlain
          <5>. QED  BY <5>5, <5>6, Zenon DEF MayMove
        <4>. HIDE DEF S, new
        <4>. QED  BY <4>3, <4>5, <4>6
      <3>. QED  BY <3>2, <3>3
    <2>. QED  BY <2>1, <2>2 DEF Addresses
  <1>. HIDE DEF S
  <1>. QED  BY <1>0, <1>1

\* Receiving by a plain holder.
LEMMA ReceivePlain ==
    ASSUME NEW t, TokenOK(t), ~is_native(t), NEW a \in Addresses, IsPlain(t, a), NEW x \in Nat
    PROVE  /\ receive_balance(t, a, x) # {} <=> MayMove(t, a) /\ HoldingOf(t, a) + x <= Room(a)
           /\ \A r \in receive_balance(t, a, x) : IsPlain(r, a)
  <1>1. CASE a \in Accounts
    <2>. DEFINE S == IF x > I64Max THEN {} ELSE transfer_classic_balance(t, a, x)
    <2>0. receive_balance(t, a, x) = IF MayMove(t, a) THEN S ELSE {}
      BY <1>1, Zenon DEF receive_balance, MayMove
    <2>1. HoldingOf(t, a) \in 0..Room(a) /\ Room(a) \in 0..I64Max /\ I64Max \in Nat
      BY <1>1, PlainLine, TokenAssumption
    <2>2. HoldingOf(t, a) + x \in 0..Room(a) <=> HoldingOf(t, a) + x <= Room(a)
      BY <2>1
    <2>3. transfer_classic_balance(t, a, x) # {} <=> HoldingOf(t, a) + x <= Room(a)
      BY <1>1, <2>2, LineMoves
    <2>4. \A r \in transfer_classic_balance(t, a, x) : IsPlain(r, a)
      BY <1>1, LineKept
    <2>5. x > I64Max => ~(HoldingOf(t, a) + x <= Room(a))
      BY <2>1
    <2>. QED  BY <2>0, <2>3, <2>4, <2>5
  <1>2. CASE a \in Contracts
    <2>1. a \notin Accounts /\ Room(a) = I128Max
      BY <1>2, TokenAssumption DEF Room
    <2>. DEFINE B == ContractBalance(t, a, TRUE)
    <2>2. receive_balance(t, a, x) = IF MayMove(t, a) THEN Received(t, a, x) ELSE {}
      BY <2>1, Zenon DEF receive_balance, MayMove
    <2>3. ASSUME NEW b \in B
          PROVE  HoldingOf(t, a) = b.amount
      <3>1. (t.balances[a] # {} => t.balances[a] = {b}) /\ (t.balances[a] = {} => b.amount = 0)
        BY <1>2, ContractBalanceLemma
      <3>. QED  BY <1>2, <3>1, HoldingLemma
    <2>4. MayMove(t, a) => B # {}
      <3>. SUFFICES ASSUME MayMove(t, a), t.balances[a] = {}
                   PROVE  B # {}
        BY DEF ContractBalance
      <3>1. is_asset_issuer_flag_set(t, "required") # {}
        BY <2>1 DEF MayMove, is_authorized
      <3>2. is_asset_issuer_flag_set(t, "clawback") # {}
        BY <3>1 DEF is_asset_issuer_flag_set
      <3>. QED  BY <3>2 DEF ContractBalance
    <2>5. Received(t, a, x) # {} <=> \E b \in B : b.amount + x <= I128Max
      BY DEF Received
    <2>6. \A r : IsPlain(r, a)
      BY <2>1 DEF IsPlain
    <2>. HIDE DEF B
    <2>. QED  BY <2>1, <2>2, <2>3, <2>4, <2>5, <2>6
  <1>. QED  BY <1>1, <1>2 DEF Addresses

\* A transfer between plain holders: when it succeeds, and the balances it leaves.
LEMMA TransferPlain ==
    ASSUME NEW t, TokenOK(t), ~is_native(t), NEW from \in Addresses, NEW to \in Addresses,
           IsPlain(t, from), IsPlain(t, to), NEW x \in Nat,
           NEW paid, paid = BalanceOf(t, to) - (IF to = from THEN x ELSE 0)
    PROVE  /\ transfer(t, from, to, x) # {} <=>
                 /\ MayMove(t, from) /\ BalanceOf(t, from) >= x
                 /\ MayMove(t, to) /\ paid + x <= Room(to)
           /\ \A r \in transfer(t, from, to, x) :
                 /\ BalanceOf(r, to) = paid + x
                 /\ from # to => BalanceOf(r, from) = BalanceOf(t, from) - x
                 /\ \A b \in Addresses : b \notin {from, to} => BalanceOf(r, b) = BalanceOf(t, b)
  <1>1. transfer(t, from, to, x) = UNION {receive_balance(s, to, x) : s \in spend_balance(t, from, x)}
    BY DEF transfer, Then, check_nonnegative_amount
  <1>2. /\ BalanceOf(t, from) = HoldingOf(t, from) /\ BalanceOf(t, to) = HoldingOf(t, to)
        /\ HoldingOf(t, from) \in Nat /\ HoldingOf(t, to) \in Nat
        /\ ~is_issuer(t, from) /\ ~is_issuer(t, to) /\ Room(to) \in Nat
    BY PlainBalance
  <1>3. spend_balance(t, from, x) # {} <=> MayMove(t, from) /\ BalanceOf(t, from) >= x
    BY <1>2, SpendPlain
  <1>4. ASSUME NEW s \in spend_balance(t, from, x)
        PROVE  /\ TokenOK(s) /\ ~is_native(s) /\ IsPlain(s, to) /\ IsPlain(s, from)
               /\ MayMove(s, to) <=> MayMove(t, to)
               /\ HoldingOf(s, to) = paid
               /\ HoldingOf(s, from) = BalanceOf(t, from) - x
               /\ \A b \in Addresses : b # from => BalanceOf(s, b) = BalanceOf(t, b)
    <2>1. s \in spend_balance_no_authorization_check(t, from, x)
      BY <1>4, Zenon DEF spend_balance
    <2>2. /\ TokenOK(s) /\ OnlyAt(from, t, s)
          /\ HoldingOf(s, from) = HoldingOf(t, from) - x
      BY <1>2, <2>1, SpendEffect
    <2>3. /\ ~is_native(s)
          /\ \A b \in Addresses : b # from =>
                /\ HoldingOf(s, b) = HoldingOf(t, b)
                /\ BalanceOf(s, b) = BalanceOf(t, b)
                /\ is_authorized(s, b) = is_authorized(t, b)
      BY <2>2, ElsewhereLemma
    <2>4. IsPlain(s, from) /\ (MayMove(s, from) <=> MayMove(t, from))
      BY <1>4, SpendPlain
    <2>5. CASE to = from
      BY <1>2, <2>2, <2>3, <2>4, <2>5
    <2>6. CASE to # from
      <3>1. is_authorized(s, to) = is_authorized(t, to) /\ HoldingOf(s, to) = HoldingOf(t, to)
        BY <2>3, <2>6
      <3>2. MayMove(s, to) <=> MayMove(t, to)
        BY <3>1, Zenon DEF MayMove
      <3>3. IsPlain(s, to)
        BY <2>2, <2>6 DEF IsPlain, OnlyAt
      <3>4. HoldingOf(s, to) = paid
        BY <1>2, <2>6, <3>1
      <3>. QED  BY <1>2, <2>2, <2>3, <2>4, <3>2, <3>3, <3>4
    <2>. QED  BY <2>5, <2>6
  <1>5. ASSUME NEW s \in spend_balance(t, from, x)
        PROVE  receive_balance(s, to, x) # {} <=> MayMove(t, to) /\ paid + x <= Room(to)
    BY <1>4, <1>5, ReceivePlain
  <1>6. ASSUME NEW r \in transfer(t, from, to, x)
        PROVE  /\ BalanceOf(r, to) = paid + x
               /\ from # to => BalanceOf(r, from) = BalanceOf(t, from) - x
               /\ \A b \in Addresses : b \notin {from, to} => BalanceOf(r, b) = BalanceOf(t, b)
    <2>1. PICK s \in spend_balance(t, from, x) : r \in receive_balance(s, to, x)
      BY <1>1, <1>6
    <2>2. /\ TokenOK(s) /\ ~is_native(s) /\ IsPlain(s, to) /\ IsPlain(s, from)
          /\ HoldingOf(s, to) = paid /\ HoldingOf(s, from) = BalanceOf(t, from) - x
          /\ \A b \in Addresses : b # from => BalanceOf(s, b) = BalanceOf(t, b)
      BY <1>4, <2>1
    <2>3. ~is_issuer(s, to) /\ BalanceOf(s, from) = HoldingOf(s, from)
      BY <2>2, PlainBalance
    <2>4. TokenOK(r) /\ OnlyAt(to, s, r) /\ HoldingOf(r, to) = HoldingOf(s, to) + x
      BY <2>1, <2>2, <2>3, ReceiveEffect
    <2>5. IsPlain(r, to)
      BY <2>1, <2>2, ReceivePlain
    <2>6. ~is_native(r) /\ \A b \in Addresses : b # to => BalanceOf(r, b) = BalanceOf(s, b)
      BY <2>2, <2>4, ElsewhereLemma
    <2>7. BalanceOf(r, to) = HoldingOf(r, to)
      BY <2>4, <2>5, <2>6, PlainBalance
    <2>. QED  BY <2>2, <2>3, <2>4, <2>6, <2>7
  <1>7. transfer(t, from, to, x) # {} <=>
           /\ spend_balance(t, from, x) # {}
           /\ MayMove(t, to) /\ paid + x <= Room(to)
    BY <1>1, <1>5
  <1>. QED  BY <1>3, <1>6, <1>7

\* The ledger that the escrow and the pools are specified on is the contract's:
\* between plain holders a transfer succeeds in one exactly when it does in the
\* other, and leaves the same balances; so what is proved of the escrow and the
\* pools on that ledger holds on this token.
THEOREM LedgerCorrect == Spec => []LedgerAgrees
  <1>1. AssetInv => LedgerAgrees
    <2>. DEFINE bal == [a \in Addresses |-> BalanceOf(token, a)]
                Agrees(from, to, x) ==
                    /\ Abstract!CanTransfer(bal, from, to, x) <=> transfer(token, from, to, x) # {}
                    /\ \A t \in transfer(token, from, to, x) :
                          [a \in Addresses |-> BalanceOf(t, a)] = Abstract!Transfer(bal, from, to, x)
                PlainOnes == {a \in Addresses : Plain(a)}
    <2>. SUFFICES ASSUME AssetInv, token.asset \notin {"none", "native"},
                         NEW from \in PlainOnes, NEW to \in PlainOnes, NEW x \in Amounts
                 PROVE  Agrees(from, to, x)
      BY Zenon DEF LedgerAgrees
    <2>0. TokenOK(token) /\ from \in Addresses /\ to \in Addresses /\ Plain(from) /\ Plain(to)
      BY DEF AssetInv
    <2>. DEFINE paid == BalanceOf(token, to) - (IF to = from THEN x ELSE 0)
                spent == [bal EXCEPT ![from] = bal[from] - x]
    <2>1. ~is_native(token) /\ x \in Int
      BY TokenAssumption DEF is_native
    <2>2. IsPlain(token, from) /\ IsPlain(token, to)
      BY <2>0 DEF Plain, IsPlain
    <2>3. BalanceOf(token, from) \in Int /\ BalanceOf(token, to) \in Int
      BY <2>0, <2>1, <2>2, PlainBalance
    <2>4. spent[to] = paid /\ \A b \in Addresses : b # from => spent[b] = BalanceOf(token, b)
      BY <2>0, <2>3
    <2>5. Abstract!CanTransfer(bal, from, to, x) <=>
             /\ x >= 0
             /\ MayMove(token, from) /\ BalanceOf(token, from) >= x
             /\ MayMove(token, to) /\ paid + x <= Room(to)
      <3>1. Abstract!CanTransfer(bal, from, to, x) <=>
               /\ x >= 0
               /\ from \in {a \in Addresses : TRUE \in is_authorized(token, a)} /\ bal[from] >= x
               /\ to \in {a \in Addresses : TRUE \in is_authorized(token, a)}
               /\ spent[to] + x <= [a \in Addresses |-> IF a \in Contracts THEN I128Max ELSE LineLimit[a]][to]
        BY Zenon DEF Abstract!CanTransfer, Abstract!CanSpend, Abstract!CanReceive, Abstract!SpendBalance
      <3>2. [a \in Addresses |-> IF a \in Contracts THEN I128Max ELSE LineLimit[a]][to] = Room(to)
        BY <2>0 DEF Room
      <3>3. \A a \in Addresses : a \in {b \in Addresses : TRUE \in is_authorized(token, b)} <=> MayMove(token, a)
        BY Zenon DEF MayMove
      <3>4. bal[from] = BalanceOf(token, from)
        BY <2>0
      <3>. HIDE DEF spent, paid
      <3>. QED  BY <2>0, <2>4, <3>1, <3>2, <3>3, <3>4, Zenon
    <2>6. CASE ~(x >= 0)
      <3>1. transfer(token, from, to, x) = {}
        BY <2>6 DEF transfer, check_nonnegative_amount
      <3>. QED  BY <2>5, <2>6, <3>1
    <2>7. CASE x >= 0
      <3>1. x \in Nat
        BY <2>1, <2>7
      <3>2. /\ transfer(token, from, to, x) # {} <=>
                  /\ MayMove(token, from) /\ BalanceOf(token, from) >= x
                  /\ MayMove(token, to) /\ paid + x <= Room(to)
            /\ \A t \in transfer(token, from, to, x) :
                  /\ BalanceOf(t, to) = paid + x
                  /\ from # to => BalanceOf(t, from) = BalanceOf(token, from) - x
                  /\ \A b \in Addresses : b \notin {from, to} => BalanceOf(t, b) = BalanceOf(token, b)
        BY <2>0, <2>1, <2>2, <3>1, TransferPlain
      <3>3. ASSUME NEW t \in transfer(token, from, to, x)
            PROVE  [a \in Addresses |-> BalanceOf(t, a)] = Abstract!Transfer(bal, from, to, x)
        <4>1. Abstract!Transfer(bal, from, to, x) = [spent EXCEPT ![to] = spent[to] + x]
          BY Zenon DEF Abstract!Transfer, Abstract!ReceiveBalance, Abstract!SpendBalance
        <4>2. from # to => spent[from] = BalanceOf(token, from) - x
          BY <2>0
        <4>3. DOMAIN spent = Addresses /\ spent = [a \in Addresses |-> spent[a]]
          OBVIOUS
        <4>. HIDE DEF spent, paid
        <4>4. \A a \in Addresses : [spent EXCEPT ![to] = spent[to] + x][a] = BalanceOf(t, a)
          BY <2>4, <3>2, <3>3, <4>2, <4>3
        <4>5. [spent EXCEPT ![to] = spent[to] + x] = [a \in Addresses |-> BalanceOf(t, a)]
          BY <4>3, <4>4
        <4>. QED  BY <4>1, <4>5
      <3>. QED  BY <2>5, <2>7, <3>2, <3>3
    <2>. QED  BY <2>1, <2>6, <2>7
  <1>. QED  BY <1>1, AssetInvariant, PTL
=============================================================================
