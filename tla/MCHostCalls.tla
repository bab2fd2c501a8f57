---------------------------- MODULE MCHostCalls ----------------------------
(* Instances of HostCalls: two contracts and an account contract, a role     *)
(* account that needs two of its three keys, and signed entries.             *)
EXTENDS HostCalls

F(c) == [contract |-> c, name |-> "f"]

MCKeys == 1..3
MCSignerWeight == [a \in {"alice"} |-> [k \in MCKeys |-> 1]]
MCMediumThreshold == [a \in {"alice"} |-> 2]

MCFunctions == {F("A"), F("B")}

Tree(root) == <<>> :> root
TreeWith(root, child) == (<<>> :> root) @@ (<<1>> :> child)

Entry(a, tree, n, expiration, keys) ==
    [address |-> a, tree |-> tree, source |-> FALSE, nonce |-> n, expiration |-> expiration,
     signatures |-> [i \in DOMAIN keys |-> [key |-> keys[i], over |-> <<n, expiration, tree>>]]]

SourceEntry(a, tree) ==
    [address |-> a, tree |-> tree, source |-> TRUE, nonce |-> 0, expiration |-> 0, signatures |-> <<>>]

\* alice allows A to call B in her name; twice signed by one key; the wallet
\* contract allows A, and alice as source allows B.
AliceAB == Entry("alice", TreeWith(F("A"), F("B")), 1, 3, <<1, 2>>)
AliceTwice == Entry("alice", Tree(F("A")), 2, 3, <<1, 1>>)
WalletA == Entry("W", Tree(F("A")), 3, 3, <<>>)
AliceSource == SourceEntry("alice", Tree(F("B")))
Undeclared == Entry("alice", Tree(F("B")), 9, 3, <<2, 3>>)

MCEntrySets == {<<AliceAB, AliceSource>>, <<AliceTwice, WalletA, AliceSource>>, <<WalletA, AliceAB>>,
                <<Undeclared>>}
MCDeclared == {<<"alice", 1>>, <<"alice", 2>>, <<"W", 3>>}
MCObjects == {"alice", "W", "A"}
MCAddressOf == [o \in MCObjects |-> o]
MCInvokerTrees == {Tree(F("B"))}
=============================================================================
