--------------------------- MODULE MCStellarAsset ---------------------------
(* Instances of StellarAsset: the issuer, one holder and one contract.       *)
EXTENDS StellarAsset

Line(balance, selling, buying, clawable) ==
    {[balance |-> balance, limit |-> 3, selling |-> selling, buying |-> buying,
      authorized |-> TRUE, maintain |-> FALSE, clawback |-> clawable]}

\* The holder's line: with liabilities, clawable, or not there.
MCTrustLines ==
    {[a \in Accounts |-> IF a = Issuer THEN {} ELSE line] :
        line \in {Line(2, 1, 1, FALSE), Line(2, 0, 0, TRUE), {}}}
MCLineLimit == [a \in Accounts |-> 3]

MCAccountEntries ==
    {[a \in Accounts |-> {[balance |-> 3, sub_entries |-> 0, sponsoring |-> 0, sponsored |-> 1,
                           selling |-> 0, buying |-> 0]}]}
MCIssuerFlags == {{{"revocable", "clawback"}}, {{"required"}}, {}}
MCDelegations == {<<"user", "escrow">>, <<"escrow", "user">>}
MCAmounts == {-1, 0, 1, 2}
=============================================================================
