---------------------------- MODULE MCTogetherFi ----------------------------
(***************************************************************************)
(* Small instances of TogetherFi for TLC.                                  *)
(***************************************************************************)
EXTENDS TogetherFi

CONSTANTS Gov, Elig, Alice, Creator, Friend, Escrow1, PoolX, PoolY

MCAccounts == {Gov, Elig, Alice, Creator, Friend}
MCContracts == {Escrow1, PoolX, PoolY}
MCCapacity == [h \in MCAccounts \cup MCContracts |-> 1000]
MCI128Max == 1010099
MCInitialBalances ==
    {[h \in MCAccounts \cup MCContracts |-> IF h = Alice THEN 201 ELSE IF h = Elig THEN 1 ELSE 0]}
MCAllSign == {MCAccounts}

\* What the 5% and the 2% pool hold after one campaign of 100.
MCLists == { <<<<Creator, Friend>>, <<1, 1>>>> }
=============================================================================
