------------------------- MODULE MCContributorPool -------------------------
(***************************************************************************)
(* Small instances of ContributorPool for TLC.                             *)
(***************************************************************************)
EXTENDS ContributorPool

CONSTANTS Gov, Elig, Ann, Ben, Escrow1, Pool1

MCAccounts == {Gov, Elig, Ann, Ben}
MCContracts == {Escrow1, Pool1}

\* 4 base units from the escrow, credited 2 at a time; Gov has 2 to give away.
MCCapacity == [h \in MCAccounts \cup MCContracts |-> 6]
MCInitialBalances ==
    {[h \in MCAccounts \cup MCContracts |->
        IF h = Escrow1 THEN 4 ELSE IF h = Gov THEN 2 ELSE 0]}

MCAllSign == {MCAccounts}
MCSomeSign == {MCAccounts, MCAccounts \ {Elig}, {Gov, Elig}, {Gov}}

MCTwoSets == {MCAccounts, {Gov, Elig}}

\* One good list of one and one of two recipients, one too large for one credit,
\* and one for each way a list can be malformed (MAX_ALLOCATIONS is 2).
MCLists ==
    { <<<<Ann>>, <<2>>>>, <<<<Ann, Ben>>, <<1, 1>>>>, <<<<Ben>>, <<3>>>>,
      <<<<>>, <<>>>>, <<<<Ann, Ben>>, <<1>>>>, <<<<Ann, Ann>>, <<1, 1>>>>,
      <<<<Ann, Ben>>, <<1, 0>>>>, <<<<Ann, Ben, Gov>>, <<1, 1, 1>>>> }
MCOneList == { <<<<Ann, Ben>>, <<1, 1>>>> }
=============================================================================
