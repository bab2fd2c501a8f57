-------------------------- MODULE MCCampaignEscrow --------------------------
(***************************************************************************)
(* Small instances of CampaignEscrow for TLC.                              *)
(***************************************************************************)
EXTENDS CampaignEscrow

CONSTANTS Gov, Backup, Alice, Bob, Creator, Friend, Escrow1, PoolA, PoolB

MCAccounts == {Gov, Backup, Alice, Bob, Creator, Friend}
MCContracts == {Escrow1, PoolA, PoolB}

\* i128::MAX stands at 101 campaigns' worth of basis points, so that 101 is the
\* largest amount fund accepts and 102 the smallest it refuses.
MCI128Max == 1010099
MCAmounts == {99, 100, 101, 102}
MCCapacity == [h \in MCAccounts \cup MCContracts |-> 1000]

\* Alice and Bob can each fund one campaign of either legal amount; Friend has
\* one base unit for an unsolicited transfer.
MCInitialBalances ==
    {[h \in MCAccounts \cup MCContracts |->
        IF h \in {Alice, Bob} THEN 101 ELSE IF h = Friend THEN 1 ELSE 0]}

MCAllSign == {MCAccounts}
MCSomeSign == {MCAccounts, MCAccounts \ {Bob}, MCAccounts \ {Gov}, {Gov, Alice, Backup}, {Gov, Alice}}
MCTwoSets == {MCAccounts, {Gov, Alice}}
MCGovernanceSigns == {{Gov, Alice}}
=============================================================================
