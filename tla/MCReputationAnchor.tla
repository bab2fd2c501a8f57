------------------------- MODULE MCReputationAnchor -------------------------
(***************************************************************************)
(* A small instance of ReputationAnchor for TLC.                           *)
(***************************************************************************)
EXTENDS ReputationAnchor

CONSTANTS Admin, Setup, Other

MCAccounts == {Admin, Setup, Other}
MCSomeSign == {MCAccounts, {Admin, Setup}, {Admin, Other}, {Setup, Other}}

\* Every request of up to two ids, with repetitions, and one of three.
MCRequests == BoundedSeq(Profiles, 2) \cup {<<1, 2, 1>>}
=============================================================================
