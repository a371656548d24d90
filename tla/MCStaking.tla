------------------------------ MODULE MCStaking ------------------------------
(***************************************************************************)
(* Small stake ledgers for module Staking.                                 *)
(***************************************************************************)
EXTENDS Staking, TLC

CONSTANTS v1, v2     \* two owners, one of which may delegate
CONSTANTS e1, e2     \* double votes

\* Enough for a stake, and as much to delegate.
FourEach == [a \in Address |-> 4]

\* A double vote's name is only ever compared with other names.
EvidenceNames == Permutations(Evidence)
=============================================================================
