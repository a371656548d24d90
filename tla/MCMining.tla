------------------------------ MODULE MCMining ------------------------------
(***************************************************************************)
(* An account that is a validator and a miner, and one that is only a      *)
(* miner, for module Mining.                                               *)
(***************************************************************************)
EXTENDS Mining

CONSTANTS v1, m1   \* a validator, which may mine, and a miner

\* The validator has its stake and a little more, the miner nothing but its bonus.
MCBalance == [a \in Address |-> IF a = v1 THEN 3 ELSE 0]
=============================================================================
