------------------------------ MODULE FinalLog ------------------------------
(***************************************************************************)
(* What the BFT engine promises: the network decides blocks, all of them   *)
(* on one chain, and never takes a decision back.                          *)
(***************************************************************************)
EXTENDS Naturals, Sequences

VARIABLE decided   \* the decided blocks, each as the chain that ends in it

\* c is b, or a block further up the same chain.
Below(b, c) == Len(b) <= Len(c) /\ \A i \in 1..Len(b) : b[i] = c[i]

OneChain(S) == \A b, c \in S : Below(b, c) \/ Below(c, b)

LogInit == decided = {}

\* Some blocks are decided, on top of or below what was decided before.
Decide ==
  /\ decided \subseteq decided'
  /\ OneChain(decided')

LogSpec == LogInit /\ [][Decide]_decided
=============================================================================
