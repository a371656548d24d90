----------------------------- MODULE MCExecution -----------------------------
(***************************************************************************)
(* Small ledgers for module Execution.  In one scope transfers arrive at   *)
(* every node by gossip and wait for a block; in the other clients post    *)
(* them to the nodes, which execute them ahead of it.                      *)
(***************************************************************************)
EXTENDS Execution

CONSTANTS n1, n2       \* validators
CONSTANTS o1, o2, u    \* their owners and a user

MCAddress == [x \in Account |-> CASE x = o1 -> 1 [] x = o2 -> 2 [] x = u -> 3]

MCOwner == [n \in Node |-> IF n = n1 THEN o1 ELSE o2]

MCBalance == [x \in Account |-> IF x = u THEN 12 ELSE IF x = o1 THEN 4 ELSE 0]

T(i, f, t, x, fee, nonce) ==
  [id |-> i, from |-> f, to |-> t, amount |-> x, fee |-> fee, nonce |-> nonce]

\* Two transfers of the user, the later one with the higher fee, a replacement of
\* the first that the user cannot pay together with the second, and a transfer of
\* an owner, who may be the producer.
MCTx == {T(1, u, o1, 3, 2, 0), T(2, u, o2, 3, 3, 1), T(3, u, o2, 8, 4, 0),
         T(4, o1, u, 2, 2, 0)}

\* Two rivals for one nonce, and a transfer of an owner.
RivalTx == {T(1, u, o1, 3, 2, 0), T(3, u, o2, 8, 4, 0), T(4, o1, u, 2, 2, 0)}

Gossip == gateways = {}

MCInit == Init /\ gateways \in {{}, Node}

\* Only where clients post to their node, for a refused block.
LocalInit == MCInit /\ ~Gossip

\* Where clients post, one block less, and without the second transfer of the user.
Bounded ==
  ~Gossip => /\ Len(chain') < MaxHeight
             /\ \A n \in Node : st'[n].PendingTxs \subseteq RivalTx

MCNext == Next /\ Bounded

MCSpec == MCInit /\ [][MCNext]_vars

LocalSpec == LocalInit /\ [][MCNext]_vars
=============================================================================
