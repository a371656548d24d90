------------------------------ MODULE MCDeals -------------------------------
(***************************************************************************)
(* A small instance of the deals.  In a behaviour either two files of one  *)
(* shard, with the same content, live their lives, or one larger file is   *)
(* stored and repaired: two segments and their parity, or one segment of   *)
(* two shards, which nobody terminates.                                    *)
(***************************************************************************)
EXTENDS Repair, TLC

CONSTANTS alice, retrieval, foundation
CONSTANTS a, b              \* files of one shard
CONSTANTS pooled, coded     \* files that can be repaired
CONSTANTS m1, m2, m3        \* miners
CONSTANTS h0, h1, h2, h3    \* contents

VARIABLE part

vars == <<accountVars, dealVars, part>>

One == [Roots |-> {0}, Pools |-> <<>>, Data |-> 1, Total |-> 1]
Pool == [Roots |-> {0, 1}, Pools |-> 0 :> {0, 1}, Data |-> 1, Total |-> 1]
Coded == [Roots |-> {0}, Pools |-> <<>>, Data |-> 1, Total |-> 2]
Layouts == a :> One @@ b :> One @@ pooled :> Pool @@ coded :> Coded
\* With one data shard the parity of a segment is a copy of it.
Hashes ==
  a :> (<<0, 0>> :> h0) @@ b :> (<<0, 0>> :> h0)
  @@ pooled :> (<<0, 0>> :> h1 @@ <<1, 0>> :> h2 @@ <<-1, 0>> :> h3)
  @@ coded :> (<<0, 0>> :> h1 @@ <<0, 1>> :> h1)

Finite == [Duration |-> 2, Renewable |-> TRUE, AutoRenew |-> TRUE, DeletionPolicy |-> "grace"]
Retained == [Duration |-> 1, Renewable |-> TRUE, AutoRenew |-> FALSE, DeletionPolicy |-> "retain"]
Forever == [Duration |-> 0, Renewable |-> FALSE, AutoRenew |-> FALSE, DeletionPolicy |-> "grace"]
PoliciesOf == a :> {Finite, Forever} @@ b :> {Retained} @@ pooled :> {Finite} @@ coded :> {Finite}

Holders == {alice, retrieval, foundation}
OwnerOnly == [x \in Account |-> IF x = alice THEN 12 ELSE 0]

Init == AccountsInit /\ DealsInit /\ part \in {"money", "moderated", "pooled", "coded"}

Mine == CASE part = "money" -> {a, b} [] part = "moderated" -> {a} [] part = "pooled" -> {pooled} [] part = "coded" -> {coded}

\* How long a part is watched.
Horizon == CASE part = "money" -> 3 [] part = "moderated" -> 2 [] OTHER -> 1

\* Uploading, and what follows from it in every part.
Upload ==
  \/ \E i \in Mine : CreateIntent(i) \/ Finalize(i)
  \/ \E i \in Mine : \E s \in Shards(i), m \in Miner : BatchCommit(i, s, m)
  \/ part # "coded" /\ \E i \in Mine : TerminateDeal(i)
  \/ \E t \in deleteTasks : SubmitDeleteReceipt(t)
  \/ now < Horizon /\ NextBlock /\ UNCHANGED dealVars

Proofs ==
  /\ part # "moderated"
  /\ \/ \E i \in Mine \ {b} : \E s \in Shards(i) : CreateChallenge(i, s)
     \/ \E c \in challenges : SubmitProof(c)

Money ==
  /\ part = "money"
  /\ \/ \E i \in Mine : BatchCommitLate(i) \/ SettleIntent(i) \/ SettleExpiredIntents(i)
     \/ \E i \in Mine : RenewDeal(i) \/ RenewRefused(i) \/ TopUpPermanentFund(i, 1)
     \/ autoRenewDeals

Moderation ==
  /\ part = "moderated"
  /\ \/ \E i \in Mine : SettleExpiredIntents(i) \/ RenewDeal(i) \/ TopUpPermanentFund(i, 1)
     \/ \E i \in Mine : Freeze(i, now + FreezeTime) \/ LegalHold(i) \/ Appeal(i) \/ SetAccessPolicy(i, "public")
     \/ \E i \in Mine, preserve \in BOOLEAN : Block(i, preserve)

Repairs ==
  /\ part \in {"pooled", "coded"}
  /\ \/ \E i \in Mine, m \in Miner, includeMissing \in BOOLEAN :
          CreateRepairTasks(i, {m}, includeMissing)
     \/ \E c \in challenges : MissedProof(c)

Next == (Upload \/ Proofs \/ Money \/ Moderation \/ Repairs) /\ UNCHANGED part

Spec == Init /\ [][Next]_vars

MinerNames == Permutations({m1, m2, m3})
=============================================================================
