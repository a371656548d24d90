------------------------------- MODULE Repair -------------------------------
(***************************************************************************)
(* Repair of lost shards: a miner that misses proofs, or that somebody     *)
(* reports, is replaced; the new miner rebuilds the shard from others of   *)
(* its segment, or from the paired segment and the parity of their pool.   *)
(*                                                                         *)
(* Source: internal/chain/{repair_tasks,health_checker,state}.go.          *)
(***************************************************************************)
EXTENDS DealEnd

CONSTANT
  RepairDelay       \* RepairDelayEpochs

ASSUME RepairAssumption == RepairDelay \in Nat \ {0}

-----------------------------------------------------------------------------
Holder(i, s) == intents[i].Receipts[s]

Available(i, s, unavailable) == Holder(i, s) # None /\ Holder(i, s) \notin unavailable

\* The miners a repair of s may go to: not the old one, and, where there is a
\* choice, none that holds another shard of the segment.
repairMiner(i, s, old, m) ==
  LET taken == {old} \cup {Holder(i, t) : t \in {t \in Shards(i) : t[1] = s[1] /\ t # s}}
  IN  chooseAssignmentMiner(m, taken,
        [n \in Miner |-> IF n = old THEN 0 ELSE minerAvailableBytes(n)])

\* buildRepairAssignment, buildCrossParityAssignment: a task for each such miner.
Tasks(i, s, old, mode, sources) ==
  {[Intent |-> i, Shard |-> s, Old |-> old, Miner |-> m, Status |-> "pending",
    Mode |-> mode, Sources |-> sources] : m \in {n \in Miner : repairMiner(i, s, old, n)}}

\* buildRepairTaskForShard: Data other shards of the segment have to be there.
rsTasks(i, s, old, unavailable) ==
  LET sources == {t \in Shards(i) : /\ t[1] = s[1] /\ t # s
                                    /\ Available(i, t, unavailable) /\ Holder(i, t) # old}
  IN  IF Cardinality(sources) < Layout[i].Data THEN {}
      ELSE Tasks(i, s, old, "rs", {Holder(i, t) : t \in sources})

PoolsOf(i, g) == {p \in DOMAIN Layout[i].Pools : g \in Layout[i].Pools[p]}

\* buildCrossParityRepairTask: the shard of the paired segment and the parity shard.
crossParityTasks(i, s, old, unavailable) ==
  UNION {LET peer == CHOOSE g \in Layout[i].Pools[p] : g # s[1]
             sources == {<<peer, s[2]>>, <<Parity(p), s[2]>>}
         IN  IF \A t \in sources : Available(i, t, unavailable)
             THEN Tasks(i, s, old, "cross_parity", {Holder(i, t) : t \in sources} \ {old})
             ELSE {} : p \in PoolsOf(i, s[1])}

\* buildCrossParityRebuildTask: a parity shard, from the shards it is the parity of.
rebuildTasks(i, s, old, unavailable) ==
  UNION {LET sources == {<<g, s[2]>> : g \in Layout[i].Pools[p]}
         IN  IF \A t \in sources : Available(i, t, unavailable)
             THEN Tasks(i, s, old, "cross_parity_rebuild", {Holder(i, t) : t \in sources})
             ELSE {} : p \in {q \in DOMAIN Layout[i].Pools : Parity(q) = s[1]}}

\* Parity is rebuilt; other shards come by parity if they can, else by their segment.
repairsOf(i, s, old, unavailable) ==
  LET crossParity == crossParityTasks(i, s, old, unavailable)
  IN  IF s[1] < 0 THEN rebuildTasks(i, s, old, unavailable)
      ELSE IF crossParity # {} THEN crossParity ELSE rsTasks(i, s, old, unavailable)

\* pendingRepairTaskForShard, for any miner.
Pending(i, s) == \E t \in repairTasks : t.Intent = i /\ t.Shard = s /\ t.Status = "pending"

\* applyRepairTasks: a task with the same intent, shard and miner is not made again,
\* in whatever state it is.
applyRepairTasks(tasks) ==
  LET new == {t \in tasks : ~ \E u \in repairTasks :
                              u.Intent = t.Intent /\ u.Shard = t.Shard /\ u.Miner = t.Miner}
  IN  /\ repairTasks' = repairTasks \cup new
      /\ reserved' = [m \in Miner |-> reserved[m] + Cardinality({t \in new : t.Miner = m})]

\* CreateRepairTasks: without a signature anybody may ask, and name the miners that
\* are gone.  One shard of a segment that cannot be repaired refuses the request; a
\* parity shard that cannot is passed over.
CreateRepairTasks(i, unavailable, includeMissing) ==
  LET wanted == {s \in Shards(i) :
                   /\ ~Pending(i, s)
                   /\ Holder(i, s) \in unavailable \/ (Holder(i, s) = None /\ includeMissing)}
      repairs == [s \in wanted |-> repairsOf(i, s, Holder(i, s), unavailable)]
      possible == {s \in wanted : repairs[s] # {}}
  IN  /\ Exists(i) /\ intents[i].Status # "expired"
      /\ wanted # {} /\ \A s \in wanted : s[1] >= 0 => s \in possible
      /\ \E f \in [possible -> UNION {repairs[s] : s \in possible}] :
           /\ \A s \in possible : f[s] \in repairs[s]
           /\ applyRepairTasks({f[s] : s \in possible})
      /\ UNCHANGED <<accountVars, intents, funds, feePool, subsidyPool, used, challenges, misses,
                     deleteVars, blacklist, vested, storageRewards, late>>

\* trackMissedProofForRepair, when an epoch ends with the challenge not proved: after
\* RepairDelay misses in a row the shard is to be repaired.
MissedProof(c) ==
  LET i == c.Intent
      key == <<i, c.Shard, c.Miner>>
      count == (IF key \in DOMAIN misses THEN misses[key] ELSE 0) + 1
      repairs == IF Pending(i, c.Shard) \/ intents[i].Status = "expired" THEN {}
                 ELSE repairsOf(i, c.Shard, c.Miner, {c.Miner})
  IN  /\ ~c.Proved /\ ~c.Repair
      /\ challenges' = challenges \ {c}
      /\ IF count < RepairDelay
         THEN /\ misses' = [k \in DOMAIN misses \cup {key} |-> IF k = key THEN count ELSE misses[k]]
              /\ UNCHANGED <<repairTasks, reserved>>
         ELSE /\ misses' = Restrict(misses, DOMAIN misses \ {key})
              /\ IF repairs = {} THEN UNCHANGED <<repairTasks, reserved>>
                 ELSE \E t \in repairs : applyRepairTasks({t})
      /\ UNCHANGED <<accountVars, intents, funds, feePool, subsidyPool, used, deleteVars, blacklist,
                     vested, storageRewards, late>>

------------------------------------------------------------------------------
\* What the owner, the miners and the node do with a deal until its owner terminates it.
UploadStep ==
  \E i \in IntentID :
    \/ CreateIntent(i) \/ BatchCommitLate(i) \/ Finalize(i)
    \/ \E s \in Shards(i), m \in Miner : BatchCommit(i, s, m)

AccessStatus == {"public", "private", "suspended", "blocked"}

TermStep ==
  \/ autoRenewDeals
  \/ \E i \in IntentID :
       \/ SettleIntent(i) \/ SettleExpiredIntents(i) \/ RenewDeal(i) \/ RenewRefused(i)
       \/ \E amount \in Nat \ {0} : TopUpPermanentFund(i, amount)
       \/ \E status \in AccessStatus : SetAccessPolicy(i, status)

ProofStep ==
  \/ \E i \in IntentID : \E s \in Shards(i) : CreateChallenge(i, s)
  \/ \E c \in challenges : SubmitProof(c) \/ MissedProof(c)
  \/ \E i \in IntentID, unavailable \in SUBSET Miner, includeMissing \in BOOLEAN :
       CreateRepairTasks(i, unavailable, includeMissing)

DealStep ==
  \/ UploadStep \/ TermStep \/ ProofStep
  \/ \E t \in deleteTasks : SubmitDeleteReceipt(t)

ModerationStep ==
  \E i \in IntentID :
    \/ \E until \in Nat : Freeze(i, until)
    \/ \E preserve \in BOOLEAN : Block(i, preserve)
    \/ LegalHold(i) \/ Appeal(i)

DealsNext ==
  \/ DealStep \/ ModerationStep
  \/ \E i \in IntentID : TerminateDeal(i)
  \/ NextBlock /\ UNCHANGED dealVars

DealsSpec == AccountsInit /\ DealsInit /\ [][DealsNext]_<<accountVars, dealVars>>

------------------------------------------------------------------------------
\* A shard is being repaired by one miner at a time.
OneRepairAtATime ==
  \A t, u \in repairTasks :
    t.Intent = u.Intent /\ t.Shard = u.Shard /\ t.Status = "pending" /\ u.Status = "pending" => t = u

\* Space that is reserved is reserved for something: a shard not committed yet, or a
\* repair that is pending.
NoLostReservation ==
  \A m \in Miner :
    reserved[m] <=
      Cardinality({p \in UNION {{i} \X Shards(i) : i \in Live} :
                     intents[p[1]].Assignments[p[2]] = m /\ Holder(p[1], p[2]) = None})
      + Cardinality({t \in repairTasks : t.Miner = m /\ t.Status = "pending"})

\* Miners are paid what they are due, once: for proofs what their statistics promise, for
\* repairs one reward for each that was completed, of which one is open at a time.
MinersPaid == RewardsPaid /\ RepairPaidOnce /\ OneRepairAtATime

\* A miner's space is what it stores and what is still expected of it, through repairs,
\* replaced shards, deletions and deals that end half uploaded.
SpaceAccounted == UsedMatches /\ NoLostReservation
=============================================================================
