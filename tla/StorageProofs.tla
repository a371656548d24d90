---------------------------- MODULE StorageProofs ----------------------------
(***************************************************************************)
(* The disk of a storage node, the discovery of a shard's holders and the  *)
(* fetch of a repair source, for every number of deals, nodes, peers,      *)
(* crashes and uploads.                                                    *)
(*                                                                         *)
(* The disk: as long as nothing was mixed, files that are torn or missing  *)
(* are accounted for.  While a Store runs, whatever is not whole is still  *)
(* to be filled by one of the calls; while none runs, the files are some   *)
(* way along the order of DeleteByHash.  A deal that is referenced keeps   *)
(* every task of the shard from being pending, so nothing is removed.      *)
(***************************************************************************)
EXTENDS StorageNode, Discovery, ProviderFetch, Lemmas

-----------------------------------------------------------------------------
(***************************************************************************)
(* The disk: its inductive invariant                                       *)
(***************************************************************************)
\* The calls that have opened a file.
Started == {c \in Caller : Stored(c) \in Writing \ {"block open"}}

Good == blockFile = "good" /\ hashIndex = "good" /\ cidIndex = "good"

\* No Store is in between: the files are whole, or removed in the order of DeleteByHash.
Quiet ==
  ~mixed /\ Started = {} =>
    /\ "torn" \notin {blockFile, hashIndex, cidIndex}
    /\ hashIndex = "absent" => blockFile = "absent" /\ cidIndex = "absent"
    /\ Deleting /\ deletion[2] \in {"cid", "hash", "legacy"} => blockFile = "absent"
    /\ Deleting /\ deletion[2] \in {"hash", "legacy"} => cidIndex = "absent"
    /\ Deleting /\ deletion[2] = "legacy" => hashIndex = "absent"

\* A Store is in between: what is not whole is still to be filled.
Filling ==
  ~mixed /\ Started # {} =>
    /\ ~Deleting
    /\ blockFile = "good" \/ \E c \in Started : Stored(c) = "block"
    /\ hashIndex = "good" \/ \E c \in Started : Stored(c) \in {"block", "hash open", "hash"}

Removed ==
  gone /\ ~mixed =>
    /\ Started = {}
    /\ blockFile = "absent" /\ hashIndex = "absent" /\ cidIndex = "absent" /\ legacyFile = "absent"

\* Only a deal that has ended has a task, and only a pending task is carried out.
TasksFollow ==
  /\ \A i \in Intent : task[i] # "none" => deal[i] = "ended"
  /\ deletion # Idle => task[deletion[1]] # "none"
  /\ Deleting => task[deletion[1]] = "pending"

Works(i) == \E c \in Caller : store[c] # Idle /\ store[c][1] = i

Signs(i) == \E c \in Caller : store[c] # Idle /\ store[c] = <<i, "sign">>

\* A deal that is referenced, or will be, keeps the tasks of the others from being pending.
Referenced ==
  \A i \in Intent \ exposed :
    deal[i] = "finalized" \/ (deal[i] = "open" /\ (i \in receipt \/ Works(i))) => Unretained = {}

\* Who has the shard's receipt, or is about to get it, finds the files whole.
Whole ==
  ~mixed /\ Started = {} =>
    \A i \in Intent \ exposed : deal[i] # "ended" /\ (i \in receipt \/ Signs(i)) => Good

Receipted == \A i \in Intent : deal[i] # "open" => i \in receipt

DiskInv ==
  /\ StorageTypeOK /\ Quiet /\ Filling /\ Removed
  /\ TasksFollow /\ Referenced /\ Whole /\ Receipted
  /\ ProvesWholeBytes

-----------------------------------------------------------------------------
(***************************************************************************)
(* Calls of Store                                                          *)
(***************************************************************************)
\* The fields of a pair.
LEMMA Pairs == \A x, y : <<x, y>>[1] = x /\ <<x, y>>[2] = y
  OBVIOUS

\* A call is idle or at a step for a deal.
LEMMA CallSteps ==
  ASSUME StorageTypeOK, NEW c \in Caller
  PROVE  \/ store[c] = Idle /\ Stored(c) = "idle"
         \/ /\ store[c] # Idle /\ store[c] \in Intent \X StoreStep
            /\ store[c] = <<store[c][1], store[c][2]>>
            /\ Stored(c) = store[c][2] /\ store[c][1] \in Intent /\ store[c][2] \in StoreStep
  BY DEF StorageTypeOK, Stored

\* A call moves alone.
LEMMA CallMoves ==
  ASSUME StorageTypeOK, NEW c \in Caller, NEW i \in Intent, NEW s \in StoreStep,
         store' = [store EXCEPT ![c] = <<i, s>>]
  PROVE  /\ store' \in [Caller -> {Idle} \cup (Intent \X StoreStep)]
         /\ store'[c] # Idle /\ store'[c] = <<i, s>> /\ Stored(c)' = s
         /\ \A d \in Caller \ {c} : store'[d] = store[d] /\ Stored(d)' = Stored(d)
<1>1. <<i, s>> # Idle
  BY DEF Idle
<1> QED
  BY <1>1 DEF StorageTypeOK, Stored

\* A call ends alone.
LEMMA CallEnds ==
  ASSUME StorageTypeOK, NEW c \in Caller, store' = [store EXCEPT ![c] = Idle]
  PROVE  /\ store' \in [Caller -> {Idle} \cup (Intent \X StoreStep)]
         /\ store'[c] = Idle /\ Stored(c)' = "idle"
         /\ \A d \in Caller \ {c} : store'[d] = store[d] /\ Stored(d)' = Stored(d)
  BY DEF StorageTypeOK, Stored

\* The deletion is idle or at a step of a task.
LEMMA DeletionSteps ==
  ASSUME StorageTypeOK
  PROVE  \/ deletion = Idle /\ ~Deleting
         \/ /\ deletion # Idle /\ deletion \in Intent \X DeleteStep
            /\ deletion = <<deletion[1], deletion[2]>>
            /\ deletion[1] \in Intent /\ deletion[2] \in DeleteStep
            /\ Deleting <=> deletion[2] # "post"
  BY DEF StorageTypeOK, Deleting

\* What leaves the disk, the calls and the deals alone keeps the invariant.
LEMMA DiskFrame ==
  ASSUME DiskInv, StorageTypeOK', ProvesWholeBytes',
         UNCHANGED <<files, store, deletion, gone, mixed, exposed, deal, receipt, task>>
  PROVE  DiskInv'
<1>1. /\ Started' = Started /\ Deleting' = Deleting /\ Unretained' = Unretained
      /\ Good' = Good
      /\ \A c \in Caller : Stored(c)' = Stored(c)
  BY DEF Started, Deleting, Unretained, Good, Stored, files
<1>2. \A i \in Intent : Works(i)' = Works(i) /\ Signs(i)' = Signs(i)
  BY DEF Works, Signs
<1>3. Quiet' /\ Removed'
  BY <1>1 DEF DiskInv, Quiet, Removed, files
<1>4. Filling'
  <2>1. Started \subseteq Caller
    BY DEF Started
  <2> QED
    BY <1>1, <2>1 DEF DiskInv, Filling, files
<1>5. TasksFollow' /\ Receipted'
  BY <1>1 DEF DiskInv, TasksFollow, Receipted
<1>6. Referenced' /\ Whole'
  BY <1>1, <1>2 DEF DiskInv, Referenced, Whole
<1> QED
  BY <1>3, <1>4, <1>5, <1>6 DEF DiskInv
-----------------------------------------------------------------------------
(***************************************************************************)
(* The disk: its types                                                     *)
(***************************************************************************)
\* Each step of a writer or of the deleter is one of the steps.
LEMMA StepTypes ==
  /\ \A s \in Writing : NextWrite(s) \in StoreStep
  /\ \A s \in DeleteStep \ {"post"} : NextRemoval(s) \in DeleteStep
  /\ \A s, a, b, f : f \in FileState => WriteFile(s, a, b, f) \in FileState
<1>1. \A s \in Writing : NextWrite(s) \in StoreStep
  BY DEF Writing, NextWrite, StoreStep
<1>2. \A s \in DeleteStep \ {"post"} : NextRemoval(s) \in DeleteStep
  <2> SUFFICES ASSUME NEW s \in DeleteStep \ {"post"} PROVE NextRemoval(s) \in DeleteStep
    OBVIOUS
  <2>1. CASE s = "read"
    BY <2>1 DEF NextRemoval, DeleteStep
  <2>2. CASE s = "block"
    BY <2>2 DEF NextRemoval, DeleteStep
  <2>3. CASE s \in {"cid", "hash", "legacy"}
    BY <2>3 DEF NextRemoval, DeleteStep
  <2> QED
    BY <2>1, <2>2, <2>3 DEF DeleteStep
<1>3. \A s, a, b, f : f \in FileState => WriteFile(s, a, b, f) \in FileState
  BY DEF WriteFile, FileState
<1> QED
  BY <1>1, <1>2, <1>3

\* Every step of the node and of the chain keeps the types.
LEMMA StorageTypes ==
  ASSUME StorageTypeOK, StorageNext
  PROVE  StorageTypeOK'
<1> USE StorageAssumption
<1>1. ASSUME NEW c \in Caller, NEW i \in Intent, StoreChecked(c, i) PROVE StorageTypeOK'
  <2>1. store' \in [Caller -> {Idle} \cup (Intent \X StoreStep)]
    BY <1>1, CallMoves DEF StoreChecked, StoreStep
  <2> QED
    BY <1>1, <2>1 DEF StoreChecked, StorageTypeOK, files, chainVars
<1>2. ASSUME NEW c \in Caller, authorizeUpload(c) PROVE StorageTypeOK'
  <2>1. store[c][1] \in Intent /\ "block open" \in StoreStep
    BY <1>2, CallSteps DEF authorizeUpload, StoreStep, Writing
  <2>2. store' \in [Caller -> {Idle} \cup (Intent \X StoreStep)]
    BY <1>2, <2>1, CallMoves, CallEnds DEF authorizeUpload
  <2> QED
    BY <1>2, <2>2 DEF authorizeUpload, StorageTypeOK, files, chainVars, ghostVars
<1>3. ASSUME NEW c \in Caller, PutBlock(c) PROVE StorageTypeOK'
  <2>1. store[c][1] \in Intent /\ NextWrite(Stored(c)) \in StoreStep
    <3>1. Stored(c) \in Writing
      BY <1>3 DEF PutBlock
    <3> QED
      BY <3>1, CallSteps, StepTypes DEF Writing
  <2>2. store' \in [Caller -> {Idle} \cup (Intent \X StoreStep)]
    BY <1>3, <2>1, CallMoves DEF PutBlock
  <2>3. blockFile' \in FileState /\ hashIndex' \in FileState /\ cidIndex' \in FileState
    BY <1>3, StepTypes DEF PutBlock, StorageTypeOK
  <2>4. gone' \in BOOLEAN /\ mixed' \in BOOLEAN
    BY <1>3 DEF PutBlock, Overlapped, StorageTypeOK, Deleting
  <2> QED
    BY <1>3, <2>2, <2>3, <2>4 DEF PutBlock, StorageTypeOK, chainVars
<1>4. ASSUME NEW c \in Caller, SignReceipt(c) PROVE StorageTypeOK'
  <2>1. store[c][1] \in Intent
    BY <1>4, CallSteps DEF SignReceipt
  <2>2. store' \in [Caller -> {Idle} \cup (Intent \X StoreStep)]
    BY <1>4, CallEnds DEF SignReceipt
  <2> QED
    BY <1>4, <2>1, <2>2 DEF SignReceipt, StorageTypeOK, files, ghostVars
<1>5. ASSUME NEW i \in Intent, TakeTask(i) PROVE StorageTypeOK'
  <2>1. deletion' \in {<<i, "read">>, <<i, "post">>} /\ mixed' \in BOOLEAN
    BY <1>5 DEF TakeTask, StorageTypeOK
  <2>2. deletion' \in {Idle} \cup (Intent \X DeleteStep)
    BY <2>1 DEF DeleteStep
  <2> QED
    BY <1>5, <2>1, <2>2 DEF TakeTask, StorageTypeOK, files, chainVars
<1>6. CASE DeleteByHash
  <2>1. /\ deletion[1] \in Intent /\ NextRemoval(deletion[2]) \in DeleteStep
    BY <1>6, DeletionSteps, StepTypes DEF DeleteByHash
  <2>2. deletion' \in {Idle} \cup (Intent \X DeleteStep)
    BY <1>6, <2>1 DEF DeleteByHash
  <2>3. /\ blockFile' \in FileState /\ hashIndex' \in FileState /\ cidIndex' \in FileState
        /\ legacyFile' \in {"absent", "good"} /\ gone' \in BOOLEAN
    BY <1>6 DEF DeleteByHash, StorageTypeOK, FileState
  <2> QED
    BY <1>6, <2>2, <2>3 DEF DeleteByHash, StorageTypeOK, chainVars
<1>7. CASE PostDeleteReceipt \/ PostFails
  BY <1>7 DEF PostDeleteReceipt, PostFails, StorageTypeOK, files, chainVars, ghostVars
<1>8. CASE provePendingChallenges
  BY <1>8 DEF provePendingChallenges, Prove, StorageTypeOK, files, ghostVars, FileState
<1>9. ASSUME NEW i \in Intent, FinalizeIntent(i) PROVE StorageTypeOK'
  BY <1>9 DEF FinalizeIntent, StorageTypeOK, files, ghostVars
<1>10. ASSUME NEW i \in Intent, EndDeal(i) PROVE StorageTypeOK'
  BY <1>10 DEF EndDeal, ensureDeleteTasks, StorageTypeOK, files
<1>11. CASE Challenge
  BY <1>11 DEF Challenge, StorageTypeOK, files, ghostVars
<1>12. ASSUME NEW entry \in Entry, Moderate(entry) PROVE StorageTypeOK'
  BY <1>12 DEF Moderate, StorageTypeOK, files, ghostVars
<1>13. CASE EntryExpires
  BY <1>13 DEF EntryExpires, StorageTypeOK, files, ghostVars
<1>14. CASE SyncFromChain
  BY <1>14 DEF SyncFromChain, StorageTypeOK, files, chainVars, ghostVars, Entry
<1>15. CASE Crash
  BY <1>15 DEF Crash, StorageTypeOK, files, chainVars, Entry
<1> QED
  BY <1>1, <1>2, <1>3, <1>4, <1>5, <1>6, <1>7, <1>8, <1>9, <1>10, <1>11, <1>12, <1>13, <1>14, <1>15
     DEF StorageNext, Upload, repairPendingTasks, repairTask, Caller

-----------------------------------------------------------------------------
(***************************************************************************)
(* The disk: its steps                                                     *)
(***************************************************************************)
\* A Store is begun, with a pending task of another deal only by one that is exposed.
LEMMA DiskChecked ==
  ASSUME DiskInv, StorageTypeOK', NEW c \in Caller, NEW i \in Intent,
         StoreChecked(c, i), deal[i] \in {"open", "finalized"}
  PROVE  DiskInv'
<1>1. /\ store[c] = Idle /\ Stored(c) = "idle" /\ store' = [store EXCEPT ![c] = <<i, "authorize">>]
      /\ UNCHANGED <<blockFile, hashIndex, cidIndex, legacyFile, deletion, posted, deal, receipt,
                     task, gone, mixed>>
      /\ exposed' = IF Unretained # {} /\ deal[i] = "open" THEN exposed \cup {i} ELSE exposed
  BY DEF StoreChecked, files, chainVars, Stored
<1>2. /\ store'[c] = <<i, "authorize">> /\ store'[c] # Idle /\ Stored(c)' = "authorize"
      /\ \A d \in Caller \ {c} : store'[d] = store[d] /\ Stored(d)' = Stored(d)
  BY <1>1, CallMoves DEF DiskInv, StoreStep
<1>3. Started' = Started /\ Deleting' = Deleting /\ Unretained' = Unretained /\ Good' = Good
  BY <1>1, <1>2 DEF Started, Writing, Deleting, Unretained, Good
<1>4. \A d \in Started : Stored(d)' = Stored(d)
  BY <1>1, <1>2 DEF Started, Writing
<1>5. Quiet' /\ Removed' /\ TasksFollow' /\ Receipted'
  BY <1>1, <1>3 DEF DiskInv, Quiet, Removed, TasksFollow, Receipted
<1>6. Filling'
  BY <1>1, <1>3, <1>4 DEF DiskInv, Filling
<1>7. \A j \in Intent : Signs(j)' => Signs(j)
  BY <1>1, <1>2 DEF Signs
<1>8. \A j \in Intent \ {i} : Works(j)' => Works(j)
  BY <1>1, <1>2 DEF Works
<1>9. Referenced'
  <2> SUFFICES ASSUME NEW j \in Intent \ exposed',
                      deal[j] = "finalized" \/ (deal[j] = "open" /\ (j \in receipt \/ Works(j)'))
               PROVE  Unretained = {}
    BY <1>1, <1>3 DEF Referenced
  <2>1. j \in Intent \ exposed
    BY <1>1
  <2>2. CASE j = i
    BY <1>1, <2>1, <2>2 DEF DiskInv, Referenced
  <2>3. CASE j # i
    BY <1>8, <2>1, <2>3 DEF DiskInv, Referenced
  <2> QED
    BY <2>2, <2>3
<1>10. Whole'
  BY <1>1, <1>3, <1>7 DEF DiskInv, Whole
<1> QED
  BY <1>1, <1>5, <1>6, <1>9, <1>10 DEF DiskInv, ProvesWholeBytes

\* The chain agrees, or does not answer.
LEMMA DiskAuthorized ==
  ASSUME DiskInv, StorageTypeOK', NEW c \in Caller, authorizeUpload(c)
  PROVE  DiskInv'
<1>1. /\ Stored(c) = "authorize" /\ store[c] # Idle /\ store[c][1] \in Intent
      /\ UNCHANGED <<blockFile, hashIndex, cidIndex, legacyFile, deletion, posted, deal, receipt,
                     task, gone, mixed, exposed>>
  BY CallSteps DEF authorizeUpload, files, chainVars, ghostVars, DiskInv
<1>2. /\ \/ store'[c] = <<store[c][1], "block open">> /\ store'[c] # Idle /\ Stored(c)' = "block open"
         \/ store'[c] = Idle /\ Stored(c)' = "idle"
      /\ \A d \in Caller \ {c} : store'[d] = store[d] /\ Stored(d)' = Stored(d)
  <2>1. CASE store' = [store EXCEPT ![c] = <<store[c][1], "block open">>]
    BY <1>1, <2>1, CallMoves DEF DiskInv, StoreStep, Writing
  <2>2. CASE store' = [store EXCEPT ![c] = Idle]
    BY <2>2, CallEnds DEF DiskInv
  <2> QED
    BY <2>1, <2>2 DEF authorizeUpload
<1>3. Started' = Started /\ Deleting' = Deleting /\ Unretained' = Unretained /\ Good' = Good
  BY <1>1, <1>2 DEF Started, Writing, Deleting, Unretained, Good
<1>4. \A d \in Started : Stored(d)' = Stored(d)
  BY <1>1, <1>2 DEF Started, Writing
<1>5. Quiet' /\ Removed' /\ TasksFollow' /\ Receipted'
  BY <1>1, <1>3 DEF DiskInv, Quiet, Removed, TasksFollow, Receipted
<1>6. Filling'
  BY <1>1, <1>3, <1>4 DEF DiskInv, Filling
<1>7. \A j \in Intent : (Signs(j)' => Signs(j)) /\ (Works(j)' => Works(j))
  <2> DEFINE i == store[c][1]
  <2>1. store'[c] # Idle => store'[c][1] = i /\ store'[c][2] = "block open"
    <3>1. store'[c] = <<i, "block open">> \/ store'[c] = Idle
      BY <1>2
    <3>2. <<i, "block open">>[1] = i /\ <<i, "block open">>[2] = "block open"
      BY Pairs
    <3> QED
      BY <3>1, <3>2
  <2>2. \A j \in Intent : Works(j)' => Works(j)
    BY <1>1, <1>2, <2>1 DEF Works
  <2>3. \A j : <<j, "sign">>[2] = "sign"
    OBVIOUS
  <2>4. \A j \in Intent : Signs(j)' => Signs(j)
    BY <1>2, <2>1, <2>3 DEF Signs
  <2> QED
    BY <2>2, <2>4
<1>8. Referenced'
  BY <1>1, <1>3, <1>7 DEF DiskInv, Referenced
<1>9. Whole'
  BY <1>1, <1>3, <1>7 DEF DiskInv, Whole
<1> QED
  BY <1>1, <1>5, <1>6, <1>8, <1>9 DEF DiskInv, ProvesWholeBytes

\* One step of PutBlock.
LEMMA DiskWritten ==
  ASSUME DiskInv, StorageTypeOK', NEW c \in Caller, PutBlock(c)
  PROVE  DiskInv'
<1> DEFINE step == Stored(c)
           next == NextWrite(step)
           j == store[c][1]
<1>1. /\ step \in Writing /\ store[c] # Idle /\ j \in Intent /\ next \in StoreStep
      /\ store[c] = <<j, step>>
      /\ UNCHANGED <<legacyFile, deletion, posted, deal, receipt, task, exposed>>
      /\ gone' = FALSE /\ mixed' = Overlapped(c)
      /\ blockFile' = WriteFile(step, "block open", "block", blockFile)
      /\ hashIndex' = WriteFile(step, "hash open", "hash", hashIndex)
      /\ cidIndex' = WriteFile(step, "cid open", "cid", cidIndex)
      /\ store' = [store EXCEPT ![c] = <<j, next>>]
  <2>1. step \in Writing
    BY DEF PutBlock
  <2>2. next \in StoreStep
    BY <2>1, StepTypes
  <2>3. store[c] # Idle /\ j \in Intent /\ store[c] = <<j, step>>
    BY <2>1, CallSteps DEF DiskInv, Writing
  <2> HIDE DEF next
  <2> QED
    BY <2>1, <2>2, <2>3 DEF PutBlock, chainVars, next
<1>2. /\ store'[c] = <<j, next>> /\ store'[c] # Idle /\ Stored(c)' = next
      /\ \A d \in Caller \ {c} : store'[d] = store[d] /\ Stored(d)' = Stored(d)
  BY <1>1, CallMoves DEF DiskInv
<1>3. /\ c \in Started <=> step # "block open"
      /\ c \in Started' <=> step # "cid"
      /\ \A d \in Caller \ {c} : d \in Started' <=> d \in Started
      /\ Started \subseteq Caller /\ Started' \subseteq Caller
  <2>1. next \in Writing \ {"block open"} <=> step # "cid"
    BY <1>1 DEF NextWrite, Writing
  <2> QED
    BY <1>1, <1>2, <2>1 DEF Started
<1>4. Deleting' = Deleting /\ Unretained' = Unretained
  BY <1>1 DEF Deleting, Unretained
<1>5. ~mixed' => ~Deleting /\ (mixed => step = "block open" /\ Started' = {c})
  <2> SUFFICES ASSUME ~mixed' PROVE ~Deleting /\ (mixed => step = "block open" /\ Started' = {c})
    OBVIOUS
  <2>1. ~Deleting
    BY <1>1 DEF Overlapped
  <2>2. ASSUME mixed PROVE step = "block open" /\ Started' = {c}
    <3>1. step = "block open" /\ Storing = {c}
      BY <1>1, <2>2 DEF Overlapped
    <3>2. \A d \in Caller \ {c} : d \notin Started
      BY <3>1 DEF Storing, Started
    <3> QED
      BY <1>3, <3>1, <3>2
  <2> QED
    BY <2>1, <2>2
<1>6. Filling'
  <2> SUFFICES ASSUME ~mixed', Started' # {}
               PROVE  /\ blockFile' = "good" \/ \E d \in Started' : Stored(d)' = "block"
                      /\ hashIndex' = "good" \/ \E d \in Started' :
                                                  Stored(d)' \in {"block", "hash open", "hash"}
    BY <1>4, <1>5 DEF Filling
  <2>1. CASE step = "block open"
    <3>1. next = "block" /\ c \in Started'
      BY <1>3, <2>1 DEF NextWrite
    <3> QED
      BY <1>2, <3>1
  <2>2. CASE step # "block open"
    <3>1. ~mixed /\ Started # {} /\ c \in Started
      BY <1>3, <1>5, <2>2
    <3>2. /\ blockFile = "good" \/ \E d \in Started : Stored(d) = "block"
          /\ hashIndex = "good" \/ \E d \in Started : Stored(d) \in {"block", "hash open", "hash"}
      BY <3>1 DEF DiskInv, Filling
    <3>3. blockFile' = "good" \/ \E d \in Started' : Stored(d)' = "block"
      <4>1. CASE step = "block"
        BY <1>1, <4>1 DEF WriteFile
      <4>2. CASE step # "block"
        <5>1. blockFile' = blockFile
          BY <1>1, <2>2, <4>2 DEF WriteFile
        <5>2. \A d \in Started : Stored(d) = "block" => d \in Started' /\ Stored(d)' = "block"
          BY <1>2, <1>3, <4>2
        <5> QED
          BY <3>2, <5>1, <5>2
      <4> QED
        BY <4>1, <4>2
    <3>4. hashIndex' = "good" \/ \E d \in Started' : Stored(d)' \in {"block", "hash open", "hash"}
      <4>1. CASE step = "hash"
        BY <1>1, <4>1 DEF WriteFile
      <4>2. CASE step \in {"block", "hash open"}
        <5>1. next \in {"hash open", "hash"} /\ c \in Started'
          BY <1>3, <4>2 DEF NextWrite
        <5> QED
          BY <1>2, <5>1
      <4>3. CASE step \in {"cid open", "cid"}
        <5>1. hashIndex' = hashIndex
          BY <1>1, <4>3 DEF WriteFile
        <5>2. \A d \in Started : Stored(d) \in {"block", "hash open", "hash"} =>
                d \in Started' /\ Stored(d)' \in {"block", "hash open", "hash"}
          BY <1>2, <1>3, <4>3
        <5> QED
          BY <3>2, <5>1, <5>2
      <4> QED
        BY <1>1, <2>2, <4>1, <4>2, <4>3 DEF Writing
    <3> QED
      BY <3>3, <3>4
  <2> QED
    BY <2>1, <2>2
\* The last call to end leaves the files whole.
<1>7. ~mixed' /\ Started' = {} => Good' /\ ~Deleting
  <2> SUFFICES ASSUME ~mixed', Started' = {} PROVE Good'
    BY <1>5
  <2>1. step = "cid" /\ ~mixed /\ c \in Started
    BY <1>3, <1>5
  <2>2. Started = {c}
    BY <1>3, <2>1
  <2>3. blockFile = "good" /\ hashIndex = "good"
    BY <2>1, <2>2 DEF DiskInv, Filling
  <2> QED
    BY <1>1, <2>1, <2>3 DEF WriteFile, Good
<1>8. Quiet' /\ Whole'
  BY <1>4, <1>7 DEF Quiet, Whole, Good
<1>9. Removed' /\ TasksFollow' /\ Receipted'
  BY <1>1, <1>4 DEF DiskInv, Removed, TasksFollow, Receipted
<1>10. Referenced'
  <2>1. store'[c][1] = j
    BY <1>2
  <2>2. \A i \in Intent : Works(i)' => Works(i)
    BY <1>1, <1>2, <2>1 DEF Works
  <2> QED
    BY <1>1, <1>4, <2>2 DEF DiskInv, Referenced
<1> QED
  BY <1>1, <1>6, <1>8, <1>9, <1>10 DEF DiskInv, ProvesWholeBytes

\* The receipt is signed.
LEMMA DiskSigned ==
  ASSUME DiskInv, StorageTypeOK', NEW c \in Caller, SignReceipt(c)
  PROVE  DiskInv'
<1> DEFINE j == store[c][1]
<1>1. /\ Stored(c) = "sign" /\ store[c] # Idle /\ j \in Intent /\ store[c] = <<j, "sign">>
      /\ UNCHANGED <<blockFile, hashIndex, cidIndex, legacyFile, deletion, posted, deal,
                     task, gone, mixed, exposed>>
      /\ receipt' = IF c = "upload" THEN receipt \cup {j} ELSE receipt
  BY CallSteps DEF SignReceipt, files, ghostVars, DiskInv
<1>2. /\ store'[c] = Idle /\ Stored(c)' = "idle"
      /\ \A d \in Caller \ {c} : store'[d] = store[d] /\ Stored(d)' = Stored(d)
  BY CallEnds DEF SignReceipt, DiskInv
<1>3. Started' = Started /\ Deleting' = Deleting /\ Unretained' = Unretained /\ Good' = Good
  BY <1>1, <1>2 DEF Started, Writing, Deleting, Unretained, Good
<1>4. \A d \in Started : Stored(d)' = Stored(d)
  BY <1>1, <1>2 DEF Started, Writing
<1>5. Quiet' /\ Removed' /\ TasksFollow' /\ Receipted'
  BY <1>1, <1>3 DEF DiskInv, Quiet, Removed, TasksFollow, Receipted
<1>6. Filling'
  BY <1>1, <1>3, <1>4 DEF DiskInv, Filling
<1>7. \A i \in Intent : (Signs(i)' => Signs(i)) /\ (Works(i)' => Works(i))
  BY <1>2 DEF Signs, Works
<1>8. Signs(j) /\ Works(j)
  BY <1>1 DEF Signs, Works
<1>9. Referenced'
  <2> SUFFICES ASSUME NEW i \in Intent \ exposed,
                      deal[i] = "finalized" \/ (deal[i] = "open" /\ (i \in receipt' \/ Works(i)'))
               PROVE  Unretained = {}
    BY <1>1, <1>3 DEF Referenced
  <2>1. deal[i] = "finalized" \/ (deal[i] = "open" /\ (i \in receipt \/ Works(i)))
    BY <1>1, <1>7, <1>8
  <2> QED
    BY <2>1 DEF DiskInv, Referenced
<1>10. Whole'
  <2> SUFFICES ASSUME ~mixed, Started = {}, NEW i \in Intent \ exposed, deal[i] # "ended",
                      i \in receipt' \/ Signs(i)'
               PROVE  Good
    BY <1>1, <1>3 DEF Whole
  <2>1. i \in receipt \/ Signs(i)
    BY <1>1, <1>7, <1>8
  <2> QED
    BY <2>1 DEF DiskInv, Whole
<1> QED
  BY <1>1, <1>5, <1>6, <1>9, <1>10 DEF DiskInv, ProvesWholeBytes

\* The deleter takes up a task.
LEMMA DiskTaken ==
  ASSUME DiskInv, StorageTypeOK', NEW i \in Intent, TakeTask(i)
  PROVE  DiskInv'
<1>1. /\ deletion = Idle /\ ~Deleting
      /\ UNCHANGED <<blockFile, hashIndex, cidIndex, legacyFile, store, posted, deal, receipt,
                     task, gone, exposed>>
  BY DEF TakeTask, files, chainVars, Deleting
<1>2. \/ /\ task[i] = "pending" /\ deletion' = <<i, "read">> /\ Deleting'
         /\ mixed' = (mixed \/ Storing # {})
      \/ deletion' = <<i, "post">> /\ ~Deleting' /\ mixed' = mixed
  <2>1. <<i, "read">> # Idle /\ <<i, "read">>[2] = "read" /\ <<i, "post">>[2] = "post"
    BY DEF Idle
  <2> QED
    BY <2>1 DEF TakeTask, Deleting
<1>3. /\ Started' = Started /\ Unretained' = Unretained /\ Good' = Good
      /\ \A c \in Caller : Stored(c)' = Stored(c)
      /\ Started \subseteq Storing /\ Started \subseteq Caller
  BY <1>1 DEF Started, Unretained, Good, Stored, Storing
<1>4. ~mixed' => ~mixed /\ (Deleting' => Started = {})
  BY <1>2, <1>3
<1>5. Quiet'
  <2>1. Deleting' => deletion'[2] = "read"
    BY <1>2
  <2> QED
    BY <1>1, <1>3, <1>4, <2>1 DEF DiskInv, Quiet
<1>6. Filling'
  BY <1>1, <1>3, <1>4 DEF DiskInv, Filling
<1>7. Removed'
  BY <1>1, <1>3, <1>4 DEF DiskInv, Removed
<1>8. TasksFollow' /\ Receipted'
  <2>1. /\ Deleting' => task'[deletion'[1]] = "pending"
        /\ task[i] # "none" /\ deletion'[1] = i
    <3>1. deletion' = <<i, "read">> \/ deletion' = <<i, "post">>
      BY <1>2
    <3>2. deletion'[1] = i
      BY <3>1
    <3>3. task[i] # "none"
      BY DEF TakeTask
    <3> QED
      BY <1>1, <1>2, <3>2, <3>3
  <2> QED
    BY <1>1, <2>1 DEF DiskInv, TasksFollow, Receipted
<1>9. \A j \in Intent : (Signs(j)' => Signs(j)) /\ (Works(j)' => Works(j))
  BY <1>1 DEF Signs, Works
<1>10. Referenced' /\ Whole'
  BY <1>1, <1>3, <1>4, <1>9 DEF DiskInv, Referenced, Whole
<1> QED
  BY <1>1, <1>5, <1>6, <1>7, <1>8, <1>10 DEF DiskInv, ProvesWholeBytes

\* One step of DeleteByHash.
LEMMA DiskRemoved ==
  ASSUME DiskInv, StorageTypeOK', DeleteByHash
  PROVE  DiskInv'
<1> DEFINE step == deletion[2]
           next == NextRemoval(step)
           i == deletion[1]
<1>1. /\ Deleting /\ step \in DeleteStep \ {"post"} /\ i \in Intent /\ next \in DeleteStep
      /\ UNCHANGED <<store, posted, deal, receipt, task, mixed, exposed>>
      /\ blockFile' = IF step = "block" THEN "absent" ELSE blockFile
      /\ cidIndex' = IF step = "cid" THEN "absent" ELSE cidIndex
      /\ hashIndex' = IF step = "hash" THEN "absent" ELSE hashIndex
      /\ legacyFile' = IF step = "legacy" THEN "absent" ELSE legacyFile
      /\ gone' = (gone \/ step = "legacy")
  BY DeletionSteps, StepTypes DEF DeleteByHash, DiskInv, chainVars
<1>2. /\ deletion' = <<i, next>> /\ deletion' # Idle /\ deletion'[1] = i /\ deletion'[2] = next
      /\ (Deleting' <=> next # "post")
  <2>1. next # "failed"
    BY <1>1 DEF DeleteStep
  <2>2. deletion' = <<i, next>>
    BY <2>1 DEF DeleteByHash
  <2> HIDE DEF next, i
  <2> QED
    BY <2>2 DEF Deleting, Idle
<1>3. /\ Started' = Started /\ Unretained' = Unretained
      /\ \A c \in Caller : Stored(c)' = Stored(c)
  BY <1>1 DEF Started, Unretained, Stored
<1>4. Unretained # {}
  BY <1>1 DEF DiskInv, TasksFollow, Unretained
<1>5. \A j \in Intent : Works(j)' = Works(j) /\ Signs(j)' = Signs(j)
  BY <1>1 DEF Works, Signs
<1>6. ~mixed => Started = {}
  BY <1>1 DEF DiskInv, Filling
<1>7. /\ next = "block" => step = "read"
      /\ next = "cid" => step = "block"
      /\ next = "hash" => step = "cid" \/ (step = "read" /\ hashIndex # "good")
      /\ next = "legacy" => step = "hash"
      /\ next = "post" => step = "legacy"
      /\ next # "read"
  BY <1>1 DEF NextRemoval, DeleteStep
<1>8. ASSUME ~mixed
      PROVE  /\ "torn" \notin {blockFile', hashIndex', cidIndex'}
             /\ hashIndex' = "absent" => blockFile' = "absent" /\ cidIndex' = "absent"
             /\ Deleting' /\ next \in {"cid", "hash", "legacy"} => blockFile' = "absent"
             /\ Deleting' /\ next \in {"hash", "legacy"} => cidIndex' = "absent"
             /\ Deleting' /\ next = "legacy" => hashIndex' = "absent"
  <2>1. /\ "torn" \notin {blockFile, hashIndex, cidIndex}
        /\ hashIndex = "absent" => blockFile = "absent" /\ cidIndex = "absent"
        /\ step \in {"cid", "hash", "legacy"} => blockFile = "absent"
        /\ step \in {"hash", "legacy"} => cidIndex = "absent"
        /\ step = "legacy" => hashIndex = "absent"
    BY <1>1, <1>6, <1>8 DEF DiskInv, Quiet
  <2>2. hashIndex \in {"good", "absent"}
    BY <2>1 DEF DiskInv, StorageTypeOK, FileState
  <2> HIDE DEF next, step
  <2> QED
    BY <1>1, <1>7, <2>1, <2>2 DEF DeleteStep
<1>9. Quiet'
  BY <1>1, <1>2, <1>8 DEF Quiet
<1>10. Filling'
  BY <1>1, <1>3, <1>6 DEF Filling
<1>11. Removed'
  <2> SUFFICES ASSUME gone', ~mixed
               PROVE  /\ Started = {} /\ blockFile' = "absent" /\ hashIndex' = "absent"
                      /\ cidIndex' = "absent" /\ legacyFile' = "absent"
    BY <1>1, <1>3 DEF Removed
  <2>1. CASE gone
    BY <1>1, <2>1 DEF DiskInv, Removed
  <2>2. CASE step = "legacy"
    BY <1>1, <1>6, <2>2 DEF DiskInv, Quiet
  <2> QED
    BY <1>1, <2>1, <2>2
<1>12. TasksFollow' /\ Receipted'
  BY <1>1, <1>2 DEF DiskInv, TasksFollow, Receipted
<1>13. Referenced'
  BY <1>1, <1>3, <1>5 DEF DiskInv, Referenced
\* Nobody who is referenced is there to find them missing.
<1>14. Whole'
  <2> SUFFICES ASSUME NEW j \in Intent \ exposed, deal[j] # "ended", j \in receipt \/ Signs(j)
               PROVE  FALSE
    BY <1>1, <1>3, <1>5 DEF Whole
  <2>1. Signs(j) => Works(j)
    <3>1. <<j, "sign">>[1] = j
      OBVIOUS
    <3> QED
      BY <3>1 DEF Signs, Works
  <2>2. deal[j] \in {"open", "finalized"}
    BY DEF DiskInv, StorageTypeOK
  <2> QED
    BY <1>4, <2>1, <2>2 DEF DiskInv, Referenced
<1> QED
  BY <1>1, <1>9, <1>10, <1>11, <1>12, <1>13, <1>14 DEF DiskInv, ProvesWholeBytes

\* The delete receipt is posted, or is not.
LEMMA DiskPosted ==
  ASSUME DiskInv, StorageTypeOK', PostDeleteReceipt \/ PostFails
  PROVE  DiskInv'
<1>1. /\ deletion # Idle /\ deletion[2] = "post" /\ ~Deleting /\ deletion' = Idle /\ ~Deleting'
      /\ deletion[1] \in Intent
      /\ UNCHANGED <<blockFile, hashIndex, cidIndex, legacyFile, store, posted, deal, receipt,
                     gone, mixed, exposed>>
      /\ task' = task \/ task' = [task EXCEPT ![deletion[1]] = "completed"]
  BY DeletionSteps DEF PostDeleteReceipt, PostFails, Deleting, files, chainVars, ghostVars, DiskInv
<1>2. /\ Started' = Started /\ Good' = Good
      /\ \A c \in Caller : Stored(c)' = Stored(c)
      /\ Started \subseteq Caller
  BY <1>1 DEF Started, Good, Stored
<1>3. \A j \in Intent : Works(j)' = Works(j) /\ Signs(j)' = Signs(j)
  BY <1>1 DEF Works, Signs
<1>4. Unretained' \subseteq Unretained
  BY <1>1 DEF Unretained, DiskInv, StorageTypeOK
<1>5. Quiet' /\ Removed' /\ Whole'
  BY <1>1, <1>2, <1>3 DEF DiskInv, Quiet, Removed, Whole
<1>6. Filling'
  BY <1>1, <1>2 DEF DiskInv, Filling
<1>7. Receipted' /\ Referenced'
  BY <1>1, <1>3, <1>4 DEF DiskInv, Receipted, Referenced
<1>8. TasksFollow'
  <2>1. deletion # Idle => task[deletion[1]] # "none"
    BY DEF DiskInv, TasksFollow
  <2> QED
    BY <1>1, <2>1 DEF DiskInv, TasksFollow, StorageTypeOK
<1> QED
  BY <1>1, <1>5, <1>6, <1>7, <1>8 DEF DiskInv, ProvesWholeBytes

\* A deal is finalized.
LEMMA DiskFinalized ==
  ASSUME DiskInv, StorageTypeOK', NEW i \in Intent, FinalizeIntent(i)
  PROVE  DiskInv'
<1>1. /\ deal[i] = "open" /\ i \in receipt /\ deal' = [deal EXCEPT ![i] = "finalized"]
      /\ UNCHANGED <<blockFile, hashIndex, cidIndex, legacyFile, store, deletion, posted, receipt,
                     task, gone, mixed, exposed>>
  BY DEF FinalizeIntent, files, ghostVars
<1>2. /\ deal'[i] = "finalized"
      /\ \A j \in Intent \ {i} : deal'[j] = deal[j]
  BY <1>1 DEF DiskInv, StorageTypeOK
<1>3. /\ Started' = Started /\ Deleting' = Deleting /\ Unretained' = Unretained /\ Good' = Good
      /\ \A c \in Caller : Stored(c)' = Stored(c)
      /\ Started \subseteq Caller
  BY <1>1 DEF Started, Deleting, Unretained, Good, Stored
<1>4. \A j \in Intent : Works(j)' = Works(j) /\ Signs(j)' = Signs(j)
  BY <1>1 DEF Works, Signs
<1>5. Quiet' /\ Removed'
  BY <1>1, <1>3 DEF DiskInv, Quiet, Removed
<1>6. Filling'
  BY <1>1, <1>3 DEF DiskInv, Filling
<1>7. TasksFollow' /\ Receipted'
  BY <1>1, <1>2, <1>3 DEF DiskInv, TasksFollow, Receipted
<1>8. Referenced'
  <2> SUFFICES ASSUME NEW j \in Intent \ exposed,
                      deal'[j] = "finalized" \/ (deal'[j] = "open" /\ (j \in receipt \/ Works(j)))
               PROVE  Unretained = {}
    BY <1>1, <1>3, <1>4 DEF Referenced
  <2> QED
    BY <1>1, <1>2 DEF DiskInv, Referenced
<1>9. Whole'
  <2> SUFFICES ASSUME ~mixed, Started = {}, NEW j \in Intent \ exposed, deal'[j] # "ended",
                      j \in receipt \/ Signs(j)
               PROVE  Good
    BY <1>1, <1>3, <1>4 DEF Whole
  <2>1. deal[j] # "ended"
    BY <1>1, <1>2
  <2> QED
    BY <2>1 DEF DiskInv, Whole
<1> QED
  BY <1>1, <1>5, <1>6, <1>7, <1>8, <1>9 DEF DiskInv, ProvesWholeBytes

\* A deal ends: its task is retained when another finalized deal needs the bytes, and the
\* deals that are not finalized yet are exposed.
LEMMA DiskEnded ==
  ASSUME DiskInv, StorageTypeOK', NEW i \in Intent, EndDeal(i)
  PROVE  DiskInv'
<1>1. /\ deal[i] = "finalized" /\ deal' = [deal EXCEPT ![i] = "ended"]
      /\ task' = [task EXCEPT ![i] = ensureDeleteTasks(i)]
      /\ UNCHANGED <<blockFile, hashIndex, cidIndex, legacyFile, store, deletion, posted, receipt,
                     gone, mixed>>
      /\ exposed \subseteq exposed'
      /\ \A j \in Intent \ {i} : deal[j] = "open" /\ (j \in receipt \/ Works(j)) => j \in exposed'
  BY DEF EndDeal, files, Works
<1>2. /\ deal'[i] = "ended" /\ task'[i] = ensureDeleteTasks(i)
      /\ \A j \in Intent \ {i} : deal'[j] = deal[j] /\ task'[j] = task[j]
      /\ task[i] = "none"
  BY <1>1 DEF DiskInv, StorageTypeOK, TasksFollow
<1>3. /\ Started' = Started /\ Deleting' = Deleting /\ Good' = Good
      /\ \A c \in Caller : Stored(c)' = Stored(c)
      /\ Started \subseteq Caller
  BY <1>1 DEF Started, Deleting, Good, Stored
<1>4. \A j \in Intent : Works(j)' = Works(j) /\ Signs(j)' = Signs(j)
  BY <1>1 DEF Works, Signs
<1>5. Quiet' /\ Removed'
  BY <1>1, <1>3 DEF DiskInv, Quiet, Removed
<1>6. Filling'
  BY <1>1, <1>3 DEF DiskInv, Filling
<1>7. TasksFollow' /\ Receipted'
  <2>1. task'[i] # "none"
    BY <1>2 DEF ensureDeleteTasks
  <2>2. deletion # Idle => deletion[1] \in Intent \ {i}
    BY <1>2, DeletionSteps DEF DiskInv, TasksFollow
  <2>3. Deleting => deletion # Idle
    BY DEF Deleting
  <2> QED
    BY <1>1, <1>2, <1>3, <2>1, <2>2, <2>3 DEF DiskInv, TasksFollow, Receipted
<1>8. Referenced'
  <2> SUFFICES ASSUME NEW j \in Intent \ exposed',
                      deal'[j] = "finalized" \/ (deal'[j] = "open" /\ (j \in receipt \/ Works(j)))
               PROVE  Unretained' = {}
    BY <1>1, <1>4 DEF Referenced
  <2>1. j # i /\ deal[j] = "finalized" /\ j \notin exposed
    BY <1>1, <1>2
  <2>2. Unretained = {}
    BY <2>1 DEF DiskInv, Referenced
  <2>3. task'[i] = "retained"
    BY <1>2, <2>1 DEF ensureDeleteTasks
  <2> QED
    BY <1>2, <2>2, <2>3 DEF Unretained
<1>9. Whole'
  <2> SUFFICES ASSUME ~mixed, Started = {}, NEW j \in Intent \ exposed', deal'[j] # "ended",
                      j \in receipt \/ Signs(j)
               PROVE  Good
    BY <1>1, <1>3, <1>4 DEF Whole
  <2>1. deal[j] # "ended" /\ j \notin exposed
    BY <1>1, <1>2
  <2> QED
    BY <2>1 DEF DiskInv, Whole
<1> QED
  BY <1>1, <1>5, <1>6, <1>7, <1>8, <1>9 DEF DiskInv, ProvesWholeBytes

\* The process dies: a Store that had begun to write leaves the files mixed.
LEMMA DiskCrashed ==
  ASSUME DiskInv, StorageTypeOK', Crash
  PROVE  DiskInv'
<1>1. /\ store' = [c \in Caller |-> Idle] /\ deletion' = Idle /\ ~Deleting'
      /\ mixed' = (mixed \/ Storing # {})
      /\ UNCHANGED <<blockFile, hashIndex, cidIndex, legacyFile, posted, deal, receipt, task,
                     gone, exposed>>
  BY DEF Crash, files, chainVars, Deleting
<1>2. Started' = {} /\ Good' = Good /\ Unretained' = Unretained
  BY <1>1 DEF Started, Stored, Writing, Good, Unretained
<1>3. ~mixed' => ~mixed /\ Started = {}
  BY <1>1 DEF Started, Storing
<1>4. \A j \in Intent : ~Works(j)' /\ ~Signs(j)'
  BY <1>1 DEF Works, Signs
<1>5. Quiet' /\ Removed' /\ Filling'
  BY <1>1, <1>2, <1>3 DEF DiskInv, Quiet, Removed, Filling
<1>6. TasksFollow' /\ Receipted'
  BY <1>1 DEF DiskInv, TasksFollow, Receipted
<1>7. Referenced' /\ Whole'
  BY <1>1, <1>2, <1>3, <1>4 DEF DiskInv, Referenced, Whole
<1> QED
  BY <1>1, <1>5, <1>6, <1>7 DEF DiskInv, ProvesWholeBytes

-----------------------------------------------------------------------------
(***************************************************************************)
(* The disk: its theorems                                                  *)
(***************************************************************************)
\* Every step of the node and of the chain keeps the invariant.
LEMMA DiskStep ==
  ASSUME DiskInv, [StorageNext]_nodeVars
  PROVE  DiskInv'
<1>1. StorageTypeOK'
  <2>1. CASE StorageNext
    BY <2>1, StorageTypes DEF DiskInv
  <2>2. CASE UNCHANGED nodeVars
    BY <2>2 DEF DiskInv, StorageTypeOK, nodeVars, files, chainVars, ghostVars
  <2> QED
    BY <2>1, <2>2
<1>2. ASSUME NEW i \in Intent, Upload(i) PROVE DiskInv'
  BY <1>1, <1>2, DiskChecked DEF Upload, Caller
<1>3. ASSUME NEW i \in Intent, repairPendingTasks(i) PROVE DiskInv'
  BY <1>1, <1>3, DiskChecked DEF repairPendingTasks, repairTask, Caller
<1>4. ASSUME NEW i \in Intent, TakeTask(i) PROVE DiskInv'
  BY <1>1, <1>4, DiskTaken
<1>5. ASSUME NEW i \in Intent, FinalizeIntent(i) PROVE DiskInv'
  BY <1>1, <1>5, DiskFinalized
<1>6. ASSUME NEW i \in Intent, EndDeal(i) PROVE DiskInv'
  BY <1>1, <1>6, DiskEnded
<1>7. ASSUME NEW c \in Caller, authorizeUpload(c) PROVE DiskInv'
  BY <1>1, <1>7, DiskAuthorized
<1>8. ASSUME NEW c \in Caller, PutBlock(c) PROVE DiskInv'
  BY <1>1, <1>8, DiskWritten
<1>9. ASSUME NEW c \in Caller, SignReceipt(c) PROVE DiskInv'
  BY <1>1, <1>9, DiskSigned
<1>10. CASE DeleteByHash
  BY <1>1, <1>10, DiskRemoved
<1>11. CASE PostDeleteReceipt \/ PostFails
  BY <1>1, <1>11, DiskPosted
<1>12. CASE provePendingChallenges
  <2>1. ProvesWholeBytes'
    BY <1>12 DEF provePendingChallenges, Prove, DiskInv, ProvesWholeBytes
  <2>2. UNCHANGED <<files, store, deletion, gone, mixed, exposed, deal, receipt, task>>
    BY <1>12 DEF provePendingChallenges, ghostVars
  <2> QED
    BY <1>1, <2>1, <2>2, DiskFrame
<1>13. ASSUME NEW entry \in Entry,
              Challenge \/ Moderate(entry) \/ EntryExpires \/ SyncFromChain \/ UNCHANGED nodeVars
       PROVE  DiskInv'
  <2>1. UNCHANGED <<files, store, deletion, gone, mixed, exposed, deal, receipt, task, posted>>
    BY <1>13 DEF Challenge, Moderate, EntryExpires, SyncFromChain, nodeVars, ghostVars, chainVars
  <2>2. ProvesWholeBytes'
    BY <2>1 DEF DiskInv, ProvesWholeBytes
  <2> QED
    BY <1>1, <2>1, <2>2, DiskFrame
<1>14. CASE Crash
  BY <1>1, <1>14, DiskCrashed
<1> QED
  BY <1>2, <1>3, <1>4, <1>5, <1>6, <1>7, <1>8, <1>9, <1>10, <1>11, <1>12, <1>13, <1>14
     DEF StorageNext, Entry

\* A node that starts over an empty directory, or over one with a legacy file, keeps the invariant.
LEMMA DiskStart == StorageInit => DiskInv
<1> SUFFICES ASSUME StorageInit PROVE DiskInv
  OBVIOUS
<1>1. StorageTypeOK
  <2>1. 0 \in 0..MaxStores /\ 0 \in 0..MaxCrashes
    BY StorageAssumption
  <2>2. /\ store \in [Caller -> {Idle} \cup (Intent \X StoreStep)]
        /\ deal \in [Intent -> {"open", "finalized", "ended"}]
        /\ task \in [Intent -> {"none", "pending", "retained", "completed"}]
    BY DEF StorageInit
  <2> QED
    BY <2>1, <2>2 DEF StorageInit, StorageTypeOK, FileState, Entry
<1>2. Started = {} /\ ~Deleting /\ Unretained = {} /\ deletion = Idle
  BY DEF StorageInit, Started, Stored, Writing, Deleting, Unretained
<1>3. \A i \in Intent : ~Works(i) /\ ~Signs(i)
  BY DEF StorageInit, Works, Signs
<1>4. Quiet /\ Filling /\ Removed /\ TasksFollow /\ Receipted
  BY <1>2 DEF StorageInit, Quiet, Filling, Removed, TasksFollow, Receipted
<1>5. Referenced /\ Whole
  BY <1>2, <1>3 DEF StorageInit, Referenced, Whole
<1> QED
  BY <1>1, <1>4, <1>5 DEF DiskInv, StorageInit, ProvesWholeBytes

\* The invariant of the disk holds always.
LEMMA DiskAlways == StorageSpec => []DiskInv
<1>1. DiskInv /\ [StorageNext]_nodeVars => DiskInv'
  BY DiskStep
<1> QED
  BY DiskStart, <1>1, PTL DEF StorageSpec

\* The shard of a finalized deal can be read, and what was deleted is gone
\* (FileBackend.Store and DeleteByHash with ensureDeleteTasks of the chain).
THEOREM ShardKept == StorageSpec => []DiskFollowsDeals
<1>1. DiskInv => DiskFollowsDeals
  <2> SUFFICES ASSUME DiskInv PROVE DiskFollowsDeals
    OBVIOUS
  <2>1. KeptForItsDeal
    <3> SUFFICES ASSUME NEW i \in Intent \ exposed, deal[i] = "finalized", ~mixed, Storing = {}
                 PROVE  GetByHash = {"good"}
      BY DEF KeptForItsDeal
    <3>1. Started = {}
      BY DEF Started, Storing
    <3>2. i \in receipt
      BY DEF DiskInv, Receipted
    <3>3. Good
      BY <3>1, <3>2 DEF DiskInv, Whole
    <3> QED
      BY <3>3 DEF Good, GetByHash
  <2>2. DeletedIsGone
    BY DEF DiskInv, Removed, DeletedIsGone
  <2> QED
    BY <2>1, <2>2 DEF DiskFollowsDeals, DiskInv
<1> QED
  BY <1>1, DiskAlways, PTL

\* What is on the cached blacklist is not served, and a proof is made of whole bytes
\* (BlacklistCache.IsBlocked before every read, and the hash Prove computes).
THEOREM ServedWholeAllowed == StorageSpec => []ServedAllowed
<1>1. DiskInv => ServedAllowed
  <2> SUFFICES ASSUME DiskInv PROVE ServedAllowed
    OBVIOUS
  <2>1. BlockedNotServed
    <3> SUFFICES ASSUME IsBlocked(blacklist), ~mixed, Storing = {}
                 PROVE  getShard \cup getBlock \cup handleBlockStream = {}
      BY DEF BlockedNotServed
    <3>1. Started = {}
      BY DEF Started, Storing
    <3>2. hashIndex \in {"good", "absent"} /\ (hashIndex = "absent" => blockFile = "absent")
      BY <3>1 DEF DiskInv, Quiet, StorageTypeOK, FileState
    <3>3. legacyFile # "absent" => Listed
      BY DEF Listed
    <3>4. blockFile # "absent" => Listed
      BY <3>2 DEF Listed
    <3>5. handleBlockStream = {}
      BY <3>3, <3>4 DEF handleBlockStream, ShardHashForCID, GetByCID
    <3> QED
      BY <3>5 DEF getShard, getBlock
  <2> QED
    BY <2>1 DEF ServedAllowed, DiskInv
<1> QED
  BY <1>1, DiskAlways, PTL

-----------------------------------------------------------------------------
(***************************************************************************)
(* Discovery                                                               *)
(***************************************************************************)
\* An announcement that lists the shard was signed while its node held it.
Honest(record) ==
  record.has => record.expires >= TTL /\ lastHeld[record.miner] >= record.expires - TTL

\* A table of records holds what was announced, each record under its own miner.
Announced(table) ==
  \A p \in Provider : table[p] = NoRecord \/ (table[p] \in sent /\ table[p].miner = p)

HeldBefore == \A p \in Provider : lastHeld[p] <= clock

HoldersInv ==
  /\ \A record \in sent : Honest(record)
  /\ Announced(providers) /\ Announced(registry)
  /\ HeldBefore
  /\ \A p \in held : lastHeld[p] = clock
  /\ dealt \subseteq held

\* What a peer spent and has left is covered by the burst and the time up to its last message.
BucketInv ==
  \A p \in Peer : taken[p] + bucket[p].tokens <= Burst + bucket[p].last /\ bucket[p].last <= clock

CacheInv == \A record \in cache.records : record.expires + CacheTTL >= cache.expiresAt

DiscoveryInv == DiscoveryTypeOK /\ HoldersInv /\ BucketInv /\ CacheInv

\* What is assumed of the constants of discovery.
LEMMA DiscoveryNumbers ==
  /\ TTL \in Nat /\ CacheTTL \in Nat /\ negativeCacheTTL \in Nat /\ Burst \in Nat /\ Stale \in Nat
  /\ MaxClock \in Nat /\ MaxAnnounce \in Nat
  /\ negativeCacheTTL <= CacheTTL /\ Burst <= Stale /\ NoMiner \notin Provider
  BY DiscoveryAssumption

\* The fields of a record.
LEMMA RecordFields ==
  ASSUME NEW record \in Record
  PROVE  /\ record.miner \in Provider /\ record.has \in BOOLEAN
         /\ record.expires \in Int /\ 0 <= record.expires /\ record.expires <= MaxClock + TTL
         /\ record # NoRecord
  BY DiscoveryNumbers DEF Record, NoRecord

\* What the types say of the numbers.
LEMMA DiscoveryValues ==
  ASSUME DiscoveryTypeOK
  PROVE  /\ clock \in Nat /\ clock <= MaxClock
         /\ \A p \in Provider : lastHeld[p] \in Int /\ -1 <= lastHeld[p] /\ lastHeld[p] <= MaxClock
         /\ \A p \in Peer : /\ bucket[p].tokens \in Nat /\ bucket[p].tokens <= Burst
                            /\ bucket[p].last \in Nat /\ taken[p] \in Nat
         /\ cache.expiresAt \in Int
  BY DiscoveryNumbers DEF DiscoveryTypeOK

\* The holders, when neither the clock nor they nor the tables move.
LEMMA HoldersFrame ==
  ASSUME HoldersInv, UNCHANGED <<clock, held, lastHeld, sent, providers, registry, dealt>>
  PROVE  HoldersInv'
  BY DEF HoldersInv, HeldBefore, Honest, Announced

\* Time passes.
LEMMA Ticks ==
  ASSUME DiscoveryInv, Tick
  PROVE  DiscoveryInv'
<1> USE DiscoveryNumbers
<1>1. /\ clock' = clock + 1 /\ clock < MaxClock /\ clock \in Nat
      /\ \A p \in Provider : lastHeld'[p] = IF p \in held THEN clock + 1 ELSE lastHeld[p]
      /\ UNCHANGED <<held, sent, bucket, providers, registry, dealt, shardIndex, value, asked, cache, taken>>
  BY DiscoveryValues DEF Tick, DiscoveryInv
<1>2. \A p \in Provider : lastHeld'[p] \in -1..MaxClock /\ lastHeld'[p] >= lastHeld[p]
  BY <1>1, DiscoveryValues DEF DiscoveryInv, HoldersInv
<1>3. DiscoveryTypeOK'
  <2>1. lastHeld' \in [Provider -> -1..MaxClock]
    BY <1>2 DEF Tick
  <2>2. clock' \in 0..MaxClock
    BY <1>1
  <2> QED
    BY <1>1, <2>1, <2>2 DEF DiscoveryInv, DiscoveryTypeOK
<1>4. HoldersInv'
  <2>1. \A record \in sent : Honest(record)'
    <3> SUFFICES ASSUME NEW record \in sent PROVE Honest(record)'
      OBVIOUS
    <3>1. record \in Record
      BY DEF DiscoveryInv, DiscoveryTypeOK
    <3>2. record.miner \in Provider /\ record.expires \in Int
      BY <3>1, RecordFields
    <3>3. /\ lastHeld'[record.miner] >= lastHeld[record.miner]
          /\ lastHeld'[record.miner] \in Int /\ lastHeld[record.miner] \in Int
      BY <1>2, <3>2, DiscoveryValues DEF DiscoveryInv
    <3>4. Honest(record)
      BY DEF DiscoveryInv, HoldersInv
    <3> QED
      BY <3>2, <3>3, <3>4 DEF Honest
  <2>2. \A p \in held : lastHeld'[p] = clock'
    BY <1>1 DEF DiscoveryInv, DiscoveryTypeOK
  <2>3. HeldBefore'
    BY <1>1, DiscoveryValues DEF DiscoveryInv, HoldersInv, HeldBefore
  <2> QED
    BY <1>1, <2>1, <2>2, <2>3 DEF DiscoveryInv, HoldersInv, Announced
<1>5. BucketInv'
  <2> SUFFICES ASSUME NEW p \in Peer
               PROVE  taken[p] + bucket[p].tokens <= Burst + bucket[p].last /\ bucket[p].last <= clock + 1
    BY <1>1 DEF BucketInv
  <2> QED
    BY <1>1, DiscoveryValues DEF DiscoveryInv, BucketInv
<1>6. CacheInv'
  BY <1>1 DEF DiscoveryInv, CacheInv
<1> QED
  BY <1>3, <1>4, <1>5, <1>6 DEF DiscoveryInv

\* A node gains or loses the shard.
LEMMA HeldOrLost ==
  ASSUME DiscoveryInv, NEW p \in Provider, (\E assigned \in BOOLEAN : Gain(p, assigned)) \/ Lose(p)
  PROVE  DiscoveryInv'
<1> USE DiscoveryNumbers
<1>1. /\ UNCHANGED <<clock, sent, bucket, providers, registry, shardIndex, value, asked, cache, taken>>
      /\ \/ /\ held' = held \cup {p} /\ dealt' \subseteq dealt \cup {p}
            /\ lastHeld' = [lastHeld EXCEPT ![p] = clock]
         \/ held' = held \ {p} /\ dealt' = dealt \ {p} /\ lastHeld' = lastHeld
  BY DEF Gain, Lose
<1>2. /\ \A q \in Provider : lastHeld'[q] = lastHeld[q] \/ (q = p /\ lastHeld'[q] = clock /\ p \in held')
      /\ lastHeld' \in [Provider -> -1..MaxClock]
      /\ p \in held' => lastHeld'[p] = clock
  <2>1. clock \in -1..MaxClock
    BY DiscoveryValues DEF DiscoveryInv
  <2> QED
    BY <1>1, <2>1 DEF DiscoveryInv, DiscoveryTypeOK
<1>3. DiscoveryTypeOK'
  <2>1. held' \subseteq Provider /\ dealt' \subseteq Provider
    BY <1>1 DEF DiscoveryInv, DiscoveryTypeOK
  <2> QED
    BY <1>1, <1>2, <2>1 DEF DiscoveryInv, DiscoveryTypeOK
<1>4. HoldersInv'
  <2>1. \A record \in sent : Honest(record)'
    <3> SUFFICES ASSUME NEW record \in sent, record.has
                 PROVE  record.expires >= TTL /\ lastHeld'[record.miner] >= record.expires - TTL
      BY DEF Honest
    <3>1. record \in Record
      BY DEF DiscoveryInv, DiscoveryTypeOK
    <3>2. record.miner \in Provider /\ record.expires \in Int
      BY <3>1, RecordFields
    <3>3. record.expires >= TTL /\ lastHeld[record.miner] >= record.expires - TTL
      BY DEF DiscoveryInv, HoldersInv, Honest
    <3>4. CASE lastHeld'[record.miner] = lastHeld[record.miner]
      BY <3>3, <3>4
    \* Nothing was signed later than now.
    <3>5. CASE lastHeld'[record.miner] = clock
      <4>1. lastHeld[record.miner] <= clock
        BY <3>2 DEF DiscoveryInv, HoldersInv, HeldBefore
      <4> QED
        BY <3>2, <3>3, <3>5, <4>1, DiscoveryValues DEF DiscoveryInv
    <3> QED
      BY <1>2, <3>2, <3>4, <3>5
  <2>2. \A q \in held' : lastHeld'[q] = clock'
    BY <1>1, <1>2 DEF DiscoveryInv, HoldersInv, DiscoveryTypeOK
  <2>3. dealt' \subseteq held'
    BY <1>1 DEF DiscoveryInv, HoldersInv
  <2>4. HeldBefore'
    BY <1>1, <1>2, DiscoveryValues DEF DiscoveryInv, HoldersInv, HeldBefore
  <2> QED
    BY <1>1, <2>1, <2>2, <2>3, <2>4 DEF DiscoveryInv, HoldersInv, Announced
<1>5. BucketInv' /\ CacheInv'
  BY <1>1 DEF DiscoveryInv, BucketInv, CacheInv
<1> QED
  BY <1>3, <1>4, <1>5 DEF DiscoveryInv

\* An announcement, in the DHT or not.
LEMMA Announces ==
  ASSUME DiscoveryInv, NEW p \in Provider,
         (\E dhtService \in BOOLEAN : AnnounceOnce(p, dhtService)) \/ PublishAllShards(p)
  PROVE  DiscoveryInv'
<1> USE DiscoveryNumbers
<1>1. /\ UNCHANGED <<clock, held, lastHeld, bucket, providers, registry, dealt, asked, cache, taken>>
      /\ sent' = sent \cup {ProviderRecord(p)} \/ sent' = sent
      /\ value' = buildDHTRecord(p) \/ value' = value
      /\ shardIndex' = shardIndex \cup {p} \/ shardIndex' = shardIndex
  BY DEF AnnounceOnce, PublishAllShards, PublishShard
<1>2. ProviderRecord(p) \in Record /\ buildDHTRecord(p) \in Record
  BY DiscoveryValues DEF ProviderRecord, buildDHTRecord, Record, DiscoveryInv
<1>3. DiscoveryTypeOK'
  BY <1>1, <1>2 DEF DiscoveryInv, DiscoveryTypeOK
<1>4. HoldersInv'
  <2>1. Honest(ProviderRecord(p))
    <3>1. /\ ProviderRecord(p).has = (p \in held) /\ ProviderRecord(p).miner = p
          /\ ProviderRecord(p).expires = clock + TTL
      BY DEF ProviderRecord
    <3>2. p \in held => clock + TTL >= TTL /\ lastHeld[p] >= (clock + TTL) - TTL
      BY DiscoveryValues DEF DiscoveryInv, HoldersInv
    <3> QED
      BY <3>1, <3>2 DEF Honest
  <2>2. \A record \in sent' : Honest(record)'
    BY <1>1, <2>1 DEF DiscoveryInv, HoldersInv, Honest
  <2> QED
    BY <1>1, <2>2 DEF DiscoveryInv, HoldersInv, HeldBefore, Announced
<1>5. BucketInv' /\ CacheInv'
  BY <1>1 DEF DiscoveryInv, BucketInv, CacheInv
<1> QED
  BY <1>3, <1>4, <1>5 DEF DiscoveryInv

\* A record put under its own miner.
LEMMA Stores ==
  ASSUME DiscoveryTypeOK, NEW table \in [Provider -> Record \cup {NoRecord}], Announced(table),
         NEW record \in sent
  PROVE  /\ storeProvider(table, record) \in [Provider -> Record \cup {NoRecord}]
         /\ Announced(storeProvider(table, record))
<1>1. record \in Record /\ record.miner \in Provider
  BY RecordFields DEF DiscoveryTypeOK
<1>2. \A p \in Provider : storeProvider(table, record)[p] = IF p = record.miner THEN record ELSE table[p]
  BY <1>1 DEF storeProvider
<1>3. storeProvider(table, record) \in [Provider -> Record \cup {NoRecord}]
  BY <1>1 DEF storeProvider
<1> QED
  BY <1>2, <1>3 DEF Announced

\* A gossip message arrives, and is let through or not.
LEMMA Gossips ==
  ASSUME DiscoveryInv, NEW record \in sent, NEW peer \in Peer, readLoop(record, peer)
  PROVE  DiscoveryInv'
<1> USE DiscoveryNumbers
<1>1. /\ UNCHANGED <<clock, held, lastHeld, sent, registry, dealt, shardIndex, value, asked, cache>>
      /\ bucket' = [bucket EXCEPT ![peer] = Allow(peer)]
      /\ \/ /\ Refilled(peer) >= 1 /\ providers' = storeProvider(providers, record)
            /\ taken' = [taken EXCEPT ![peer] = @ + 1]
         \/ Refilled(peer) < 1 /\ providers' = providers /\ taken' = taken
  <2>1. Refilled(peer) \in Int
    BY DiscoveryValues DEF Refilled, DiscoveryInv
  <2> QED
    BY <2>1 DEF readLoop
<1>2. /\ clock \in Nat /\ bucket[peer].tokens \in Nat /\ bucket[peer].tokens <= Burst
      /\ bucket[peer].last \in Nat /\ bucket[peer].last <= clock /\ taken[peer] \in Nat
      /\ taken[peer] + bucket[peer].tokens <= Burst + bucket[peer].last
      /\ clock <= MaxClock
  BY DiscoveryValues DEF DiscoveryInv, BucketInv
<1>3. /\ Refilled(peer) \in Nat /\ Refilled(peer) <= Burst
      /\ Refilled(peer) <= bucket[peer].tokens + (clock - bucket[peer].last)
  BY <1>2 DEF Refilled
<1>4. /\ Allow(peer) \in [tokens : 0..Burst, last : 0..MaxClock]
      /\ Allow(peer).last = clock
      /\ Allow(peer).tokens = IF Refilled(peer) >= 1 THEN Refilled(peer) - 1 ELSE Refilled(peer)
  BY <1>2, <1>3 DEF Allow
<1>5. providers' \in [Provider -> Record \cup {NoRecord}] /\ Announced(providers')
  BY <1>1, Stores DEF DiscoveryInv, DiscoveryTypeOK, HoldersInv
<1>6. DiscoveryTypeOK'
  <2>1. bucket' \in [Peer -> [tokens : 0..Burst, last : 0..MaxClock]]
    BY <1>1, <1>4 DEF DiscoveryInv, DiscoveryTypeOK
  <2>2. taken' \in [Peer -> Nat]
    BY <1>1 DEF DiscoveryInv, DiscoveryTypeOK
  <2> QED
    BY <1>1, <1>5, <2>1, <2>2 DEF DiscoveryInv, DiscoveryTypeOK
<1>7. HoldersInv'
  BY <1>1, <1>5 DEF DiscoveryInv, HoldersInv, HeldBefore, Honest, Announced
<1>8. BucketInv'
  <2> SUFFICES ASSUME NEW p \in Peer
               PROVE  taken'[p] + bucket'[p].tokens <= Burst + bucket'[p].last /\ bucket'[p].last <= clock
    BY <1>1 DEF BucketInv
  <2>1. CASE p # peer
    <3>1. bucket'[p] = bucket[p] /\ taken'[p] = taken[p]
      BY <1>1, <2>1 DEF DiscoveryInv, DiscoveryTypeOK
    <3> QED
      BY <3>1 DEF DiscoveryInv, BucketInv
  <2>2. CASE p = peer
    <3>1. bucket'[p].last = clock /\ bucket'[p].tokens = Allow(peer).tokens
      BY <1>1, <1>4, <2>2 DEF DiscoveryInv, DiscoveryTypeOK
    <3>2. taken'[p] = IF Refilled(peer) >= 1 THEN taken[peer] + 1 ELSE taken[peer]
      BY <1>1, <1>3, <2>2 DEF DiscoveryInv, DiscoveryTypeOK
    <3> QED
      BY <1>2, <1>3, <1>4, <3>1, <3>2
  <2> QED
    BY <2>1, <2>2
<1>9. CacheInv'
  BY <1>1 DEF DiscoveryInv, CacheInv
<1> QED
  BY <1>6, <1>7, <1>8, <1>9 DEF DiscoveryInv

\* The bucket of a peer that was silent for long is full again: by then it would be anyway.
LEMMA Forgets ==
  ASSUME DiscoveryInv, NEW peer \in Peer, cleanupPeerRateLimiters(peer)
  PROVE  DiscoveryInv'
<1> USE DiscoveryNumbers
<1>1. /\ UNCHANGED <<clock, held, lastHeld, sent, providers, registry, dealt, shardIndex, value, asked,
                     cache, taken>>
      /\ clock - bucket[peer].last > Stale
      /\ bucket' = [bucket EXCEPT ![peer] = [tokens |-> Burst, last |-> clock]]
  BY DEF cleanupPeerRateLimiters
<1>2. /\ clock \in Nat /\ bucket[peer].tokens \in Nat /\ bucket[peer].last \in Nat
      /\ taken[peer] \in Nat /\ clock <= MaxClock
      /\ taken[peer] + bucket[peer].tokens <= Burst + bucket[peer].last
  BY DiscoveryValues DEF DiscoveryInv, BucketInv
<1>3. taken[peer] + Burst <= Burst + clock
  BY <1>1, <1>2
<1>4. bucket'[peer] = [tokens |-> Burst, last |-> clock] /\ \A p \in Peer \ {peer} : bucket'[p] = bucket[p]
  BY <1>1 DEF DiscoveryInv, DiscoveryTypeOK
<1>5. DiscoveryTypeOK'
  <2>1. [tokens |-> Burst, last |-> clock] \in [tokens : 0..Burst, last : 0..MaxClock]
    BY <1>2
  <2>2. bucket' \in [Peer -> [tokens : 0..Burst, last : 0..MaxClock]]
    BY <1>1, <2>1 DEF DiscoveryInv, DiscoveryTypeOK
  <2> QED
    BY <1>1, <2>2 DEF DiscoveryInv, DiscoveryTypeOK
<1>6. HoldersInv'
  BY <1>1, HoldersFrame DEF DiscoveryInv
<1>7. BucketInv'
  <2> SUFFICES ASSUME NEW p \in Peer
               PROVE  taken[p] + bucket'[p].tokens <= Burst + bucket'[p].last /\ bucket'[p].last <= clock
    BY <1>1 DEF BucketInv
  <2>1. CASE p = peer
    BY <1>2, <1>3, <1>4, <2>1
  <2>2. CASE p # peer
    BY <1>4, <2>2 DEF DiscoveryInv, BucketInv
  <2> QED
    BY <2>1, <2>2
<1>8. CacheInv'
  BY <1>1 DEF DiscoveryInv, CacheInv
<1> QED
  BY <1>5, <1>6, <1>7, <1>8 DEF DiscoveryInv

\* The chain node accepts an announcement.
LEMMA Accepts ==
  ASSUME DiscoveryInv, NEW record \in sent, AcceptStorageProviderAnnouncement(record)
  PROVE  DiscoveryInv'
<1>1. /\ UNCHANGED <<clock, held, lastHeld, sent, bucket, providers, dealt, shardIndex, value, asked,
                     cache, taken>>
      /\ registry' = storeProvider(registry, record)
  BY DEF AcceptStorageProviderAnnouncement
<1>2. registry' \in [Provider -> Record \cup {NoRecord}] /\ Announced(registry')
  BY <1>1, Stores DEF DiscoveryInv, DiscoveryTypeOK, HoldersInv
<1>3. DiscoveryTypeOK'
  BY <1>1, <1>2 DEF DiscoveryInv, DiscoveryTypeOK
<1>4. HoldersInv'
  BY <1>1, <1>2 DEF DiscoveryInv, HoldersInv, HeldBefore, Honest, Announced
<1>5. BucketInv' /\ CacheInv'
  BY <1>1 DEF DiscoveryInv, BucketInv, CacheInv
<1> QED
  BY <1>3, <1>4, <1>5 DEF DiscoveryInv

\* A lookup in the DHT, and what is cached of it.
LEMMA LooksUp ==
  ASSUME DiscoveryInv, LookupViaValue \/ FindProviders \/ Cleanup
  PROVE  DiscoveryInv'
<1> USE DiscoveryNumbers
<1>1. UNCHANGED <<clock, held, lastHeld, sent, bucket, providers, registry, dealt, shardIndex, value, taken>>
  BY DEF LookupViaValue, FindProviders, Cleanup
<1>2. /\ asked' \subseteq Record \cup {NoRecord}
      /\ cache'.records \subseteq Record /\ cache'.expiresAt \in -1..(MaxClock + CacheTTL)
      /\ CacheInv'
  <2>1. CASE LookupViaValue
    BY <2>1 DEF LookupViaValue, DiscoveryInv, DiscoveryTypeOK, CacheInv
  <2>2. CASE FindProviders
    <3>1. Valid(asked) \subseteq Record
      BY DiscoveryValues DEF Valid, NoRecord, DiscoveryInv, DiscoveryTypeOK
    <3>2. /\ cache'.records = Valid(asked) /\ asked' = {NoRecord}
          /\ cache'.expiresAt = clock + CacheTTL \/ cache'.expiresAt = clock + negativeCacheTTL
      BY <2>2 DEF FindProviders, NotAsked
    <3>3. clock \in Nat /\ clock <= MaxClock
      BY DiscoveryValues DEF DiscoveryInv
    <3>4. cache'.expiresAt \in -1..(MaxClock + CacheTTL) /\ cache'.expiresAt <= clock + CacheTTL
      BY <3>2, <3>3
    <3>5. \A record \in Valid(asked) : record.expires \in Int /\ record.expires >= clock
      BY <3>1, RecordFields DEF Valid
    <3>6. CacheInv'
      BY <3>2, <3>3, <3>4, <3>5 DEF CacheInv
    <3> QED
      BY <3>1, <3>2, <3>4, <3>6
  <2>3. CASE Cleanup
    BY <2>3 DEF Cleanup, NoEntry, DiscoveryInv, DiscoveryTypeOK, CacheInv
  <2> QED
    BY <2>1, <2>2, <2>3
<1>3. DiscoveryTypeOK'
  BY <1>1, <1>2 DEF DiscoveryInv, DiscoveryTypeOK
<1>4. HoldersInv'
  BY <1>1, HoldersFrame DEF DiscoveryInv
<1>5. BucketInv'
  BY <1>1 DEF DiscoveryInv, BucketInv
<1> QED
  BY <1>2, <1>3, <1>4, <1>5 DEF DiscoveryInv

\* Every step of the three channels keeps the invariant.
LEMMA DiscoveryStep ==
  ASSUME DiscoveryInv, [DiscoveryNext]_discoveryVars
  PROVE  DiscoveryInv'
<1>1. CASE Tick
  BY <1>1, Ticks
<1>2. ASSUME NEW p \in Provider, NEW assigned \in BOOLEAN, Gain(p, assigned) \/ Lose(p) PROVE DiscoveryInv'
  BY <1>2, HeldOrLost
<1>3. ASSUME NEW p \in Provider, NEW dhtService \in BOOLEAN,
             AnnounceOnce(p, dhtService) \/ PublishAllShards(p)
      PROVE  DiscoveryInv'
  BY <1>3, Announces
<1>4. ASSUME NEW peer \in Peer, cleanupPeerRateLimiters(peer) PROVE DiscoveryInv'
  BY <1>4, Forgets
<1>5. ASSUME NEW peer \in Peer, NEW record \in sent, readLoop(record, peer) PROVE DiscoveryInv'
  BY <1>5, Gossips
<1>6. ASSUME NEW record \in sent, AcceptStorageProviderAnnouncement(record) PROVE DiscoveryInv'
  BY <1>6, Accepts
<1>7. CASE LookupViaValue \/ FindProviders \/ Cleanup
  BY <1>7, LooksUp
<1>8. CASE UNCHANGED discoveryVars
  BY <1>8 DEF discoveryVars, DiscoveryInv, DiscoveryTypeOK, HoldersInv, HeldBefore, Honest, Announced,
              BucketInv, CacheInv
<1>9. CASE GossipNext
  BY <1>1, <1>2, <1>3, <1>4, <1>5, <1>9 DEF GossipNext, HoldNext
<1>10. CASE RegistryNext
  BY <1>1, <1>2, <1>3, <1>6, <1>10 DEF RegistryNext, HoldNext
<1>11. CASE LookupNext
  BY <1>1, <1>2, <1>3, <1>7, <1>11 DEF LookupNext, HoldNext
<1> QED
  BY <1>8, <1>9, <1>10, <1>11 DEF DiscoveryNext

\* Nothing is announced and nothing cached at the start.
LEMMA DiscoveryStart == DiscoveryInit => DiscoveryInv
<1> SUFFICES ASSUME DiscoveryInit PROVE DiscoveryInv
  OBVIOUS
<1> USE DiscoveryNumbers
<1>1. DiscoveryTypeOK
  <2>1. bucket \in [Peer -> [tokens : 0..Burst, last : 0..MaxClock]]
    BY DEF DiscoveryInit
  <2>2. cache.records \subseteq Record /\ cache.expiresAt \in -1..(MaxClock + CacheTTL)
    BY DEF DiscoveryInit, NoEntry
  <2> QED
    BY <2>1, <2>2 DEF DiscoveryInit, DiscoveryTypeOK, NotAsked
<1>2. HoldersInv
  BY DEF DiscoveryInit, HoldersInv, HeldBefore, Announced
<1>3. BucketInv /\ CacheInv
  BY DEF DiscoveryInit, BucketInv, CacheInv, NoEntry
<1> QED
  BY <1>1, <1>2, <1>3 DEF DiscoveryInv

\* Who looks for the shard is told of nodes that held it within an announcement's lifetime,
\* the cache outlives a record by its own time to live at most, and a peer's gossip is
\* bounded (ProviderNetwork.storeProvider, AcceptStorageProviderAnnouncement, FindProviders
\* and Allow), also when the three channels are used at once.
THEOREM HoldersFound == DiscoverySpec => []DiscoveryFresh
<1>1. DiscoveryInv => DiscoveryFresh
  <2> SUFFICES ASSUME DiscoveryInv PROVE DiscoveryFresh
    OBVIOUS
  <2> USE DiscoveryNumbers
  <2>1. \A p \in Live(providers) \cup Live(registry) : lastHeld[p] >= 0 /\ clock - lastHeld[p] <= TTL
    <3> SUFFICES ASSUME NEW p \in Provider, NEW record \in sent, record.miner = p, record.has,
                        record.expires >= clock
                 PROVE  lastHeld[p] >= 0 /\ clock - lastHeld[p] <= TTL
      BY DEF Live, DiscoveryInv, HoldersInv, Announced, NoRecord
    <3>1. record \in Record
      BY DEF DiscoveryInv, DiscoveryTypeOK
    <3>2. record.expires \in Int
      BY <3>1, RecordFields
    <3>3. record.expires >= TTL /\ lastHeld[p] >= record.expires - TTL
      BY DEF DiscoveryInv, HoldersInv, Honest
    <3> QED
      BY <3>2, <3>3, DiscoveryValues DEF DiscoveryInv
  <2>2. \A p \in StorageProviders : p \in held \/ clock - lastHeld[p] <= TTL
    BY <2>1 DEF StorageProviders, DiscoveryInv, HoldersInv
  <2>3. FoundIsFresh
    <3> SUFFICES ASSUME NEW record \in cache.records, cache.expiresAt >= clock
                 PROVE  record.expires + CacheTTL >= clock
      BY DEF FoundIsFresh, Cached
    <3>1. record \in Record
      BY DEF DiscoveryInv, DiscoveryTypeOK
    <3>2. record.expires \in Int /\ record.expires + CacheTTL >= cache.expiresAt
      BY <3>1, RecordFields DEF DiscoveryInv, CacheInv
    <3> QED
      BY <3>2, DiscoveryValues DEF DiscoveryInv
  <2>4. GossipBounded
    <3> SUFFICES ASSUME NEW p \in Peer PROVE taken[p] <= Burst + clock
      BY DEF GossipBounded
    <3> QED
      BY DiscoveryValues DEF DiscoveryInv, BucketInv
  <2> QED
    BY <2>1, <2>2, <2>3, <2>4 DEF DiscoveryFresh, ListedHeldRecently, DiscoveryInv
<1>2. DiscoveryInv /\ [DiscoveryNext]_discoveryVars => DiscoveryInv'
  BY DiscoveryStep
<1> QED
  BY <1>1, <1>2, DiscoveryStart, PTL DEF DiscoverySpec

-----------------------------------------------------------------------------
(***************************************************************************)
(* The order of the providers                                              *)
(***************************************************************************)
\* What is assumed of the constants of a fetch.
LEMMA FetchNumbers ==
  /\ IsFiniteSet(Miner) /\ Miner \subseteq Nat /\ Primary \in Miner
  /\ providerFailureCooldown \in Nat \ {0} /\ providerFailureCooldownThresh \in Nat \ {0}
  /\ MaxTime \in Nat \ {0} /\ MaxFetches \in Nat
  /\ \A records \in Registrations :
       /\ records \subseteq FetchRecord
       /\ \A a, b \in records : a.miner = b.miner => a = b
  BY FetchAssumption DEF FetchRecord

\* Clauses that compare by numbers: by the lower one, by the lower one of two that cool down,
\* by the higher one of two that succeeded.
Lower(x, y, otherwise) == IF x # y THEN x < y ELSE otherwise
CoolFirst(g, h, x, y, otherwise) == First(~g, ~h, IF g /\ x # y THEN x < y ELSE otherwise)
LateFirst(g, h, x, y, otherwise) == First(g, h, IF g /\ x # y THEN x > y ELSE otherwise)

\* How three elements compare: xy tells whether the first goes before the second.
Compared(xy, yx, yz, xz) ==
  xy \in BOOLEAN /\ yx \in BOOLEAN /\ yz \in BOOLEAN /\ xz \in BOOLEAN /\ xy # yx /\ (xy /\ yz => xz)

\* A clause in front of a comparison that orders makes one that orders.
LEMMA FirstOrders ==
  ASSUME NEW x \in BOOLEAN, NEW y \in BOOLEAN, NEW z \in BOOLEAN,
         NEW xy, NEW yx, NEW yz, NEW xz, Compared(xy, yx, yz, xz)
  PROVE  Compared(First(x, y, xy), First(y, x, yx), First(y, z, yz), First(x, z, xz))
  BY Zenon DEF First, Compared

\* So does a clause by the lower number.
LEMMA LowerOrders ==
  ASSUME NEW x \in Int, NEW y \in Int, NEW z \in Int,
         NEW xy, NEW yx, NEW yz, NEW xz, Compared(xy, yx, yz, xz)
  PROVE  Compared(Lower(x, y, xy), Lower(y, x, yx), Lower(y, z, yz), Lower(x, z, xz))
  BY DEF Lower, Compared

\* So does the clause of the cooling ones, by the end of their cooldown.
LEMMA CoolOrders ==
  ASSUME NEW x \in Int, NEW y \in Int, NEW z \in Int,
         NEW f \in BOOLEAN, NEW g \in BOOLEAN, NEW h \in BOOLEAN,
         NEW xy, NEW yx, NEW yz, NEW xz, Compared(xy, yx, yz, xz)
  PROVE  Compared(CoolFirst(f, g, x, y, xy), CoolFirst(g, f, y, x, yx),
                  CoolFirst(g, h, y, z, yz), CoolFirst(f, h, x, z, xz))
  BY DEF CoolFirst, First, Compared

\* So does the clause of the successful ones, by their last success.
LEMMA LateOrders ==
  ASSUME NEW x \in Int, NEW y \in Int, NEW z \in Int,
         NEW f \in BOOLEAN, NEW g \in BOOLEAN, NEW h \in BOOLEAN,
         NEW xy, NEW yx, NEW yz, NEW xz, Compared(xy, yx, yz, xz)
  PROVE  Compared(LateFirst(f, g, x, y, xy), LateFirst(g, f, y, x, yx),
                  LateFirst(g, h, y, z, yz), LateFirst(f, h, x, z, xz))
  BY DEF LateFirst, First, Compared

MemoryType ==
  /\ now \in 1..MaxTime
  /\ memory \in [FetchRecord -> [outcome : {"none", "success", "failure"}, success : 0..MaxTime,
                                 failures : Nat, cooldown : 0..(MaxTime + providerFailureCooldown)]]

\* What the memory knows of a record.
LEMMA MemoryValues ==
  ASSUME MemoryType, NEW r \in FetchRecord
  PROVE  /\ memory[r].success \in Int /\ memory[r].failures \in Int /\ memory[r].cooldown \in Int
         /\ Cooling(r) \in BOOLEAN /\ Succeeded(r) \in BOOLEAN
         /\ r.miner \in Int /\ r.peer \in BOOLEAN /\ (r.miner \in Healthy) \in BOOLEAN
<1>1. memory[r] \in [outcome : {"none", "success", "failure"}, success : 0..MaxTime,
                     failures : Nat, cooldown : 0..(MaxTime + providerFailureCooldown)]
  BY DEF MemoryType
<1>2. r.miner \in Int /\ r.peer \in BOOLEAN
  <2>1. r.miner \in Miner
    BY DEF FetchRecord
  <2>2. r.peer \in BOOLEAN
    BY DEF FetchRecord
  <2>3. \A m \in Miner : m \in Int
    BY FetchNumbers
  <2>4. r.miner \in Int
    BY <2>1, <2>3
  <2> QED
    BY <2>2, <2>4
<1> QED
  BY <1>1, <1>2, FetchNumbers DEF Cooling, Succeeded, providerMemoryKey

\* The comparison of RankProvidersForBlockFetch, clause by clause.
LEMMA BeforeClauses ==
  ASSUME MemoryType, NEW a \in FetchRecord, NEW b \in FetchRecord
  PROVE  Before(a, b) =
           CoolFirst(Cooling(a), Cooling(b), memory[a].cooldown, memory[b].cooldown,
             LateFirst(Succeeded(a), Succeeded(b), memory[a].success, memory[b].success,
               Lower(memory[a].failures, memory[b].failures, BeforeUnknown(a, b))))
  BY DEF Before, CoolFirst, LateFirst, Lower, providerMemoryKey

\* It orders records of different miners.
LEMMA BeforeOrders ==
  ASSUME MemoryType, NEW a \in FetchRecord, NEW b \in FetchRecord, NEW c \in FetchRecord,
         a.miner # b.miner
  PROVE  Compared(Before(a, b), Before(b, a), Before(b, c), Before(a, c))
<1>1. Compared(a.miner < b.miner, b.miner < a.miner, b.miner < c.miner, a.miner < c.miner)
  BY MemoryValues DEF Compared
<1>2. Compared(First(a.peer, b.peer, a.miner < b.miner), First(b.peer, a.peer, b.miner < a.miner),
               First(b.peer, c.peer, b.miner < c.miner), First(a.peer, c.peer, a.miner < c.miner))
  BY <1>1, MemoryValues, FirstOrders
<1>3. Compared(BeforeUnknown(a, b), BeforeUnknown(b, a), BeforeUnknown(b, c), BeforeUnknown(a, c))
  <2> DEFINE ab == First(a.peer, b.peer, a.miner < b.miner)
             ba == First(b.peer, a.peer, b.miner < a.miner)
             bc == First(b.peer, c.peer, b.miner < c.miner)
             ac == First(a.peer, c.peer, a.miner < c.miner)
             x == a.miner \in Healthy
             y == b.miner \in Healthy
             z == c.miner \in Healthy
  <2>1. Compared(ab, ba, bc, ac) /\ x \in BOOLEAN /\ y \in BOOLEAN /\ z \in BOOLEAN
    BY <1>2
  <2>2. /\ BeforeUnknown(a, b) = First(x, y, ab) /\ BeforeUnknown(b, a) = First(y, x, ba)
        /\ BeforeUnknown(b, c) = First(y, z, bc) /\ BeforeUnknown(a, c) = First(x, z, ac)
    BY DEF BeforeUnknown
  <2> HIDE DEF ab, ba, bc, ac, x, y, z
  <2> QED
    BY <2>1, <2>2, FirstOrders
<1>4. Compared(Lower(memory[a].failures, memory[b].failures, BeforeUnknown(a, b)),
               Lower(memory[b].failures, memory[a].failures, BeforeUnknown(b, a)),
               Lower(memory[b].failures, memory[c].failures, BeforeUnknown(b, c)),
               Lower(memory[a].failures, memory[c].failures, BeforeUnknown(a, c)))
  BY <1>3, MemoryValues, LowerOrders
<1> DEFINE Few(x, y) == Lower(memory[x].failures, memory[y].failures, BeforeUnknown(x, y))
           Late(x, y) == LateFirst(Succeeded(x), Succeeded(y), memory[x].success, memory[y].success, Few(x, y))
<1>5. Compared(Few(a, b), Few(b, a), Few(b, c), Few(a, c))
  BY <1>4
<1> HIDE DEF Few
<1>6. Compared(Late(a, b), Late(b, a), Late(b, c), Late(a, c))
  BY <1>5, MemoryValues, LateOrders, ZenonT(40)
<1>7. \A x, y \in FetchRecord :
        Before(x, y) = CoolFirst(Cooling(x), Cooling(y), memory[x].cooldown, memory[y].cooldown, Late(x, y))
  BY BeforeClauses DEF Few
<1> HIDE DEF Late
<1> DEFINE Cool(x, y) ==
             CoolFirst(Cooling(x), Cooling(y), memory[x].cooldown, memory[y].cooldown, Late(x, y))
<1>8. Compared(Cool(a, b), Cool(b, a), Cool(b, c), Cool(a, c))
  BY <1>6, MemoryValues, CoolOrders, ZenonT(40)
<1>9. \A x, y \in FetchRecord : Before(x, y) = Cool(x, y)
  BY <1>7
<1> HIDE DEF Cool
<1> QED
  BY <1>8, <1>9

\* A list of attempts asks a miner by a transport.
Makes(attempts, m, t) == \E i \in 1..Len(attempts) : attempts[i][1].miner = m /\ attempts[i][2] = t

\* One record for each miner, as the chain and the DHT answer them.
Distinct(records) == records \subseteq FetchRecord /\ \A a, b \in records : a.miner = b.miner => a = b

\* There are no more of them than miners.
LEMMA DistinctFinite ==
  ASSUME NEW records, Distinct(records)
  PROVE  IsFiniteSet(records)
<1> DEFINE miner == [r \in records |-> r.miner]
<1>1. miner \in Injection(records, Miner)
  BY DEF Distinct, FetchRecord, Injection, IsInjective
<1> QED
  BY <1>1, FetchNumbers, FS_Injection

\* The ranking lists every record.
LEMMA Ranked ==
  ASSUME MemoryType, NEW records, Distinct(records)
  PROVE  /\ RankProvidersForBlockFetch(records) \in Seq(records)
         /\ \A r \in records : \E i \in 1..Len(RankProvidersForBlockFetch(records)) :
              RankProvidersForBlockFetch(records)[i] = r
<1> DEFINE before == {p \in records \X records : Before(p[1], p[2])}
<1>1. \A a, b \in records : <<a, b>> \in before <=> Before(a, b)
  OBVIOUS
<1>2. Orders(records, before)
  <2>1. \A a \in records : ~Before(a, a)
    <3> SUFFICES ASSUME NEW a \in records PROVE ~Before(a, a)
      OBVIOUS
    <3>1. a \in FetchRecord
      BY DEF Distinct
    <3>2. ~(a.miner < a.miner)
      BY <3>1, MemoryValues
    <3> QED
      BY <3>2 DEF Before, BeforeUnknown, First
  <2>2. \A a, b, c \in records : a # b =>
          (Before(a, b) <=> ~Before(b, a)) /\ (Before(a, b) /\ Before(b, c) => Before(a, c))
    <3> SUFFICES ASSUME NEW a \in records, NEW b \in records, NEW c \in records, a # b
                 PROVE  (Before(a, b) <=> ~Before(b, a)) /\ (Before(a, b) /\ Before(b, c) => Before(a, c))
      OBVIOUS
    <3>1. a \in FetchRecord /\ b \in FetchRecord /\ c \in FetchRecord /\ a.miner # b.miner
      BY DEF Distinct
    <3> QED
      BY <3>1, BeforeOrders DEF Compared
  <2> HIDE DEF before
  <2> QED
    BY <1>1, <2>1, <2>2 DEF Orders
<1>3. RankProvidersForBlockFetch(records) = Ordered(records, before)
  BY DEF RankProvidersForBlockFetch
<1> HIDE DEF before
<1> QED
  BY <1>2, <1>3, DistinctFinite, OrderedLists

\* The clauses of RouteBefore, the last two together.
LEMMA PairOrders ==
  ASSUME NEW x \in Int, NEW y \in Int, NEW z \in Int, NEW i \in Int, NEW j \in Int, NEW k \in Int,
         x # y \/ i # j
  PROVE  Compared(Lower(x, y, i < j), Lower(y, x, j < i), Lower(y, z, j < k), Lower(x, z, i < k))
<1>1. CASE i # j
  <2>1. Compared(i < j, j < i, j < k, i < k)
    BY <1>1 DEF Compared
  <2> QED
    BY <2>1, LowerOrders
<1>2. CASE i = j /\ x # y
  <2>1. Lower(x, y, i < j) = (x < y) /\ Lower(y, x, j < i) = (y < x)
    BY <1>2 DEF Lower
  <2>2. Lower(y, z, j < k) \in BOOLEAN /\ Lower(x, z, i < k) \in BOOLEAN
    <3>1. (j < k) \in BOOLEAN /\ (i < k) \in BOOLEAN /\ (y < z) \in BOOLEAN /\ (x < z) \in BOOLEAN
      OBVIOUS
    <3> QED
      BY <3>1, Zenon DEF Lower
  <2>3. x < y /\ Lower(y, z, j < k) => Lower(x, z, i < k)
    BY <1>2 DEF Lower
  <2>4. (x < y) # (y < x) /\ (x < y) \in BOOLEAN /\ (y < x) \in BOOLEAN
    BY <1>2
  <2> QED
    BY <2>1, <2>2, <2>3, <2>4, Zenon DEF Compared
<1> QED
  BY <1>1, <1>2

\* RouteBefore orders the routes of different miners or transports.
LEMMA RouteOrders ==
  ASSUME NEW a \in FetchRecord \X Transport, NEW b \in FetchRecord \X Transport,
         NEW c \in FetchRecord \X Transport, a[1].miner # b[1].miner \/ a[2] # b[2]
  PROVE  Compared(RouteBefore(a, b), RouteBefore(b, a), RouteBefore(b, c), RouteBefore(a, c))
<1> DEFINE last(u, v) == Lower(Priority(u[2]), Priority(v[2]), u[1].miner < v[1].miner)
           peers(u, v) == First(u[1].peer, v[1].peer, last(u, v))
           well(u) == u[1].miner \in Healthy
<1>1. /\ \A t \in Transport : Priority(t) \in Int
      /\ \A t, u \in Transport : t # u <=> Priority(t) # Priority(u)
  <2>1. Priority("libp2p") = 0 /\ Priority("http-block") = 1 /\ Priority("http-shard") = 2
    BY DEF Priority
  <2> QED
    BY <2>1 DEF Transport
<1>2. \A u \in FetchRecord \X Transport :
        u[2] \in Transport /\ u[1].miner \in Int /\ u[1].peer \in BOOLEAN /\ well(u) \in BOOLEAN
  <2>1. \A m \in Miner : m \in Int
    BY FetchNumbers
  <2> QED
    BY <2>1 DEF FetchRecord
<1>3. \A u, v \in FetchRecord \X Transport : RouteBefore(u, v) = First(well(u), well(v), peers(u, v))
  BY <1>1, <1>2 DEF RouteBefore, Lower
<1>4. Compared(last(a, b), last(b, a), last(b, c), last(a, c))
  <2>1. Priority(a[2]) # Priority(b[2]) \/ a[1].miner # b[1].miner
    BY <1>1, <1>2
  <2>2. /\ Priority(a[2]) \in Int /\ Priority(b[2]) \in Int /\ Priority(c[2]) \in Int
        /\ a[1].miner \in Int /\ b[1].miner \in Int /\ c[1].miner \in Int
    BY <1>1, <1>2
  <2> QED
    BY <2>1, <2>2, PairOrders
<1> HIDE DEF last
<1>5. Compared(peers(a, b), peers(b, a), peers(b, c), peers(a, c))
  BY <1>2, <1>4, FirstOrders
<1> HIDE DEF peers, well
<1>6. Compared(First(well(a), well(b), peers(a, b)), First(well(b), well(a), peers(b, a)),
               First(well(b), well(c), peers(b, c)), First(well(a), well(c), peers(a, c)))
  BY <1>2, <1>5, FirstOrders
<1> QED
  BY <1>3, <1>6

\* The routes of the chain list every transport of every record.
LEMMA RoutesListed ==
  ASSUME NEW records, Distinct(records)
  PROVE  /\ StorageRoutes(records) \in Seq(FetchRecord \X Transport)
         /\ \A r \in records, t \in Transport : (t = "libp2p" => r.peer) =>
              Makes(StorageRoutes(records), r.miner, t)
<1> DEFINE routes == {r \in records \X Transport : r[2] = "libp2p" => r[1].peer}
           before == {p \in routes \X routes : RouteBefore(p[1], p[2])}
<1>1. \A a, b \in routes : <<a, b>> \in before <=> RouteBefore(a, b)
  OBVIOUS
<1>2. routes \subseteq FetchRecord \X Transport
  BY DEF Distinct
<1>3. \A a, b \in routes : a # b => a[1].miner # b[1].miner \/ a[2] # b[2]
  BY DEF Distinct
<1>4. IsFiniteSet(routes)
  <2>1. IsFiniteSet(Transport)
    <3>1. IsFiniteSet({"libp2p"})
      BY FS_Singleton
    <3>2. IsFiniteSet({"libp2p"} \cup {"http-block"})
      BY <3>1, FS_AddElement
    <3>3. IsFiniteSet(({"libp2p"} \cup {"http-block"}) \cup {"http-shard"})
      BY <3>2, FS_AddElement
    <3>4. ({"libp2p"} \cup {"http-block"}) \cup {"http-shard"} = Transport
      BY DEF Transport
    <3> QED
      BY <3>3, <3>4
  <2>2. IsFiniteSet(records \X Transport)
    BY <2>1, DistinctFinite, FS_Product
  <2> QED
    BY <2>2, FS_Subset
<1> HIDE DEF routes
<1>5. Orders(routes, before)
  <2>1. \A a \in routes : ~RouteBefore(a, a)
    <3> SUFFICES ASSUME NEW a \in routes PROVE ~RouteBefore(a, a)
      OBVIOUS
    <3>1. a[1] \in FetchRecord
      BY <1>2
    <3>2. a[1].miner \in Int
      <4>1. a[1].miner \in Miner
        BY <3>1 DEF FetchRecord
      <4>2. \A m \in Miner : m \in Int
        BY FetchNumbers
      <4> QED
        BY <4>1, <4>2
    <3>3. ~(a[1].miner < a[1].miner)
      BY <3>2
    <3> QED
      BY <3>3 DEF RouteBefore, First
  <2>2. \A a, b, c \in routes : a # b =>
          /\ RouteBefore(a, b) <=> ~RouteBefore(b, a)
          /\ RouteBefore(a, b) /\ RouteBefore(b, c) => RouteBefore(a, c)
    BY <1>2, <1>3, RouteOrders DEF Compared
  <2> HIDE DEF before
  <2> QED
    BY <1>1, <2>1, <2>2 DEF Orders
<1>6. StorageRoutes(records) = Ordered(routes, before)
  BY DEF StorageRoutes, routes
<1> HIDE DEF before
<1>7. /\ StorageRoutes(records) \in Seq(routes)
      /\ \A r \in routes : \E i \in 1..Len(StorageRoutes(records)) : StorageRoutes(records)[i] = r
  BY <1>4, <1>5, <1>6, OrderedLists
<1>8. StorageRoutes(records) \in Seq(FetchRecord \X Transport)
  BY <1>2, <1>7
<1>9. \A r \in records, t \in Transport : (t = "libp2p" => r.peer) => <<r, t>> \in routes
  BY DEF routes
<1>10. ASSUME NEW r \in records, NEW t \in Transport, t = "libp2p" => r.peer
       PROVE  Makes(StorageRoutes(records), r.miner, t)
  <2>1. PICK i \in 1..Len(StorageRoutes(records)) : StorageRoutes(records)[i] = <<r, t>>
    BY <1>7, <1>9, <1>10
  <2>2. <<r, t>>[1].miner = r.miner /\ <<r, t>>[2] = t
    BY Pairs
  <2> QED
    BY <2>1, <2>2 DEF Makes
<1> QED
  BY <1>8, <1>10

\* The libp2p attempts list every record with a peer.
LEMMA P2PListed ==
  ASSUME MemoryType, NEW records, Distinct(records)
  PROVE  /\ P2PAttempts(records) \in Seq(FetchRecord \X Transport)
         /\ \A r \in records : r.peer => Makes(P2PAttempts(records), r.miner, "libp2p")
<1> DEFINE peers == {r \in records : r.peer}
           ranked == RankProvidersForBlockFetch(peers)
<1>1. Distinct(peers) /\ peers \subseteq FetchRecord
  BY DEF Distinct
<1>2. ranked \in Seq(peers) /\ \A r \in peers : \E i \in 1..Len(ranked) : ranked[i] = r
  BY <1>1, Ranked
<1>3. P2PAttempts(records) = [i \in 1..Len(ranked) |-> <<ranked[i], "libp2p">>]
  BY DEF P2PAttempts
<1>4. \A r \in records : r.peer => r \in peers
  OBVIOUS
<1> HIDE DEF peers, ranked
<1>5. Len(ranked) \in Nat /\ \A i \in 1..Len(ranked) : ranked[i] \in FetchRecord
  BY <1>1, <1>2
<1>6. P2PAttempts(records) \in [1..Len(ranked) -> FetchRecord \X Transport]
  BY <1>3, <1>5 DEF Transport
<1>7. P2PAttempts(records) \in Seq(FetchRecord \X Transport) /\ Len(P2PAttempts(records)) = Len(ranked)
  BY <1>5, <1>6
<1>8. \A i \in 1..Len(ranked) : P2PAttempts(records)[i] = <<ranked[i], "libp2p">>
  BY <1>3
<1>9. ASSUME NEW r \in records, r.peer
      PROVE  Makes(P2PAttempts(records), r.miner, "libp2p")
  <2>1. PICK i \in 1..Len(ranked) : ranked[i] = r
    BY <1>2, <1>4, <1>9
  <2>2. <<r, "libp2p">>[1].miner = r.miner /\ <<r, "libp2p">>[2] = "libp2p"
    BY Pairs
  <2> QED
    BY <1>7, <1>8, <2>1, <2>2 DEF Makes
<1> QED
  BY <1>7, <1>9

\* The HTTP attempts list the endpoint of the receipt and every record, twice each.
LEMMA HTTPListed ==
  ASSUME MemoryType, NEW records, Distinct(records)
  PROVE  /\ HTTPAttempts(records) \in Seq(FetchRecord \X Transport)
         /\ \A t \in {"http-block", "http-shard"} :
              /\ Makes(HTTPAttempts(records), Primary, t)
              /\ \A r \in records : Makes(HTTPAttempts(records), r.miner, t)
<1> DEFINE others == {r \in records : r.miner # Primary}
           ranked == RankProvidersForBlockFetch(others)
           first == ResolveProviderRecordForEndpoint(Primary, records)
           endpoints == <<first>> \o ranked
           attempts == [i \in 1..(2 * Len(endpoints)) |->
                          <<endpoints[(i + 1) \div 2], IF i % 2 = 1 THEN "http-block" ELSE "http-shard">>]
<1>1. Distinct(others) /\ others \subseteq FetchRecord
  BY DEF Distinct
<1>2. ranked \in Seq(others) /\ \A r \in others : \E i \in 1..Len(ranked) : ranked[i] = r
  BY <1>1, Ranked
<1>3. first \in FetchRecord /\ first.miner = Primary
  BY FetchNumbers DEF ResolveProviderRecordForEndpoint, Distinct, FetchRecord
<1>4. HTTPAttempts(records) = attempts
  BY DEF HTTPAttempts, PreferredProviderEndpoints
<1>5. \A r \in records : r.miner # Primary => r \in others
  OBVIOUS
<1> HIDE DEF others, ranked, first
<1>6. /\ endpoints \in Seq(FetchRecord) /\ Len(endpoints) \in Nat /\ Len(endpoints) >= 1
      /\ endpoints[1] = first
      /\ \A r \in others : \E k \in 1..Len(endpoints) : endpoints[k] = r
  <2>1. ranked \in Seq(FetchRecord)
    BY <1>1, <1>2
  <2>2. endpoints \in Seq(FetchRecord) /\ Len(endpoints) = Len(ranked) + 1
    BY <1>3, <2>1
  <2>3. \A i \in 1..Len(ranked) : endpoints[i + 1] = ranked[i] /\ i + 1 \in 1..Len(endpoints)
    BY <1>3, <2>1, <2>2
  <2>4. endpoints[1] = first
    BY <1>3, <2>1, <2>2
  <2>5. \A r \in others : \E k \in 1..Len(endpoints) : endpoints[k] = r
    BY <1>2, <2>3
  <2> QED
    BY <2>1, <2>2, <2>4, <2>5
\* Every miner asked for has an endpoint in the list.
<1>7. /\ \E k \in 1..Len(endpoints) : endpoints[k].miner = Primary
      /\ \A r \in records : \E k \in 1..Len(endpoints) : endpoints[k].miner = r.miner
  <2>1. 1 \in 1..Len(endpoints) /\ endpoints[1].miner = Primary
    BY <1>3, <1>6
  <2>2. ASSUME NEW r \in records, r.miner # Primary
        PROVE  \E k \in 1..Len(endpoints) : endpoints[k].miner = r.miner
    <3>1. PICK k \in 1..Len(endpoints) : endpoints[k] = r
      BY <1>5, <1>6, <2>2
    <3> QED
      BY <3>1
  <2> HIDE DEF endpoints
  <2> QED
    BY <2>1, <2>2
<1> HIDE DEF endpoints
<1>8. \A i \in 1..(2 * Len(endpoints)) : (i + 1) \div 2 \in 1..Len(endpoints)
  BY <1>6
<1>9. attempts \in [1..(2 * Len(endpoints)) -> FetchRecord \X Transport]
  BY <1>6, <1>8 DEF Transport
<1>10. attempts \in Seq(FetchRecord \X Transport) /\ Len(attempts) = 2 * Len(endpoints)
  <2>1. 2 * Len(endpoints) \in Nat
    BY <1>6
  <2> HIDE DEF attempts
  <2> QED
    BY <1>9, <2>1
<1>11. \A k \in 1..Len(endpoints) :
         /\ 2 * k - 1 \in 1..(2 * Len(endpoints)) /\ attempts[2 * k - 1] = <<endpoints[k], "http-block">>
         /\ 2 * k \in 1..(2 * Len(endpoints)) /\ attempts[2 * k] = <<endpoints[k], "http-shard">>
  <2> SUFFICES ASSUME NEW k \in 1..Len(endpoints)
               PROVE  /\ 2 * k - 1 \in 1..(2 * Len(endpoints))
                      /\ attempts[2 * k - 1] = <<endpoints[k], "http-block">>
                      /\ 2 * k \in 1..(2 * Len(endpoints))
                      /\ attempts[2 * k] = <<endpoints[k], "http-shard">>
    OBVIOUS
  <2>1. /\ 2 * k - 1 \in 1..(2 * Len(endpoints)) /\ 2 * k \in 1..(2 * Len(endpoints))
        /\ ((2 * k - 1) + 1) \div 2 = k /\ (2 * k - 1) % 2 = 1
        /\ (2 * k + 1) \div 2 = k /\ (2 * k) % 2 = 0
    BY <1>6
  <2> QED
    BY <2>1
<1> HIDE DEF attempts
<1>12. \A k \in 1..Len(endpoints), t \in {"http-block", "http-shard"} :
         Makes(attempts, endpoints[k].miner, t)
  <2> SUFFICES ASSUME NEW k \in 1..Len(endpoints), NEW t \in {"http-block", "http-shard"}
               PROVE  Makes(attempts, endpoints[k].miner, t)
    OBVIOUS
  <2>1. PICK i \in 1..Len(attempts) : attempts[i] = <<endpoints[k], t>>
    BY <1>10, <1>11
  <2>2. <<endpoints[k], t>>[1].miner = endpoints[k].miner /\ <<endpoints[k], t>>[2] = t
    BY Pairs
  <2> QED
    BY <2>1, <2>2 DEF Makes
<1> QED
  BY <1>4, <1>7, <1>10, <1>12

-----------------------------------------------------------------------------
(***************************************************************************)
(* The fetch of a repair source                                            *)
(***************************************************************************)
\* The attempts that are left of the phase, as they will count when they have been made.
Pending == {<<queue[i][1].miner, queue[i][2]>> : i \in 1..Len(queue)}

Owed(r, t) == (t = "libp2p" => r.peer) => <<r.miner, t>> \in tried \cup Pending

FetchType ==
  /\ MemoryType
  /\ phase \in Phase
  /\ registered \in Registrations
  /\ Distinct(answer) /\ answer \subseteq learned /\ learned \subseteq FetchRecord
  /\ queue \in Seq(FetchRecord \X Transport)
  /\ phase \in Ended => queue = <<>>
  /\ tried \subseteq Miner \X Transport
  /\ fetches \in 0..MaxFetches

\* A cooldown stands for as many failures as the threshold since the last success.
FailuresInv ==
  /\ recent \in [FetchRecord -> Seq(BOOLEAN)]
  /\ \A key \in FetchRecord :
       /\ memory[key].cooldown > 0 => memory[key].failures >= providerFailureCooldownThresh
       /\ Len(recent[key]) <= providerFailureCooldownThresh
       /\ \A j \in 1..providerFailureCooldownThresh :
            j <= memory[key].failures => j <= Len(recent[key]) /\ recent[key][j] = FALSE

\* What each phase has asked of a record, or will before it ends.
Offered == IF phase \in {"dht p2p", "chain p2p"} THEN {"libp2p"} ELSE Transport

TriedInv ==
  /\ phase = "routes" => learned = answer
  /\ phase \notin Ended =>
       /\ \A r \in learned \ answer, t \in Transport : Owed(r, t)
       /\ \A r \in answer, t \in Offered : Owed(r, t)
  /\ phase = "chain http" =>
       \A t \in {"http-block", "http-shard"} : <<Primary, t>> \in tried \cup Pending
  /\ phase = "failed" =>
       /\ \A r \in learned, t \in Transport : (t = "libp2p" => r.peer) => <<r.miner, t>> \in tried
       /\ \A t \in {"http-block", "http-shard"} : <<Primary, t>> \in tried

FetchInv == FetchType /\ FailuresInv /\ TriedInv

\* An answer of the chain or the DHT has one record for each miner.
LEMMA Answers ==
  ASSUME FetchType
  PROVE  /\ \A records \in ChainAnswers : Distinct(records)
         /\ \A records \in DHTAnswers : Distinct(records)
<1>1. Distinct({}) /\ Distinct(registered)
  BY FetchNumbers DEF FetchType, Distinct
<1>2. \A r \in FetchRecord : Distinct({r})
  BY DEF Distinct
<1> QED
  BY <1>1, <1>2 DEF ChainAnswers, DHTAnswers

\* What a queue of attempts will have tried.
LEMMA EmptyQueue == queue = <<>> => Pending = {}
  BY DEF Pending

\* An empty queue is a queue.
LEMMA NoAttempts == <<>> \in Seq(FetchRecord \X Transport)
  OBVIOUS

\* A phase is entered: nothing moves but the attempts.
LEMMA Entered ==
  ASSUME FetchType, NEW next \in Phase, NEW records, Distinct(records),
         NEW attempts \in Seq(FetchRecord \X Transport), next \in Ended => attempts = <<>>,
         Enter(next, records, attempts),
         records \subseteq learned', learned' \subseteq FetchRecord,
         tried' \subseteq Miner \X Transport, fetches' \in 0..MaxFetches
  PROVE  FetchType'
  BY DEF Enter, FetchType, MemoryType

\* A step that leaves the memory alone keeps what it stands for.
LEMMA EnteredFailures ==
  ASSUME FailuresInv, UNCHANGED <<memory, recent>>
  PROVE  FailuresInv'
  BY DEF FailuresInv

\* When the queue is empty, what was owed was tried, and stays so.
LEMMA OwedStays ==
  ASSUME queue = <<>>, tried' = tried, NEW r, NEW t, Owed(r, t)
  PROVE  Owed(r, t)'
  BY EmptyQueue DEF Owed

\* An attempt that is queued will be made.
LEMMA QueuedIsPending ==
  ASSUME NEW m, NEW t, Makes(queue, m, t)'
  PROVE  <<m, t>> \in Pending'
  BY DEF Pending, Makes

\* A fetch begins with the routes of the chain.
LEMMA FetchBegins ==
  ASSUME FetchInv, Begin
  PROVE  FetchInv'
<1> PICK records \in ChainAnswers :
      Enter("routes", records, StorageRoutes(records)) /\ learned' = records
  BY DEF Begin
<1>1. Distinct(records) /\ records \subseteq FetchRecord
  BY Answers DEF FetchInv, Distinct
<1>2. /\ StorageRoutes(records) \in Seq(FetchRecord \X Transport)
      /\ \A r \in records, t \in Transport : (t = "libp2p" => r.peer) =>
           Makes(StorageRoutes(records), r.miner, t)
  BY <1>1, RoutesListed
<1>3. phase' = "routes" /\ answer' = records /\ queue' = StorageRoutes(records) /\ tried' = {}
  BY DEF Enter, Begin
<1>4. FetchType'
  <2>1. fetches' \in 0..MaxFetches
    BY FetchNumbers DEF Begin, FetchInv, FetchType
  <2> QED
    BY <1>1, <1>2, <1>3, <2>1, Entered DEF FetchInv, Phase, Ended
<1>5. FailuresInv'
  BY EnteredFailures DEF Enter, FetchInv
<1>6. \A r \in records, t \in Transport : Owed(r, t)'
  <2> SUFFICES ASSUME NEW r \in records, NEW t \in Transport, t = "libp2p" => r.peer
               PROVE  <<r.miner, t>> \in Pending'
    BY DEF Owed
  <2>1. Makes(queue', r.miner, t)
    BY <1>2, <1>3
  <2> QED
    BY <2>1, QueuedIsPending
<1>7. TriedInv'
  BY <1>3, <1>6 DEF TriedInv, Offered, Ended
<1> QED
  BY <1>4, <1>5, <1>7 DEF FetchInv

\* Phase 2 or 3 begins with the answer of the DHT or of the chain.
LEMMA FetchAsks ==
  ASSUME FetchInv, FetchShardViaDHT \/ ChainProviders
  PROVE  FetchInv'
<1>1. PICK next \in {"dht p2p", "chain p2p"}, records \in SUBSET FetchRecord :
        /\ phase \in {"routes", "dht http"} /\ queue = <<>>
        /\ Distinct(records)
        /\ Enter(next, records, P2PAttempts(records))
        /\ learned' = learned \cup records /\ UNCHANGED <<tried, fetches>>
  <2>1. CASE FetchShardViaDHT
    <3>1. PICK records \in DHTAnswers :
            /\ Enter("dht p2p", records, P2PAttempts(records))
            /\ learned' = learned \cup records
      BY <2>1 DEF FetchShardViaDHT
    <3>2. Distinct(records) /\ records \in SUBSET FetchRecord
      BY Answers DEF FetchInv, Distinct
    <3> QED
      BY <2>1, <3>1, <3>2 DEF FetchShardViaDHT
  <2>2. CASE ChainProviders
    <3>1. PICK records \in ChainAnswers :
            /\ Enter("chain p2p", records, P2PAttempts(records))
            /\ learned' = learned \cup records
      BY <2>2 DEF ChainProviders
    <3>2. Distinct(records) /\ records \in SUBSET FetchRecord
      BY Answers DEF FetchInv, Distinct
    <3> QED
      BY <2>2, <3>1, <3>2 DEF ChainProviders
  <2> QED
    BY <2>1, <2>2
<1>2. phase' = next /\ answer' = records /\ queue' = P2PAttempts(records)
  BY <1>1 DEF Enter
<1>3. /\ P2PAttempts(records) \in Seq(FetchRecord \X Transport)
      /\ \A r \in records : r.peer => Makes(P2PAttempts(records), r.miner, "libp2p")
  BY <1>1, P2PListed DEF FetchInv, FetchType
<1>4. FetchType'
  BY <1>1, <1>3, Entered DEF FetchInv, FetchType, Phase, Ended, Distinct
<1>5. FailuresInv'
  BY <1>1, EnteredFailures DEF Enter, FetchInv
<1>6. \A r \in learned, t \in Transport : Owed(r, t)
  <2>1. phase \notin Ended /\ Offered = Transport
    BY <1>1 DEF Ended, Offered
  <2> QED
    BY <2>1 DEF FetchInv, TriedInv
<1>7. \A r \in learned, t \in Transport : Owed(r, t)'
  BY <1>1, <1>6, OwedStays
<1>8. \A r \in records : Owed(r, "libp2p")'
  <2> SUFFICES ASSUME NEW r \in records, r.peer PROVE <<r.miner, "libp2p">> \in Pending'
    BY DEF Owed
  <2>1. Makes(queue', r.miner, "libp2p")
    BY <1>2, <1>3
  <2> QED
    BY <2>1, QueuedIsPending
<1>9. Offered' = {"libp2p"} /\ learned' \ answer' \subseteq learned
  BY <1>1, <1>2 DEF Offered
<1>10. TriedInv'
  BY <1>1, <1>2, <1>7, <1>8, <1>9 DEF TriedInv
<1> QED
  BY <1>4, <1>5, <1>10 DEF FetchInv

\* The second half of a phase, over HTTP.
LEMMA FetchHTTP ==
  ASSUME FetchInv, FetchShardViaDHT_http \/ ChainProviders_http
  PROVE  FetchInv'
<1>1. PICK next \in {"dht http", "chain http"}, attempts \in {HTTPAttempts(answer), <<>>} :
        /\ phase \in {"dht p2p", "chain p2p"} /\ queue = <<>>
        /\ Enter(next, answer, attempts) /\ UNCHANGED <<learned, tried, fetches>>
        /\ \/ attempts = HTTPAttempts(answer)
           \/ next = "dht http" /\ attempts = <<>> /\ answer = {}
  BY DEF FetchShardViaDHT_http, ChainProviders_http
<1>2. phase' = next /\ answer' = answer /\ queue' = attempts /\ learned' = learned /\ tried' = tried
  BY <1>1 DEF Enter
<1>3. Distinct(answer)
  BY DEF FetchInv, FetchType
<1>4. /\ HTTPAttempts(answer) \in Seq(FetchRecord \X Transport)
      /\ \A t \in {"http-block", "http-shard"} :
           /\ Makes(HTTPAttempts(answer), Primary, t)
           /\ \A r \in answer : Makes(HTTPAttempts(answer), r.miner, t)
  BY <1>3, HTTPListed DEF FetchInv, FetchType
<1>5. FetchType'
  <2>1. attempts \in Seq(FetchRecord \X Transport)
    BY <1>1, <1>4, NoAttempts
  <2> QED
    BY <1>1, <1>3, <2>1, Entered DEF FetchInv, FetchType, Phase, Ended
<1>6. FailuresInv'
  BY <1>1, EnteredFailures DEF Enter, FetchInv
<1>7. /\ \A r \in learned \ answer, t \in Transport : Owed(r, t)'
      /\ \A r \in answer : Owed(r, "libp2p")'
  <2>1. phase \notin Ended /\ Offered = {"libp2p"}
    BY <1>1 DEF Ended, Offered
  <2>2. /\ \A r \in learned \ answer, t \in Transport : Owed(r, t)
        /\ \A r \in answer : Owed(r, "libp2p")
    BY <2>1 DEF FetchInv, TriedInv
  <2> QED
    BY <1>1, <2>2, OwedStays
<1>8. ASSUME attempts = HTTPAttempts(answer), NEW t \in {"http-block", "http-shard"}
      PROVE  <<Primary, t>> \in Pending' /\ \A r \in answer : <<r.miner, t>> \in Pending'
  <2>1. Makes(queue', Primary, t) /\ \A r \in answer : Makes(queue', r.miner, t)
    BY <1>2, <1>4, <1>8
  <2> QED
    BY <2>1, QueuedIsPending
<1>9. \A r \in answer, t \in Transport : Owed(r, t)'
  BY <1>1, <1>7, <1>8 DEF Owed, Transport
<1>10. next = "chain http" => \A t \in {"http-block", "http-shard"} : <<Primary, t>> \in tried' \cup Pending'
  BY <1>1, <1>8
<1>11. Offered' = Transport
  BY <1>1, <1>2 DEF Offered
<1>12. TriedInv'
  BY <1>1, <1>2, <1>7, <1>9, <1>10, <1>11 DEF TriedInv
<1> QED
  BY <1>5, <1>6, <1>12 DEF FetchInv

\* A fetch ends when nothing is left to try.
LEMMA FetchGivesUp ==
  ASSUME FetchInv, FetchFails
  PROVE  FetchInv'
<1>1. /\ phase = "chain http" /\ queue = <<>> /\ phase' = "failed" /\ queue' = <<>> /\ answer' = {}
      /\ UNCHANGED <<learned, tried, fetches, memory, recent>>
  BY DEF FetchFails, Enter
<1>2. FetchType' /\ FailuresInv'
  <2>1. Distinct({}) /\ <<>> \in Seq(FetchRecord \X Transport)
    BY NoAttempts DEF Distinct
  <2>2. Enter("failed", {}, <<>>) /\ "failed" \in Phase
    BY DEF FetchFails, Phase, Ended
  <2>3. FetchType
    BY DEF FetchInv
  <2>4. /\ {} \subseteq learned' /\ learned' \subseteq FetchRecord /\ tried' \subseteq Miner \X Transport
        /\ fetches' \in 0..MaxFetches
    BY <1>1, <2>3 DEF FetchType
  <2>5. FetchType'
    BY <1>1, <2>1, <2>2, <2>3, <2>4 DEF FetchType, MemoryType, Enter
  <2> QED
    BY <1>1, <2>5, EnteredFailures DEF FetchInv
<1>3. Pending = {} /\ phase \notin Ended /\ Offered = Transport
  BY <1>1, EmptyQueue DEF Ended, Offered
<1>4. /\ \A r \in learned, t \in Transport : Owed(r, t)
      /\ \A t \in {"http-block", "http-shard"} : <<Primary, t>> \in tried
  BY <1>1, <1>3 DEF FetchInv, TriedInv
<1>5. TriedInv'
  BY <1>1, <1>3, <1>4 DEF TriedInv, Owed, Ended
<1> QED
  BY <1>2, <1>5 DEF FetchInv

\* The last outcomes, with one more in front.
Push(x, old, T) == IF Len(old) < T THEN <<x>> \o old ELSE SubSeq(<<x>> \o old, 1, T)

\* The list stays as short as the threshold, the new outcome first.
LEMMA Pushed ==
  ASSUME NEW T \in Nat \ {0}, NEW old \in Seq(BOOLEAN), Len(old) <= T, NEW x \in BOOLEAN
  PROVE  /\ Push(x, old, T) \in Seq(BOOLEAN) /\ Len(Push(x, old, T)) <= T /\ Len(Push(x, old, T)) >= 1
         /\ Push(x, old, T)[1] = x
         /\ \A j \in 1..Len(old) : j < T => j + 1 <= Len(Push(x, old, T)) /\ Push(x, old, T)[j + 1] = old[j]
<1> DEFINE all == <<x>> \o old
           new == Push(x, old, T)
<1> USE DEF Push
<1>1. /\ all \in Seq(BOOLEAN) /\ Len(all) = Len(old) + 1 /\ all[1] = x /\ Len(old) \in Nat
      /\ \A j \in 1..Len(old) : all[j + 1] = old[j]
  OBVIOUS
<1>2. CASE Len(old) < T
  BY <1>1, <1>2
<1>3. CASE ~(Len(old) < T)
  <2>1. new = SubSeq(all, 1, T) /\ Len(all) = T + 1
    BY <1>1, <1>3
  <2> HIDE DEF all
  <2>2. /\ SubSeq(all, 1, T) \in Seq(BOOLEAN) /\ Len(SubSeq(all, 1, T)) = T
        /\ \A j \in 1..T : SubSeq(all, 1, T)[j] = all[j]
    BY <1>1, <2>1
  <2>3. 1 \in 1..T /\ \A j \in 1..Len(old) : j < T => j + 1 \in 1..T
    OBVIOUS
  <2>4. new[1] = x /\ \A j \in 1..Len(old) : j < T => new[j + 1] = old[j]
    BY <1>1, <2>1, <2>2, <2>3
  <2>5. new \in Seq(BOOLEAN) /\ Len(new) = T
    BY <2>1, <2>2
  <2> QED
    BY <2>4, <2>5
<1> QED
  BY <1>2, <1>3

\* What an attempt does with the row of its key.
LEMMA AttemptRows ==
  ASSUME FetchInv, NEW success \in BOOLEAN, Attempt(success)
  PROVE  \E key \in FetchRecord, t \in Transport :
           /\ queue # <<>> /\ Head(queue) = <<key, t>> /\ phase \notin Ended
           /\ \A other \in FetchRecord \ {key} :
                memory'[other] = memory[other] /\ recent'[other] = recent[other]
           /\ memory'[key] = IF success THEN RememberProviderFetchSuccess(memory[key])
                             ELSE RememberProviderFetchFailure(memory[key])
           /\ memory' = [memory EXCEPT ![key] = memory'[key]]
           /\ recent' = [recent EXCEPT ![key] = recent'[key]]
           /\ recent'[key] = IF Len(recent[key]) < providerFailureCooldownThresh THEN <<success>> \o recent[key]
                             ELSE SubSeq(<<success>> \o recent[key], 1, providerFailureCooldownThresh)
           /\ tried' = tried \cup {<<key.miner, t>>}
<1> DEFINE key == Head(queue)[1]
           t == Head(queue)[2]
<1>1. queue # <<>> /\ queue \in Seq(FetchRecord \X Transport) /\ phase \notin Ended
  BY DEF Attempt, FetchInv, FetchType
<1>2. Head(queue) \in FetchRecord \X Transport
  BY <1>1
<1>3. key \in FetchRecord /\ t \in Transport /\ Head(queue) = <<key, t>>
  BY <1>2
<1>4. /\ memory' = [memory EXCEPT ![key] =
           IF success THEN RememberProviderFetchSuccess(@) ELSE RememberProviderFetchFailure(@)]
      /\ recent' = [recent EXCEPT ![key] =
           IF Len(@) < providerFailureCooldownThresh THEN <<success>> \o @
           ELSE SubSeq(<<success>> \o recent[key], 1, providerFailureCooldownThresh)]
      /\ tried' = tried \cup {<<key.miner, t>>}
  BY DEF Attempt, providerMemoryKey
<1> HIDE DEF key, t
<1>5. /\ DOMAIN memory = FetchRecord /\ DOMAIN recent = FetchRecord
  BY DEF FetchInv, FetchType, MemoryType, FailuresInv
<1>6. /\ \A other \in FetchRecord \ {key} : memory'[other] = memory[other]
      /\ memory'[key] = IF success THEN RememberProviderFetchSuccess(memory[key])
                        ELSE RememberProviderFetchFailure(memory[key])
      /\ memory' = [memory EXCEPT ![key] = memory'[key]]
  BY <1>3, <1>4, <1>5
<1>7. /\ \A other \in FetchRecord \ {key} : recent'[other] = recent[other]
      /\ recent'[key] = IF Len(recent[key]) < providerFailureCooldownThresh THEN <<success>> \o recent[key]
                        ELSE SubSeq(<<success>> \o recent[key], 1, providerFailureCooldownThresh)
      /\ recent' = [recent EXCEPT ![key] = recent'[key]]
  BY <1>3, <1>4, <1>5
<1> QED
  BY <1>1, <1>3, <1>4, <1>6, <1>7

\* The fields of the row.
LEMMA Remembered ==
  ASSUME MemoryType, NEW key \in FetchRecord, NEW success \in BOOLEAN, NEW new,
         new = IF success THEN RememberProviderFetchSuccess(memory[key])
               ELSE RememberProviderFetchFailure(memory[key])
  PROVE  /\ new \in [outcome : {"none", "success", "failure"}, success : 0..MaxTime,
                     failures : Nat, cooldown : 0..(MaxTime + providerFailureCooldown)]
         /\ success => new.failures = 0 /\ new.cooldown = 0
         /\ ~success => /\ new.failures = memory[key].failures + 1
                        /\ new.cooldown = memory[key].cooldown \/ new.failures >= providerFailureCooldownThresh
<1>1. /\ memory[key] \in [outcome : {"none", "success", "failure"}, success : 0..MaxTime,
                          failures : Nat, cooldown : 0..(MaxTime + providerFailureCooldown)]
      /\ now \in 1..MaxTime
  BY DEF MemoryType
<1>2. now + providerFailureCooldown \in 0..(MaxTime + providerFailureCooldown) /\ now \in 0..MaxTime
  BY <1>1, FetchNumbers
<1> DEFINE row == memory[key]
           Row == [outcome : {"none", "success", "failure"}, success : 0..MaxTime,
                   failures : Nat, cooldown : 0..(MaxTime + providerFailureCooldown)]
<1>5. row \in Row
  BY <1>1
<1> HIDE DEF row
<1>3. CASE success
  <2>1. 0 \in 0..(MaxTime + providerFailureCooldown)
    BY FetchNumbers
  <2>2. /\ RememberProviderFetchSuccess(row) \in Row
        /\ RememberProviderFetchSuccess(row).failures = 0 /\ RememberProviderFetchSuccess(row).cooldown = 0
    BY <1>2, <1>5, <2>1 DEF RememberProviderFetchSuccess
  <2> QED
    BY <1>3, <2>2 DEF row
<1>4. CASE ~success
  <2> DEFINE until == IF row.failures + 1 >= providerFailureCooldownThresh
                      THEN now + providerFailureCooldown ELSE row.cooldown
             failures == row.failures + 1
             next == [row EXCEPT !.outcome = "failure", !.failures = failures, !.cooldown = until]
  <2>1. RememberProviderFetchFailure(row) = next
    BY DEF RememberProviderFetchFailure
  <2>2. /\ until \in 0..(MaxTime + providerFailureCooldown) /\ failures \in Nat
        /\ until = row.cooldown \/ failures >= providerFailureCooldownThresh
        /\ failures = row.failures + 1
    BY <1>2, <1>5
  <2> HIDE DEF until, failures
  <2>3. next \in Row /\ next.failures = failures /\ next.cooldown = until
    BY <1>5, <2>2
  <2> HIDE DEF next
  <2> QED
    BY <1>4, <2>1, <2>2, <2>3 DEF row
<1> QED
  BY <1>3, <1>4

\* An attempt succeeds or fails.
LEMMA FetchAttempts ==
  ASSUME FetchInv, NEW success \in BOOLEAN, Attempt(success)
  PROVE  FetchInv'
<1>1. PICK key \in FetchRecord, t \in Transport :
           /\ queue # <<>> /\ Head(queue) = <<key, t>> /\ phase \notin Ended
           /\ \A other \in FetchRecord \ {key} :
                memory'[other] = memory[other] /\ recent'[other] = recent[other]
           /\ memory'[key] = IF success THEN RememberProviderFetchSuccess(memory[key])
                             ELSE RememberProviderFetchFailure(memory[key])
           /\ memory' = [memory EXCEPT ![key] = memory'[key]]
           /\ recent' = [recent EXCEPT ![key] = recent'[key]]
           /\ recent'[key] = IF Len(recent[key]) < providerFailureCooldownThresh THEN <<success>> \o recent[key]
                             ELSE SubSeq(<<success>> \o recent[key], 1, providerFailureCooldownThresh)
           /\ tried' = tried \cup {<<key.miner, t>>}
  BY AttemptRows
<1>2. /\ queue' = (IF success THEN <<>> ELSE Tail(queue)) /\ phase' = (IF success THEN "fetched" ELSE phase)
      /\ answer' = (IF success THEN {} ELSE answer)
      /\ UNCHANGED <<registered, now, learned, fetches>>
  BY DEF Attempt
<1>3. /\ memory'[key] \in [outcome : {"none", "success", "failure"}, success : 0..MaxTime,
                           failures : Nat, cooldown : 0..(MaxTime + providerFailureCooldown)]
      /\ success => memory'[key].failures = 0 /\ memory'[key].cooldown = 0
      /\ ~success => /\ memory'[key].failures = memory[key].failures + 1
                     /\ memory'[key].cooldown = memory[key].cooldown
                        \/ memory'[key].failures >= providerFailureCooldownThresh
  BY <1>1, Remembered DEF FetchInv, FetchType
<1>4. queue \in Seq(FetchRecord \X Transport) /\ queue # <<>>
  BY <1>1 DEF FetchInv, FetchType
<1>5. /\ Tail(queue) \in Seq(FetchRecord \X Transport) /\ Len(Tail(queue)) = Len(queue) - 1
      /\ Len(queue) \in Nat /\ queue[1] = <<key, t>>
      /\ \A i \in 1..Len(Tail(queue)) : Tail(queue)[i] = queue[i + 1]
  BY <1>1, <1>4
<1>6. FetchType'
  <2>1. MemoryType'
    <3>1. DOMAIN memory = FetchRecord /\ \A other \in FetchRecord \ {key} : memory[other] \in
             [outcome : {"none", "success", "failure"}, success : 0..MaxTime,
              failures : Nat, cooldown : 0..(MaxTime + providerFailureCooldown)]
      BY DEF FetchInv, FetchType, MemoryType
    <3>2. now' \in 1..MaxTime
      BY <1>2 DEF FetchInv, FetchType, MemoryType
    <3>3. memory' \in [FetchRecord -> [outcome : {"none", "success", "failure"}, success : 0..MaxTime,
                                       failures : Nat, cooldown : 0..(MaxTime + providerFailureCooldown)]]
      BY <1>1, <1>3 DEF FetchInv, FetchType, MemoryType
    <3> QED
      BY <3>2, <3>3 DEF MemoryType
  <2>2. key.miner \in Miner
    BY DEF FetchRecord
  <2>3. tried' \subseteq Miner \X Transport
    BY <1>1, <2>2 DEF FetchInv, FetchType
  <2>4. queue' \in Seq(FetchRecord \X Transport)
    BY <1>2, <1>5, NoAttempts
  <2>5. Distinct(answer') /\ answer' \subseteq learned'
    BY <1>2 DEF FetchInv, FetchType, Distinct
  <2>6. phase' \in Phase /\ (phase' \in Ended => queue' = <<>>)
    BY <1>1, <1>2 DEF FetchInv, FetchType, Phase, Ended
  <2> QED
    BY <1>2, <2>1, <2>3, <2>4, <2>5, <2>6 DEF FetchInv, FetchType
<1>7. FailuresInv'
  <2> DEFINE T == providerFailureCooldownThresh
             old == recent[key]
             new == recent'[key]
             before == memory[key].failures
             after == memory'[key].failures
  <2>1. /\ old \in Seq(BOOLEAN) /\ Len(old) <= T /\ T \in Nat \ {0}
        /\ memory[key].cooldown > 0 => before >= T
        /\ \A j \in 1..T : j <= before => j <= Len(old) /\ old[j] = FALSE
        /\ before \in Nat
    BY FetchNumbers, MemoryValues DEF FetchInv, FetchType, MemoryType, FailuresInv
  <2>2. /\ new \in Seq(BOOLEAN) /\ Len(new) <= T /\ Len(new) >= 1 /\ new[1] = success
        /\ \A j \in 1..Len(old) : j < T => j + 1 <= Len(new) /\ new[j + 1] = old[j]
    <3>1. new = Push(success, old, T)
      BY <1>1 DEF Push
    <3> HIDE DEF T, old, new, before, after
    <3>2. T \in Nat \ {0} /\ old \in Seq(BOOLEAN) /\ Len(old) <= T /\ success \in BOOLEAN
      BY <2>1
    <3>3. /\ Push(success, old, T) \in Seq(BOOLEAN)
          /\ Len(Push(success, old, T)) <= T /\ Len(Push(success, old, T)) >= 1
          /\ Push(success, old, T)[1] = success
      BY <3>2, Pushed
    <3>4. \A j \in 1..Len(old) : j < T =>
            j + 1 <= Len(Push(success, old, T)) /\ Push(success, old, T)[j + 1] = old[j]
      BY <3>2, Pushed
    <3> QED
      BY <3>1, <3>3, <3>4
  <2>3. /\ success => after = 0 /\ memory'[key].cooldown = 0
        /\ ~success => after = before + 1 /\ (memory'[key].cooldown = memory[key].cooldown \/ after >= T)
    BY <1>3
  <2>4. recent' \in [FetchRecord -> Seq(BOOLEAN)]
    BY <1>1, <2>2 DEF FetchInv, FailuresInv
  <2>5. memory'[key].cooldown > 0 => after >= T
    BY <2>1, <2>3
  <2>6. \A j \in 1..T : j <= after => j <= Len(new) /\ new[j] = FALSE
    <3> HIDE DEF T, old, new, before, after
    <3> SUFFICES ASSUME NEW j \in 1..T, j <= after PROVE j <= Len(new) /\ new[j] = FALSE
      OBVIOUS
    <3>1. ~success /\ after = before + 1
      BY <2>3
    <3>2. CASE j = 1
      BY <2>2, <3>1, <3>2
    <3>3. CASE j # 1
      <4> DEFINE i == j - 1
      <4>1. i \in 1..T /\ i <= before /\ i < T /\ j = i + 1
        BY <2>1, <3>1, <3>3
      <4> HIDE DEF i
      <4>2. i \in 1..Len(old) /\ old[i] = FALSE
        BY <2>1, <4>1
      <4> QED
        BY <2>2, <4>1, <4>2
    <3> QED
      BY <3>2, <3>3
  <2>7. \A other \in FetchRecord \ {key} :
          memory'[other] = memory[other] /\ recent'[other] = recent[other]
    BY <1>1
  <2> QED
    BY <2>2, <2>4, <2>5, <2>6, <2>7 DEF FetchInv, FailuresInv
<1>8. TriedInv'
  <2>1. CASE success
    BY <1>2, <2>1 DEF TriedInv, Ended
  <2>2. CASE ~success
    <3>1. tried \cup Pending \subseteq tried' \cup Pending'
      <4> SUFFICES ASSUME NEW i \in 1..Len(queue), <<queue[i][1].miner, queue[i][2]>> \notin tried'
                   PROVE  <<queue[i][1].miner, queue[i][2]>> \in Pending'
        BY <1>1 DEF Pending
      <4>1. i # 1
        <5>1. <<key, t>>[1] = key /\ <<key, t>>[2] = t
          BY Pairs
        <5> QED
          BY <1>1, <1>5, <5>1
      <4> DEFINE k == i - 1
      <4>2. k \in 1..Len(Tail(queue)) /\ k + 1 = i
        BY <1>5, <4>1
      <4> HIDE DEF k
      <4>3. queue'[k] = queue[i] /\ k \in 1..Len(queue')
        BY <1>2, <1>5, <2>2, <4>2
      <4> QED
        BY <4>3 DEF Pending
    <3>2. /\ phase' = phase /\ phase \notin Ended /\ answer' = answer /\ learned' = learned
          /\ Offered' = Offered
      BY <1>1, <1>2, <2>2 DEF Offered
    <3>3. \A r, u : Owed(r, u) => Owed(r, u)'
      BY <3>1 DEF Owed
    <3> QED
      BY <3>1, <3>2, <3>3 DEF FetchInv, TriedInv, Ended
  <2> QED
    BY <2>1, <2>2
<1> QED
  BY <1>6, <1>7, <1>8 DEF FetchInv

\* Every step of a fetch keeps the invariant.
LEMMA FetchStep ==
  ASSUME FetchInv, [FetchNext]_fetchVars
  PROVE  FetchInv'
<1>1. CASE FetchTick \/ UNCHANGED fetchVars
  <2>1. /\ UNCHANGED <<registered, memory, phase, answer, queue, learned, tried, fetches, recent>>
        /\ now' \in 1..MaxTime
    BY <1>1, FetchNumbers, SMTT(30) DEF FetchTick, fetchVars, FetchInv, FetchType, MemoryType
  <2>2. FetchType' /\ FailuresInv'
    BY <2>1 DEF FetchInv, FetchType, MemoryType, FailuresInv
  <2>3. Pending' = Pending /\ Offered' = Offered /\ \A r, t : Owed(r, t) => Owed(r, t)'
    BY <2>1 DEF Pending, Offered, Owed
  <2>4. TriedInv'
    BY <2>1, <2>3 DEF FetchInv, TriedInv
  <2> QED
    BY <2>2, <2>4 DEF FetchInv
<1> QED
  BY <1>1, FetchBegins, FetchAsks, FetchHTTP, FetchGivesUp, FetchAttempts DEF FetchNext

\* Nothing is remembered and nothing fetched at the start.
LEMMA FetchStart == FetchInit => FetchInv
<1> SUFFICES ASSUME FetchInit PROVE FetchInv
  OBVIOUS
<1>1. FetchType
  <2>1. MemoryType
    BY FetchNumbers DEF FetchInit, MemoryType, NoMemory
  <2> QED
    BY <2>1, FetchNumbers, NoAttempts DEF FetchInit, FetchType, Phase, Ended, Distinct
<1>2. FailuresInv
  BY FetchNumbers DEF FetchInit, FailuresInv, NoMemory
<1>3. TriedInv
  BY DEF FetchInit, TriedInv, Ended
<1> QED
  BY <1>1, <1>2, <1>3 DEF FetchInv

\* The invariant of the fetch holds always.
LEMMA FetchAlways == FetchSpec => []FetchInv
<1>1. FetchInv /\ [FetchNext]_fetchVars => FetchInv'
  BY FetchStep
<1> QED
  BY <1>1, FetchStart, PTL DEF FetchSpec

\* A fetch fails only when everything that was named has been tried, whatever is cooling
\* down and however the chain's and the DHT's answers differ (downloadSourceShard).
THEOREM EverythingTried == FetchSpec => []TriedEverything
<1>1. FetchInv => TriedEverything
  <2> SUFFICES ASSUME FetchInv PROVE TriedEverything
    OBVIOUS
  <2>1. FetchTypeOK
    <3>1. now \in 1..MaxTime /\ \A key \in FetchRecord :
            /\ memory[key].outcome \in {"none", "success", "failure"}
            /\ memory[key].success \in 0..MaxTime /\ memory[key].failures \in Nat
            /\ memory[key].cooldown \in 0..(MaxTime + providerFailureCooldown)
      BY DEF FetchInv, FetchType, MemoryType
    <3>2. registered \subseteq FetchRecord
      BY FetchNumbers DEF FetchInv, FetchType
    <3>3. \A i \in 1..Len(queue) : queue[i] \in FetchRecord \X Transport
      BY DEF FetchInv, FetchType
    <3> QED
      BY <3>1, <3>2, <3>3 DEF FetchTypeOK, FetchInv, FetchType
  <2>2. ASSUME phase = "failed", NEW r \in learned \cup {[miner |-> Primary, peer |-> FALSE]},
               NEW t \in Transport, t = "libp2p" => r.peer
        PROVE  <<r.miner, t>> \in tried
    <3>1. CASE r \in learned
      BY <2>2, <3>1 DEF FetchInv, TriedInv
    <3>2. CASE r = [miner |-> Primary, peer |-> FALSE]
      BY <2>2, <3>2 DEF FetchInv, TriedInv, Transport
    <3> QED
      BY <3>1, <3>2
  <2> QED
    BY <2>1, <2>2 DEF TriedEverything
<1> QED
  BY <1>1, FetchAlways, PTL

\* Whatever the memory holds, the comparison of RankProvidersForBlockFetch is an order, and a
\* provider cools down only after as many failures in a row as the threshold.
THEOREM RankingIsSound == FetchSpec => []RankingSound
<1>1. FetchInv => RankingSound
  <2> SUFFICES ASSUME FetchInv PROVE RankingSound
    OBVIOUS
  <2>1. RankingConsistent
    <3> SUFFICES ASSUME NEW a \in learned \cup registered, NEW b \in learned \cup registered,
                        NEW c \in learned \cup registered, a.miner # b.miner
                 PROVE  /\ Before(a, b) # Before(b, a)
                        /\ Before(a, b) /\ Before(b, c) => Before(a, c)
      BY DEF RankingConsistent
    <3>1. learned \cup registered \subseteq FetchRecord
      BY FetchNumbers DEF FetchInv, FetchType
    <3>2. Compared(Before(a, b), Before(b, a), Before(b, c), Before(a, c))
      BY <3>1, BeforeOrders DEF FetchInv, FetchType
    <3> QED
      BY <3>2, Zenon DEF Compared
  <2>2. CooldownEarned
    <3> SUFFICES ASSUME NEW key \in FetchRecord, Cooling(key)
                 PROVE  recent[key] = [i \in 1..providerFailureCooldownThresh |-> FALSE]
      BY DEF CooldownEarned
    <3> DEFINE T == providerFailureCooldownThresh
    <3>1. memory[key].cooldown > 0
      <4>1. now \in Nat /\ memory[key].cooldown \in Int /\ memory[key].cooldown > now
        BY MemoryValues DEF FetchInv, FetchType, MemoryType, Cooling, providerMemoryKey
      <4> QED
        BY <4>1
    <3>2. memory[key].failures >= T /\ T \in Nat \ {0} /\ memory[key].failures \in Int
      BY <3>1, MemoryValues, FetchNumbers DEF FetchInv, FetchType, FailuresInv
    <3>3. /\ recent[key] \in Seq(BOOLEAN) /\ Len(recent[key]) <= T
          /\ \A j \in 1..T : j <= Len(recent[key]) /\ recent[key][j] = FALSE
      BY <3>2 DEF FetchInv, FailuresInv
    <3>4. Len(recent[key]) = T
      BY <3>2, <3>3
    <3>5. recent[key] = [i \in 1..Len(recent[key]) |-> recent[key][i]]
      BY <3>3
    <3> QED
      BY <3>3, <3>4, <3>5
  <2> QED
    BY <2>1, <2>2 DEF RankingSound
<1> QED
  BY <1>1, FetchAlways, PTL
=============================================================================
