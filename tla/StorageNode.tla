---------------------------- MODULE StorageNode -----------------------------
(***************************************************************************)
(* The disk of one storage node: FileBackend, which keeps a shard in three *)
(* files and takes no lock, and the goroutines that use it at once: the    *)
(* upload handler, the auto-repairer, the auto-deleter, the auto-prover,   *)
(* the readers and the blacklist cache.  os.WriteFile truncates a file     *)
(* before it fills it, so a reader or a crash may find it torn.            *)
(*                                                                         *)
(* One shard is followed, which several deals may need: files of different *)
(* shards never meet, for the CID under which a client stores a shard is   *)
(* the raw CID of its hash.  What the chain does (deals, delete tasks,     *)
(* challenges) is reduced to what it tells the node; modules Deals and     *)
(* DealEnd hold the rest.                                                  *)
(***************************************************************************)
EXTENDS Integers, FiniteSets

CONSTANTS
  Intent,       \* the deals that need the shard from this node
  MaxStores,    \* how many uploads and repairs are begun
  MaxCrashes    \* how often the process dies

ASSUME StorageAssumption == MaxStores \in Nat /\ MaxCrashes \in Nat

VARIABLES
  blockFile,    \* blocks/<cid>.block
  hashIndex,    \* indexes/hash/<hash>.cid
  cidIndex,     \* indexes/cid/<cid>.hash
  legacyFile,   \* shards/<hash>.bin, of an older version
  store,        \* the calls of Store in progress, of the two goroutines
  deletion,     \* the task the auto-deleter is at
  blacklist,    \* the cached blacklist entry of the shard
  posted,       \* what the proofs sent so far were made of
  deal,         \* chain: the state of each deal
  receipt,      \* the deals whose uploader holds a receipt of this node
  task,         \* chain: the delete task of each deal
  banned,       \* chain: the governance entry of the shard
  expired,      \* whether the expiry of a temporary entry has passed
  challenge,    \* chain: the challenge of the shard
  stores, crashes,
  gone,         \* a deletion ran to its end, and no Store wrote since
  mixed,        \* a Store was cut short or overlapped with a deletion
  exposed       \* the deals that had no finalized reference while others' tasks ran

files == <<blockFile, hashIndex, cidIndex, legacyFile>>
chainVars == <<deal, receipt, task, banned, expired, challenge>>
ghostVars == <<gone, mixed, exposed>>
nodeVars == <<files, store, deletion, blacklist, posted, chainVars, stores, crashes, ghostVars>>

FileState == {"absent", "torn", "good"}
Caller == {"upload", "repair"}
Idle == <<>>

\* The steps of Store after its checks: the chain is asked, three files are opened
\* and filled, the receipt is signed.
Writing == {"block open", "block", "hash open", "hash", "cid open", "cid"}
StoreStep == {"authorize", "sign"} \cup Writing
DeleteStep == {"read", "block", "cid", "hash", "legacy", "post"}
Entry == {"none", "temporary", "permanent"}

StorageTypeOK ==
  /\ blockFile \in FileState /\ hashIndex \in FileState /\ cidIndex \in FileState
  /\ legacyFile \in {"absent", "good"}
  /\ store \in [Caller -> {Idle} \cup (Intent \X StoreStep)]
  /\ deletion \in {Idle} \cup (Intent \X DeleteStep)
  /\ blacklist \in Entry /\ banned \in Entry /\ expired \in BOOLEAN
  /\ posted \subseteq FileState
  /\ deal \in [Intent -> {"open", "finalized", "ended"}]
  /\ receipt \subseteq Intent
  /\ task \in [Intent -> {"none", "pending", "retained", "completed"}]
  /\ challenge \in {"none", "pending", "proved"}
  /\ stores \in 0..MaxStores /\ crashes \in 0..MaxCrashes
  /\ gone \in BOOLEAN /\ mixed \in BOOLEAN /\ exposed \subseteq Intent

\* NewFileBackend over a data directory that may hold the shard from before.
StorageInit ==
  /\ blockFile = "absent" /\ hashIndex = "absent" /\ cidIndex = "absent"
  /\ legacyFile \in {"absent", "good"}
  /\ store = [c \in Caller |-> Idle]
  /\ deletion = Idle
  /\ blacklist = "none" /\ banned = "none" /\ expired = FALSE
  /\ posted = {}
  /\ deal = [i \in Intent |-> "open"]
  /\ receipt = {}
  /\ task = [i \in Intent |-> "none"]
  /\ challenge = "none"
  /\ stores = 0 /\ crashes = 0
  /\ gone = FALSE /\ mixed = FALSE /\ exposed = {}

-----------------------------------------------------------------------------
(***************************************************************************)
(* Reading                                                                 *)
(***************************************************************************)
\* GetByHash: through the index, or from the legacy file when the index is missing
\* or reads as empty; a torn index may also name no block at all.
GetByHash ==
  CASE hashIndex = "good"   -> {blockFile}
    [] hashIndex = "absent" -> {legacyFile}
    [] hashIndex = "torn"   -> {legacyFile, "absent"}

GetByCID == IF blockFile # "absent" THEN blockFile ELSE legacyFile

\* ListBlocks: an index entry whose block exists, or a legacy file.
Listed == (hashIndex = "good" /\ blockFile # "absent") \/ legacyFile # "absent"

\* ShardHashForCID: the node knows the hash only of the blocks it lists.
ShardHashForCID == Listed

\* BlacklistCache.IsBlocked.
IsBlocked(entry) == entry = "permanent" \/ (entry = "temporary" /\ ~expired)

\* GET /shards/<hash>: what may be answered.
getShard == IF IsBlocked(blacklist) THEN {} ELSE GetByHash \ {"absent"}

\* The libp2p stream: the blacklist is asked for the hash, if the node knows it.
handleBlockStream == IF ShardHashForCID /\ IsBlocked(blacklist) THEN {} ELSE {GetByCID} \ {"absent"}

\* GET /blocks/<cid>: the same.
getBlock == handleBlockStream

-----------------------------------------------------------------------------
(***************************************************************************)
(* Store                                                                   *)
(***************************************************************************)
Stored(c) == IF store[c] = Idle THEN "idle" ELSE store[c][2]
Storing == {c \in Caller : Stored(c) \in Writing}
Unretained == {i \in Intent : task[i] = "pending"}
Deleting == deletion # Idle /\ deletion[2] # "post"

\* A Store that has the files to itself when it begins to write makes them whole.
Overlapped(c) ==
  IF Stored(c) = "block open" /\ Storing = {c} /\ ~Deleting THEN FALSE ELSE mixed \/ Deleting

\* Store up to authorizeUpload: bytes that match their hash, and no blacklist entry
\* in the cache.  Bad bytes leave nothing behind.
StoreChecked(c, i) ==
  /\ store[c] = Idle
  /\ stores < MaxStores
  /\ ~IsBlocked(blacklist)
  /\ store' = [store EXCEPT ![c] = <<i, "authorize">>]
  /\ stores' = stores + 1
  /\ exposed' = IF Unretained # {} /\ deal[i] = "open" THEN exposed \cup {i} ELSE exposed
  /\ UNCHANGED <<files, deletion, blacklist, posted, chainVars, crashes, gone, mixed>>

\* POST /upload: the client sends a shard of its deal.
Upload(i) == deal[i] = "open" /\ StoreChecked("upload", i)

\* repairTask and repairTaskCrossParity: enough sources answered, every answer had
\* the hash of its receipt, and the rebuilt shard has the hash of the task.
repairTask(i) == StoreChecked("repair", i)

\* repairPendingTasks: a task of the chain's list.  The task stays on the list, so
\* the same repair is done again at the next tick.
repairPendingTasks(i) == deal[i] = "finalized" /\ repairTask(i)

\* authorizeUpload: the chain is asked for the intent and its assignments, which
\* stay when the deal ends; when it does not answer, Store ends with an error.
authorizeUpload(c) ==
  /\ Stored(c) = "authorize"
  /\ \/ store' = [store EXCEPT ![c] = <<@[1], "block open">>]
     \/ store' = [store EXCEPT ![c] = Idle]
  /\ UNCHANGED <<files, deletion, blacklist, posted, chainVars, stores, crashes, ghostVars>>

\* The order of PutBlock: the block, the index of its hash, the index of its CID.
NextWrite(step) ==
  CASE step = "block open" -> "block"    [] step = "block" -> "hash open"
    [] step = "hash open"  -> "hash"     [] step = "hash"  -> "cid open"
    [] step = "cid open"   -> "cid"      [] step = "cid"   -> "sign"

\* One file in os.WriteFile: truncated when it is opened, then filled.
WriteFile(step, open, fill, file) ==
  IF step = open THEN "torn" ELSE IF step = fill THEN "good" ELSE file

\* One step of PutBlock.
PutBlock(c) ==
  LET step == Stored(c)
  IN  /\ step \in Writing
      /\ store' = [store EXCEPT ![c] = <<@[1], NextWrite(step)>>]
      /\ blockFile' = WriteFile(step, "block open", "block", blockFile)
      /\ hashIndex' = WriteFile(step, "hash open", "hash", hashIndex)
      /\ cidIndex' = WriteFile(step, "cid open", "cid", cidIndex)
      /\ gone' = FALSE
      /\ mixed' = Overlapped(c)
      /\ UNCHANGED <<legacyFile, deletion, blacklist, posted, chainVars, stores, crashes, exposed>>

\* The end of Store: a signed receipt.  The repairer's own commit of it is unsigned,
\* and the chain refuses it.
SignReceipt(c) ==
  /\ Stored(c) = "sign"
  /\ store' = [store EXCEPT ![c] = Idle]
  /\ receipt' = IF c = "upload" THEN receipt \cup {store[c][1]} ELSE receipt
  /\ UNCHANGED <<files, deletion, blacklist, posted, deal, task, banned, expired, challenge,
                 stores, crashes, ghostVars>>

-----------------------------------------------------------------------------
(***************************************************************************)
(* The auto-deleter                                                        *)
(***************************************************************************)
\* deletePendingTasks: a task of the chain's list.  A retained one is answered
\* without touching the files.
TakeTask(i) ==
  /\ deletion = Idle
  /\ \/ task[i] = "pending" /\ deletion' = <<i, "read">> /\ mixed' = (mixed \/ Storing # {})
     \/ task[i] = "retained" /\ deletion' = <<i, "post">> /\ UNCHANGED mixed
  /\ UNCHANGED <<files, store, blacklist, posted, chainVars, stores, crashes, gone, exposed>>

\* Mutated: a file that is not there fails the deletion.
NextRemoval_strict(step) ==
  CASE step = "read"   -> IF hashIndex = "good" THEN "block" ELSE "hash"
    [] step = "block"  -> IF blockFile = "absent" THEN "failed" ELSE "cid"
    [] step = "cid"    -> "hash"
    [] step = "hash"   -> "legacy"
    [] step = "legacy" -> "post"

\* The order of DeleteByHash: the index tells the block, then the block, the index
\* of its CID, the index of its hash and the legacy file are removed.
NextRemoval(step) ==
  CASE step = "read"   -> IF hashIndex = "good" THEN "block" ELSE "hash"
    [] step = "block"  -> "cid"
    [] step = "cid"    -> "hash"
    [] step = "hash"   -> "legacy"
    [] step = "legacy" -> "post"

\* One step of DeleteByHash; a file that is not there counts as removed.
DeleteByHash ==
  LET step == deletion[2]
      remove(name, file) == IF step = name THEN "absent" ELSE file
  IN  /\ Deleting
      /\ deletion' = IF NextRemoval(step) = "failed" THEN Idle ELSE <<deletion[1], NextRemoval(step)>>
      /\ blockFile' = remove("block", blockFile)
      /\ cidIndex' = remove("cid", cidIndex)
      /\ hashIndex' = remove("hash", hashIndex)
      /\ legacyFile' = remove("legacy", legacyFile)
      /\ gone' = (gone \/ step = "legacy")
      /\ UNCHANGED <<store, blacklist, posted, chainVars, stores, crashes, mixed, exposed>>

\* The receipt reaches the chain, which completes the task.
PostDeleteReceipt ==
  /\ deletion # Idle /\ deletion[2] = "post"
  /\ task' = [task EXCEPT ![deletion[1]] = "completed"]
  /\ deletion' = Idle
  /\ UNCHANGED <<files, store, blacklist, posted, deal, receipt, banned, expired, challenge,
                 stores, crashes, ghostVars>>

\* It does not: the task is taken up again at a later tick.
PostFails ==
  /\ deletion # Idle /\ deletion[2] = "post"
  /\ deletion' = Idle
  /\ UNCHANGED <<files, store, blacklist, posted, chainVars, stores, crashes, ghostVars>>

-----------------------------------------------------------------------------
(***************************************************************************)
(* The auto-prover                                                         *)
(***************************************************************************)
\* What Prove puts into a proof: the seal of the challenge is not among its fields.
StorageProof(content) == [content |-> content, MinerSeal |-> ""]

\* validateStorageProof: every challenge carries the seal of its miner.
validateStorageProof(proof) == proof.content = "good" /\ proof.MinerSeal = "seal"

\* Mutated: the bytes are not hashed again.
Prove_unchecked == {r \in GetByHash : r # "absent"}

\* Prove: bytes that still have the hash of the challenge.
Prove == {r \in GetByHash : r = "good"}

\* provePendingChallenges.
provePendingChallenges ==
  /\ challenge = "pending"
  /\ \E content \in Prove :
       /\ posted' = posted \cup {content}
       /\ challenge' = IF validateStorageProof(StorageProof(content)) THEN "proved" ELSE "pending"
  /\ UNCHANGED <<files, store, deletion, blacklist, deal, receipt, task, banned, expired,
                 stores, crashes, ghostVars>>

-----------------------------------------------------------------------------
(***************************************************************************)
(* The chain, and the blacklist cache                                      *)
(***************************************************************************)
\* The uploader commits its receipt and finalizes the deal.
FinalizeIntent(i) ==
  /\ deal[i] = "open" /\ i \in receipt
  /\ deal' = [deal EXCEPT ![i] = "finalized"]
  /\ UNCHANGED <<files, store, deletion, blacklist, posted, receipt, task, banned, expired,
                 challenge, stores, crashes, ghostVars>>

\* Mutated: no other deal is looked for.
ensureDeleteTasks_alone(i) == "pending"

\* ensureDeleteTasks: the bytes are retained when another finalized deal needs them.
ensureDeleteTasks(i) ==
  IF \E j \in Intent \ {i} : deal[j] = "finalized" THEN "retained" ELSE "pending"

\* The deal ends, and the node gets a task.
EndDeal(i) ==
  /\ deal[i] = "finalized"
  /\ deal' = [deal EXCEPT ![i] = "ended"]
  /\ task' = [task EXCEPT ![i] = ensureDeleteTasks(i)]
  /\ exposed' = exposed \cup
       {j \in Intent \ {i} : deal[j] = "open" /\ (j \in receipt \/ \E c \in Caller : store[c] # Idle /\ store[c][1] = j)}
  /\ challenge' = "none"
  /\ UNCHANGED <<files, store, deletion, blacklist, posted, receipt, banned, expired,
                 stores, crashes, gone, mixed>>

\* A challenge for a finalized deal, which counts as missed at the end of its time.
Challenge ==
  /\ \E i \in Intent : deal[i] = "finalized"
  /\ \/ challenge = "none" /\ challenge' = "pending"
     \/ challenge = "pending" /\ challenge' = "none"
  /\ UNCHANGED <<files, store, deletion, blacklist, posted, deal, receipt, task, banned, expired,
                 stores, crashes, ghostVars>>

\* Governance puts the shard on the list, an appeal takes it off again.
Moderate(entry) ==
  /\ banned # entry
  /\ banned = "none" \/ entry = "none"
  /\ banned' = entry
  /\ UNCHANGED <<files, store, deletion, blacklist, posted, deal, receipt, task, expired, challenge,
                 stores, crashes, ghostVars>>

\* The time of a temporary entry passes.
EntryExpires ==
  /\ "temporary" \in {banned, blacklist}
  /\ ~expired /\ expired' = TRUE
  /\ UNCHANGED <<files, store, deletion, blacklist, posted, deal, receipt, task, banned, challenge,
                 stores, crashes, ghostVars>>

\* SyncFromChain: the chain sends the entries that hold; what it no longer sends
\* stays, but for the expired ones.
SyncFromChain ==
  /\ blacklist' = IF IsBlocked(banned) THEN banned
                  ELSE IF IsBlocked(blacklist) THEN blacklist ELSE "none"
  /\ blacklist' # blacklist
  /\ UNCHANGED <<files, store, deletion, posted, chainVars, stores, crashes, ghostVars>>

\* The process dies and is started again: calls and the cache are lost, the files stay.
Crash ==
  /\ crashes < MaxCrashes
  /\ crashes' = crashes + 1
  /\ store' = [c \in Caller |-> Idle]
  /\ deletion' = Idle
  /\ blacklist' = "none"
  /\ mixed' = (mixed \/ Storing # {})
  /\ UNCHANGED <<files, posted, chainVars, stores, gone, exposed>>

StorageNext ==
  \/ \E i \in Intent : Upload(i) \/ repairPendingTasks(i) \/ TakeTask(i) \/ FinalizeIntent(i) \/ EndDeal(i)
  \/ \E c \in Caller : authorizeUpload(c) \/ PutBlock(c) \/ SignReceipt(c)
  \/ DeleteByHash \/ PostDeleteReceipt \/ PostFails
  \/ provePendingChallenges \/ Challenge
  \/ \E entry \in Entry : Moderate(entry)
  \/ EntryExpires \/ SyncFromChain \/ Crash

StorageSpec == StorageInit /\ [][StorageNext]_nodeVars

-----------------------------------------------------------------------------
(***************************************************************************)
(* Properties                                                              *)
(***************************************************************************)
\* A finalized deal's shard can be read as long as the deal runs, whatever other
\* deals of the same bytes end and wherever the process dies, unless a Store was
\* cut short or ran into a deletion, or another deal's task was pending before
\* this one counted as a reference.
KeptForItsDeal ==
  \A i \in Intent :
    deal[i] = "finalized" /\ i \notin exposed /\ ~mixed /\ Storing = {} => GetByHash = {"good"}

\* When a deletion has run to its end, and its receipt is sent, nothing of the shard
\* is left, also when the process died between two removals and began again.
DeletedIsGone ==
  gone /\ ~mixed =>
    blockFile = "absent" /\ hashIndex = "absent" /\ cidIndex = "absent" /\ legacyFile = "absent"

\* A shard on the cached blacklist is not served by hash nor by CID, in the middle
\* of its deletion and from the legacy directory too.
BlockedNotServed ==
  IsBlocked(blacklist) /\ ~mixed /\ Storing = {} => getShard \cup getBlock \cup handleBlockStream = {}

\* Whatever a writer or a crash left in the files, a proof is made of whole bytes.
ProvesWholeBytes == "torn" \notin posted

\* Every delete task is completed in the end: after a crash, a lost receipt or a
\* removal that was done before, the next tick goes on.
TasksCompleted ==
  \A i \in Intent : task[i] \in {"pending", "retained"} ~> task[i] = "completed"

\* The files of a shard are there as long as a deal needs them and no longer.
DiskFollowsDeals == StorageTypeOK /\ KeptForItsDeal /\ DeletedIsGone

\* What leaves the node is whole and allowed: nothing blocked is served, nothing torn is
\* proved.
ServedAllowed == BlockedNotServed /\ ProvesWholeBytes
=============================================================================
