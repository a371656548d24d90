--------------------------- MODULE MCStorageNode ----------------------------
(***************************************************************************)
(* One storage node's disk, the discovery of a shard's holders and the     *)
(* fetch of a repair source, explored side by side and not interleaved:    *)
(* they share no state.  The scope of a behaviour is chosen at its start;  *)
(* what is outside of it keeps its initial value.                          *)
(***************************************************************************)
EXTENDS StorageNode, Discovery, ProviderFetch

CONSTANTS i1, i2, p1, p2, g1

VARIABLE scope

vars == <<scope, nodeVars, discoveryVars, fetchVars>>

Announced(m) == [miner |-> m, peer |-> TRUE]
FromReceipt(m) == [miner |-> m, peer |-> FALSE]

\* A mix of announced miners and receipts, without and with the receipt's own miner live.
MCRegistrations ==
  { {Announced(1), FromReceipt(2), Announced(3)},
    {Announced(2), FromReceipt(3)} }

Init ==
  /\ scope \in {"disk", "moderated", "gossip", "registry", "lookup", "fetch"}
  /\ StorageInit /\ (scope \notin {"disk", "moderated"} => legacyFile = "absent")
  /\ DiscoveryInit
  /\ FetchInit /\ (scope # "fetch" => registered = {Announced(2), FromReceipt(3)})

\* Two calls of Store where nothing is moderated, one where the shard is.
Disk ==
  /\ \/ scope = "disk" /\ StorageNext /\ banned' = "none"
     \/ scope = "moderated" /\ StorageNext /\ stores' <= 1
  /\ UNCHANGED <<scope, discoveryVars, fetchVars>>

Discover ==
  /\ \/ scope = "gossip" /\ GossipNext
     \/ scope = "registry" /\ RegistryNext
     \/ scope = "lookup" /\ LookupNext
  /\ UNCHANGED <<scope, nodeVars, fetchVars>>

Fetch == scope = "fetch" /\ FetchNext /\ UNCHANGED <<scope, nodeVars, discoveryVars>>

Next == Disk \/ Discover \/ Fetch

\* The auto-deleter ticks as long as the process runs, and a receipt is not lost for ever.
Spec ==
  /\ Init /\ [][Next]_vars
  /\ WF_nodeVars(\E i \in Intent : TakeTask(i))
  /\ WF_nodeVars(DeleteByHash)
  /\ SF_nodeVars(PostDeleteReceipt)
=============================================================================
