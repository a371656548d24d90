----------------------------- MODULE Discovery ------------------------------
(***************************************************************************)
(* How the holders of one shard are found: every storage node announces    *)
(* what it holds, by gossip to the other storage nodes (ProviderNetwork),  *)
(* by HTTP to the chain node (StorageProviders) and in the DHT (Service).  *)
(* Announcements are signed and carry their own expiry; they may be lost,  *)
(* delivered twice, late, and in any order.  The DHT itself is a library:  *)
(* it keeps the last value put under a key, and any call of it may fail.   *)
(***************************************************************************)
EXTENDS Integers, FiniteSets

CONSTANTS
  Provider,     \* the storage nodes
  Peer,         \* the gossip peers of an observing node
  TTL,          \* how long an announcement holds (and a DHT record)
  CacheTTL,     \* how long a lookup is cached
  negativeCacheTTL,
  Burst,        \* tokens of a peer's gossip bucket
  Stale,        \* when the bucket of a silent peer is thrown away
  NoMiner,      \* no provider
  MaxClock, MaxAnnounce

ASSUME DiscoveryAssumption ==
  /\ {TTL, CacheTTL, negativeCacheTTL, Burst, Stale, MaxClock, MaxAnnounce} \subseteq Nat
  /\ negativeCacheTTL <= CacheTTL
  /\ Burst <= Stale
  /\ NoMiner \notin Provider

VARIABLES
  clock,
  held,         \* the nodes that hold the shard
  lastHeld,     \* when each node held it last, or -1
  sent,         \* the announcements made so far
  bucket,       \* the observer's gossip tokens for each peer, and their time
  providers,    \* ProviderNetwork.providers of an observing node
  registry,     \* ProviderRecords of the chain node
  dealt,        \* the nodes with a receipt in an active deal
  shardIndex,   \* the nodes whose DHT service republishes the shard
  value,        \* the DHT value of the shard
  asked,        \* what the observer's lookup in flight has read of the DHT
  cache,        \* the observer's cached lookup
  taken         \* how many messages of each peer were let through

discoveryVars == <<clock, held, lastHeld, sent, bucket, providers, registry, dealt, shardIndex,
                   value, asked, cache, taken>>

NoRecord == [miner |-> NoMiner, has |-> FALSE, expires |-> -1]
Record == [miner : Provider, has : BOOLEAN, expires : 0..(MaxClock + TTL)]
NoEntry == [records |-> {}, expiresAt |-> -1]
NotAsked == {NoRecord}

DiscoveryTypeOK ==
  /\ clock \in 0..MaxClock
  /\ held \subseteq Provider /\ dealt \subseteq Provider /\ shardIndex \subseteq Provider
  /\ lastHeld \in [Provider -> -1..MaxClock]
  /\ sent \subseteq Record
  /\ bucket \in [Peer -> [tokens : 0..Burst, last : 0..MaxClock]]
  /\ providers \in [Provider -> Record \cup {NoRecord}]
  /\ registry \in [Provider -> Record \cup {NoRecord}]
  /\ value \in Record \cup {NoRecord}
  /\ asked \subseteq Record \cup {NoRecord}
  /\ taken \in [Peer -> Nat]
  /\ cache.records \subseteq Record /\ cache.expiresAt \in -1..(MaxClock + CacheTTL)

DiscoveryInit ==
  /\ clock = 0
  /\ held = {} /\ dealt = {} /\ shardIndex = {} /\ sent = {}
  /\ lastHeld = [p \in Provider |-> -1]
  /\ bucket = [p \in Peer |-> [tokens |-> Burst, last |-> 0]]
  /\ providers = [p \in Provider |-> NoRecord]
  /\ registry = [p \in Provider |-> NoRecord]
  /\ value = NoRecord
  /\ asked = NotAsked
  /\ cache = NoEntry
  /\ taken = [p \in Peer |-> 0]

-----------------------------------------------------------------------------
Tick ==
  /\ clock < MaxClock
  /\ clock' = clock + 1
  /\ lastHeld' = [p \in Provider |-> IF p \in held THEN clock + 1 ELSE lastHeld[p]]
  /\ UNCHANGED <<held, sent, bucket, providers, registry, dealt, shardIndex, value, asked, cache, taken>>

\* A node stores the shard, with or without a deal that is committed, or deletes it
\* when the deal has ended.
Gain(p, deal) ==
  /\ p \notin held
  /\ held' = held \cup {p}
  /\ lastHeld' = [lastHeld EXCEPT ![p] = clock]
  /\ dealt' = IF deal THEN dealt \cup {p} ELSE dealt
  /\ UNCHANGED <<clock, sent, bucket, providers, registry, shardIndex, value, asked, cache, taken>>

Lose(p) ==
  /\ p \in held
  /\ held' = held \ {p}
  /\ dealt' = dealt \ {p}
  /\ UNCHANGED <<clock, lastHeld, sent, bucket, providers, registry, shardIndex, value, asked, cache, taken>>

-----------------------------------------------------------------------------
\* ProviderRecord: what the node lists now, signed with its expiry.
ProviderRecord(p) == [miner |-> p, has |-> p \in held, expires |-> clock + TTL]

\* buildDHTRecord: signed for the shard it is asked for.
buildDHTRecord(p) == [miner |-> p, has |-> TRUE, expires |-> clock + TTL]

\* PublishShard: the value is put, the node registers as a provider and starts to
\* republish the shard; the DHT may refuse the first or the second.
PublishShard(p) ==
  \/ value' = buildDHTRecord(p) /\ shardIndex' = shardIndex \cup {p}
  \/ value' = buildDHTRecord(p) /\ UNCHANGED shardIndex
  \/ UNCHANGED <<value, shardIndex>>

\* AnnounceOnce, and the report of StartProviderReporter: the record goes out, and
\* the shard into the DHT if the node holds it and runs a DHT service.
AnnounceOnce(p, dhtService) ==
  /\ Cardinality(sent) < MaxAnnounce
  /\ sent' = sent \cup {ProviderRecord(p)}
  /\ IF dhtService /\ p \in held THEN PublishShard(p) ELSE UNCHANGED <<value, shardIndex>>
  /\ UNCHANGED <<clock, held, lastHeld, bucket, providers, registry, dealt, asked, cache, taken>>

\* PublishAllShards: what was ever published, for RemoveShard is never called.
PublishAllShards(p) ==
  /\ p \in shardIndex
  /\ PublishShard(p)
  /\ UNCHANGED <<clock, held, lastHeld, sent, bucket, providers, registry, dealt, asked, cache, taken>>

\* providerTokenBucket: one token for each unit of time, up to the burst.
Refilled(p) ==
  LET tokens == bucket[p].tokens + (clock - bucket[p].last)
  IN  IF tokens > Burst THEN Burst ELSE tokens

\* Allow: the bucket after a message, which is let through when there was a token.
Allow(p) ==
  [tokens |-> IF Refilled(p) >= 1 THEN Refilled(p) - 1 ELSE Refilled(p), last |-> clock]

\* cleanupPeerRateLimiters: a peer that comes back later starts with a full bucket.
cleanupPeerRateLimiters(p) ==
  /\ clock - bucket[p].last > Stale
  /\ bucket' = [bucket EXCEPT ![p] = [tokens |-> Burst, last |-> clock]]
  /\ UNCHANGED <<clock, held, lastHeld, sent, providers, registry, dealt, shardIndex, value, asked,
                 cache, taken>>

\* Mutated: the expiry is counted from the delivery.
storeProvider_received(table, record) == [table EXCEPT ![record.miner] = [record EXCEPT !.expires = clock + TTL]]

\* storeProvider: the last one delivered, which need not be the newest.
storeProvider(table, record) == [table EXCEPT ![record.miner] = record]

\* readLoop: a gossip message, dropped when the peer it comes from has no token left.
\* Gossip is forwarded: the peer need not be the one that announces.
readLoop(record, peer) ==
  /\ bucket' = [bucket EXCEPT ![peer] = Allow(peer)]
  /\ IF Refilled(peer) >= 1
     THEN /\ providers' = storeProvider(providers, record)
          /\ taken' = [taken EXCEPT ![peer] = @ + 1]
     ELSE UNCHANGED <<providers, taken>>
  /\ UNCHANGED <<clock, held, lastHeld, sent, registry, dealt, shardIndex, value, asked, cache>>

\* AcceptStorageProviderAnnouncement: refused when it has expired.
AcceptStorageProviderAnnouncement(record) ==
  /\ record.expires >= clock
  /\ registry' = storeProvider(registry, record)
  /\ UNCHANGED <<clock, held, lastHeld, sent, bucket, providers, dealt, shardIndex, value, asked, cache, taken>>

\* Providers and the live part of StorageProviders: not expired, and with the shard.
Live(table) == {p \in Provider : table[p].expires >= clock /\ table[p].has}

\* StorageProviders: a receipt of an active deal lists its miner without a record too.
StorageProviders == Live(registry) \cup dealt

-----------------------------------------------------------------------------
\* ProviderCache.Get: what FindProviders answers at once, also what has expired since.
\* (A blacklisted hash is answered with nothing before; module StorageNode follows
\* the blacklist.)
Cached == IF cache.expiresAt >= clock THEN cache.records ELSE {}

\* A miss: the DHT answers with the value or not at all.  The peers found by
\* lookupViaProviders come without a signature and never count.
LookupViaValue ==
  /\ asked = NotAsked /\ cache.expiresAt < clock
  /\ asked' \in {{}, {value} \ {NoRecord}}
  /\ UNCHANGED <<clock, held, lastHeld, sent, bucket, providers, registry, dealt, shardIndex, value,
                 cache, taken>>

\* What counts of an answer when it arrives.
Valid(records) == {r \in records : r.expires >= clock}

\* FindProviders, the end of a miss: an empty answer, or none, is cached for less.
FindProviders ==
  /\ asked # NotAsked
  /\ cache' = [records |-> Valid(asked),
               expiresAt |-> clock + IF Valid(asked) = {} THEN negativeCacheTTL ELSE CacheTTL]
  /\ asked' = NotAsked
  /\ UNCHANGED <<clock, held, lastHeld, sent, bucket, providers, registry, dealt, shardIndex, value,
                 taken>>

\* Cleanup drops an expired entry, which Get would not return either.
Cleanup ==
  /\ cache # NoEntry /\ cache.expiresAt < clock
  /\ cache' = NoEntry
  /\ UNCHANGED <<clock, held, lastHeld, sent, bucket, providers, registry, dealt, shardIndex, value,
                 asked, taken>>

\* The three ways to find a holder share the clock, the holders and what they announce.
HoldNext == Tick \/ \E p \in Provider : Gain(p, FALSE)

GossipNext ==
  \/ HoldNext
  \/ \E p \in Provider : Lose(p) \/ AnnounceOnce(p, FALSE)
  \/ \E peer \in Peer : cleanupPeerRateLimiters(peer) \/ \E record \in sent : readLoop(record, peer)

RegistryNext ==
  \/ HoldNext
  \/ \E p \in Provider : Gain(p, TRUE) \/ Lose(p) \/ AnnounceOnce(p, FALSE)
  \/ \E record \in sent : AcceptStorageProviderAnnouncement(record)

\* A lookup does not depend on what is still held: nothing unpublishes a shard.
LookupNext ==
  \/ HoldNext
  \/ \E p \in Provider : AnnounceOnce(p, TRUE) \/ PublishAllShards(p)
  \/ LookupViaValue \/ FindProviders \/ Cleanup

DiscoveryNext == GossipNext \/ RegistryNext \/ LookupNext

DiscoverySpec == DiscoveryInit /\ [][DiscoveryNext]_discoveryVars

-----------------------------------------------------------------------------
(***************************************************************************)
(* Properties                                                              *)
(***************************************************************************)
\* A node listed as a live holder, by another storage node or by the chain, held the
\* shard within the lifetime of an announcement, in whatever order and how late
\* the announcements arrived; the chain lists without one only a node with a deal.
ListedHeldRecently ==
  /\ \A p \in Live(providers) \cup Live(registry) : lastHeld[p] >= 0 /\ clock - lastHeld[p] <= TTL
  /\ \A p \in StorageProviders : p \in held \/ clock - lastHeld[p] <= TTL

\* A lookup never answers from the cache with a record that expired longer ago than
\* an entry is kept, however late the DHT's answer came.
FoundIsFresh == \A r \in Cached : r.expires + CacheTTL >= clock

\* A peer's gossip is let through at most Burst times and once more for each unit of
\* time, also across the cleanup that forgets the peer.
GossipBounded == \A p \in Peer : taken[p] <= Burst + clock

\* Who looks for the shard is told of nodes that announced it lately, and nobody can flood
\* the network with announcements.
DiscoveryFresh == DiscoveryTypeOK /\ ListedHeldRecently /\ FoundIsFresh /\ GossipBounded
=============================================================================
