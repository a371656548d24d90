--------------------------- MODULE ProviderFetch ----------------------------
(***************************************************************************)
(* How a storage node fetches the source shard of a repair: the routes of  *)
(* the chain, the providers of the DHT and the providers of the chain are  *)
(* tried one after the other, over libp2p and HTTP, in an order ranked by  *)
(* what earlier fetches remember of each provider.                         *)
(*                                                                         *)
(* A miner is a number, in the order of the addresses.  A record that a    *)
(* miner announced names its libp2p peer; one made of a receipt names only *)
(* the endpoint.  The memory is kept by peer, or else by endpoint, so that *)
(* one miner may have two entries.  The receipt names a CID.               *)
(***************************************************************************)
EXTENDS Integers, Sequences, FiniteSets, Ordering

CONSTANTS
  Miner,                          \* the miners that may hold the shard
  Healthy,                        \* those whose health is preferred
  Registrations,                  \* the sets of records the chain may have
  Primary,                        \* the miner of the receipt, whose endpoint it names
  providerFailureCooldown,
  providerFailureCooldownThresh,
  MaxTime, MaxFetches

ASSUME FetchAssumption ==
  /\ IsFiniteSet(Miner)
  /\ Miner \subseteq Nat /\ Healthy \subseteq Miner /\ Primary \in Miner
  /\ \A records \in Registrations :
       /\ records \subseteq [miner : Miner, peer : BOOLEAN]
       /\ \A a, b \in records : a.miner = b.miner => a = b
  /\ {providerFailureCooldown, providerFailureCooldownThresh} \subseteq Nat \ {0}
  /\ MaxTime \in Nat \ {0} /\ MaxFetches \in Nat

VARIABLES
  registered,   \* the records the chain has of the shard's providers
  now,
  memory,       \* providerTransportMemoryStore.records
  phase,        \* where downloadSourceShard is
  answer,       \* the records this phase works with
  queue,        \* the attempts left of this phase
  learned,      \* the records of all phases of this fetch
  tried,        \* what this fetch has tried
  fetches,
  recent        \* the last outcomes of each key, as many as the threshold

fetchVars == <<registered, now, memory, phase, answer, queue, learned, tried, fetches, recent>>

Transport == {"libp2p", "http-block", "http-shard"}
Ended == {"idle", "fetched", "failed"}
Phase == Ended \cup {"routes", "dht p2p", "dht http", "chain p2p", "chain http"}
FetchRecord == [miner : Miner, peer : BOOLEAN]

NoMemory == [outcome |-> "none", success |-> 0, failures |-> 0, cooldown |-> 0]

FetchTypeOK ==
  /\ now \in 1..MaxTime
  /\ \A key \in FetchRecord :
       /\ memory[key].outcome \in {"none", "success", "failure"}
       /\ memory[key].success \in 0..MaxTime /\ memory[key].failures \in Nat
       /\ memory[key].cooldown \in 0..(MaxTime + providerFailureCooldown)
  /\ phase \in Phase
  /\ registered \subseteq FetchRecord /\ answer \subseteq learned /\ learned \subseteq FetchRecord
  /\ \A i \in 1..Len(queue) : queue[i] \in FetchRecord \X Transport
  /\ phase \in Ended => queue = <<>>
  /\ tried \subseteq Miner \X Transport
  /\ fetches \in 0..MaxFetches

FetchInit ==
  /\ registered \in Registrations
  /\ now = 1
  /\ memory = [key \in FetchRecord |-> NoMemory]
  /\ phase = "idle" /\ queue = <<>> /\ answer = {} /\ learned = {} /\ tried = {}
  /\ fetches = 0
  /\ recent = [key \in FetchRecord |-> <<>>]

-----------------------------------------------------------------------------
(***************************************************************************)
(* The order of the providers                                              *)
(***************************************************************************)
\* providerMemoryKey: the peer, or else the endpoint.
providerMemoryKey(record) == record

Cooling(record) == memory[providerMemoryKey(record)].cooldown > now
Succeeded(record) == memory[providerMemoryKey(record)].outcome = "success"

\* One clause of the comparison: decides when the two differ.
First(x, y, otherwise) == IF x # y THEN x ELSE otherwise

\* Between records the memory does not tell apart: preferred health, then a libp2p
\* peer, health and a live record, then the address.
BeforeUnknown(a, b) ==
  First(a.miner \in Healthy, b.miner \in Healthy, First(a.peer, b.peer, a.miner < b.miner))

\* The comparison of RankProvidersForBlockFetch.
Before(a, b) ==
  LET left == memory[providerMemoryKey(a)]
      right == memory[providerMemoryKey(b)]
  IN  First(~Cooling(a), ~Cooling(b),
        IF Cooling(a) /\ left.cooldown # right.cooldown THEN left.cooldown < right.cooldown
        ELSE First(Succeeded(a), Succeeded(b),
          IF Succeeded(a) /\ left.success # right.success THEN left.success > right.success
          ELSE IF left.failures # right.failures THEN left.failures < right.failures
          ELSE BeforeUnknown(a, b)))

RankProvidersForBlockFetch(records) ==
  Ordered(records, {p \in records \X records : Before(p[1], p[2])})

\* The order of StorageRoutes, made by the chain: health, a live record, the
\* transport, the address.
Priority(transport) == CASE transport = "libp2p" -> 0 [] transport = "http-block" -> 1 [] OTHER -> 2

RouteBefore(a, b) ==
  First(a[1].miner \in Healthy, b[1].miner \in Healthy,
    First(a[1].peer, b[1].peer,
      IF a[2] # b[2] THEN Priority(a[2]) < Priority(b[2]) ELSE a[1].miner < b[1].miner))

StorageRoutes(records) ==
  LET routes == {r \in records \X Transport : r[2] = "libp2p" => r[1].peer}
  IN  Ordered(routes, {p \in routes \X routes : RouteBefore(p[1], p[2])})

\* The libp2p attempts of a phase; what is passed over leaves the order of the others.
P2PAttempts(records) ==
  LET ranked == RankProvidersForBlockFetch({r \in records : r.peer})
  IN  [i \in 1..Len(ranked) |-> <<ranked[i], "libp2p">>]

\* ResolveProviderRecordForEndpoint: the record listed for the endpoint, or a bare one.
ResolveProviderRecordForEndpoint(miner, records) ==
  IF \E r \in records : r.miner = miner THEN CHOOSE r \in records : r.miner = miner
  ELSE [miner |-> miner, peer |-> FALSE]

\* Mutated: only the listed ones.
PreferredProviderEndpoints_listed(records) == RankProvidersForBlockFetch(records)

\* PreferredProviderEndpoints: that of the receipt first, then the listed ones as they
\* rank now.
PreferredProviderEndpoints(records) ==
  <<ResolveProviderRecordForEndpoint(Primary, records)>> \o
    RankProvidersForBlockFetch({r \in records : r.miner # Primary})

\* Each endpoint is asked for the block, then for the shard.
HTTPAttempts(records) ==
  LET endpoints == PreferredProviderEndpoints(records)
  IN  [i \in 1..(2 * Len(endpoints)) |->
        <<endpoints[(i + 1) \div 2], IF i % 2 = 1 THEN "http-block" ELSE "http-shard">>]

-----------------------------------------------------------------------------
(***************************************************************************)
(* downloadSourceShard                                                     *)
(***************************************************************************)
\* The chain answers or not; the DHT, which keeps the last announcement, with one
\* record or none.
ChainAnswers == {{}, registered}
DHTAnswers == {{}} \cup {{r} : r \in {q \in FetchRecord : q.peer}}

Enter(next, records, attempts) ==
  /\ phase' = next
  /\ answer' = records
  /\ queue' = attempts
  /\ UNCHANGED <<registered, now, memory, recent>>

\* Phase 1: the routes of the chain; when it answers none, the queue is empty.
Begin ==
  /\ phase \in Ended
  /\ fetches < MaxFetches
  /\ fetches' = fetches + 1
  /\ tried' = {}
  /\ \E records \in ChainAnswers :
       Enter("routes", records, StorageRoutes(records)) /\ learned' = records

\* Phase 2: fetchShardViaDHT, which does nothing when the DHT knows no provider.
FetchShardViaDHT ==
  /\ phase = "routes" /\ queue = <<>>
  /\ \E records \in DHTAnswers :
       /\ Enter("dht p2p", records, P2PAttempts(records))
       /\ learned' = learned \cup records
  /\ UNCHANGED <<tried, fetches>>

FetchShardViaDHT_http ==
  /\ phase = "dht p2p" /\ queue = <<>>
  /\ Enter("dht http", answer, IF answer = {} THEN <<>> ELSE HTTPAttempts(answer))
  /\ UNCHANGED <<learned, tried, fetches>>

\* Phase 3: the providers of the chain, which is asked again.
ChainProviders ==
  /\ phase = "dht http" /\ queue = <<>>
  /\ \E records \in ChainAnswers :
       /\ Enter("chain p2p", records, P2PAttempts(records))
       /\ learned' = learned \cup records
  /\ UNCHANGED <<tried, fetches>>

ChainProviders_http ==
  /\ phase = "chain p2p" /\ queue = <<>>
  /\ Enter("chain http", answer, HTTPAttempts(answer))
  /\ UNCHANGED <<learned, tried, fetches>>

\* Every attempt has failed.
FetchFails ==
  /\ phase = "chain http" /\ queue = <<>>
  /\ Enter("failed", {}, <<>>)
  /\ UNCHANGED <<learned, tried, fetches>>

\* Mutated: the failures before a success still count.
RememberProviderFetchSuccess_keeping(known) ==
  [known EXCEPT !.outcome = "success", !.success = now, !.cooldown = 0]

RememberProviderFetchSuccess(known) ==
  [known EXCEPT !.outcome = "success", !.success = now, !.failures = 0, !.cooldown = 0]

RememberProviderFetchFailure(known) ==
  [known EXCEPT !.outcome = "failure", !.failures = @ + 1,
     !.cooldown = IF known.failures + 1 >= providerFailureCooldownThresh
                  THEN now + providerFailureCooldown ELSE @]

\* The next attempt of the phase.  The bytes are taken as they come: whether they
\* have the hash of the receipt is asked by the caller, when the provider is already
\* remembered for its success.
Attempt(success) ==
  LET record == Head(queue)[1]
      key == providerMemoryKey(record)
      keep == SubSeq(<<success>> \o recent[key], 1, providerFailureCooldownThresh)
  IN  /\ queue # <<>>
      /\ memory' = [memory EXCEPT ![key] =
           IF success THEN RememberProviderFetchSuccess(@) ELSE RememberProviderFetchFailure(@)]
      /\ recent' = [recent EXCEPT ![key] =
           IF Len(@) < providerFailureCooldownThresh THEN <<success>> \o @ ELSE keep]
      /\ tried' = tried \cup {<<record.miner, Head(queue)[2]>>}
      /\ queue' = IF success THEN <<>> ELSE Tail(queue)
      /\ phase' = IF success THEN "fetched" ELSE phase
      /\ answer' = IF success THEN {} ELSE answer
      /\ UNCHANGED <<registered, now, learned, fetches>>

FetchTick ==
  /\ now < MaxTime
  /\ now' = now + 1
  /\ UNCHANGED <<registered, memory, phase, answer, queue, learned, tried, fetches, recent>>

FetchNext ==
  \/ Begin \/ FetchShardViaDHT \/ FetchShardViaDHT_http \/ ChainProviders \/ ChainProviders_http
  \/ FetchFails \/ Attempt(TRUE) \/ Attempt(FALSE) \/ FetchTick

FetchSpec == FetchInit /\ [][FetchNext]_fetchVars

-----------------------------------------------------------------------------
(***************************************************************************)
(* Properties                                                              *)
(***************************************************************************)
\* Whatever the memory holds, the comparison orders the known providers: of two miners one
\* goes before the other, never both, and it is transitive, so that sort.SliceStable
\* gives the same order from every order of the answer.
RankingConsistent ==
  LET known == learned \cup registered
  IN  \A a, b \in known : a.miner # b.miner =>
        /\ Before(a, b) # Before(b, a)
        /\ \A c \in known :
             c.miner \notin {a.miner, b.miner} /\ Before(a, b) /\ Before(b, c) => Before(a, c)

\* A fetch fails only when the endpoint of the receipt and every provider that the
\* chain or the DHT named has been tried by every transport it offers, also the ones
\* that are cooling down.
TriedEverything ==
  /\ FetchTypeOK
  /\ phase = "failed" =>
       \A r \in learned \cup {[miner |-> Primary, peer |-> FALSE]}, t \in Transport :
         (t = "libp2p" => r.peer) => <<r.miner, t>> \in tried

\* A provider is put at the end only while its last attempts failed, as many as the
\* threshold: a success in between starts the count again.
CooldownEarned ==
  \A key \in FetchRecord :
    Cooling(key) => recent[key] = [i \in 1..providerFailureCooldownThresh |-> FALSE]

\* The memory of earlier fetches ranks providers soundly: in one order, and only those
\* behind that failed to the last.
RankingSound == RankingConsistent /\ CooldownEarned
=============================================================================
