--------------------------- MODULE MetadataCache ---------------------------
(***************************************************************************)
(* The read-through caching of deployment metadata (storage/deployments.ts *)
(* of the core Worker): deployment records and static site manifests live  *)
(* in the KV namespace DEPLOYMENTS_KV and are cached twice, in a Map of    *)
(* every isolate and in the edge cache (caches.default).  Each kind has a  *)
(* Map and a Ttl of its own and the same code: this is one of the two.     *)
(*                                                                         *)
(* A load looks in memory, then in the edge cache, then in KV, and fills   *)
(* the layers above the one that answered; a store puts to KV and then     *)
(* fills both caches.  Nothing invalidates the other isolates, and every   *)
(* await lets any other call run: a load that read KV before a store may   *)
(* fill the caches after it.  The question is how long an overwritten      *)
(* value can still be answered.                                            *)
(*                                                                         *)
(* KV is modelled as an atomic map (external).  Every put of a key gets    *)
(* the next number, so a value stands for one particular put; 0 is a key   *)
(* that was never put, which the loaders cache like a value (null).        *)
(***************************************************************************)
EXTENDS Integers, Sequences, SequencesExt, FiniteSets

CONSTANTS
  Keys,        \* the KV keys of one loader: deployment records, or manifests
  Isolates,    \* Worker isolates, each with its own Map for that loader
  Procs,       \* calls of loadX / storeX in flight
  NoEntry,     \* no cache entry
  NoAnswer,    \* the call has returned nothing yet
  Ttl,         \* DEPLOYMENT_RECORD_ or STATIC_MANIFEST_CACHE_TTL_MS
  Latency,     \* longest time between an external effect and the next await
  Capacity,    \* MAX_RUNTIME_CACHE_ENTRIES
  MaxClock,    \* bound of the clock
  MaxPuts      \* bound of the puts of one key

ASSUME TtlAssumption == Ttl \in Nat \ {0}
ASSUME LatencyAssumption == Latency \in Nat
ASSUME CapacityAssumption == Capacity \in Nat \ {0}
ASSUME NoEntryAssumption == NoEntry \notin [value : Nat, expires : Nat]

VARIABLES
  now,      \* Date.now()
  kv,       \* kv[k]: number of the value stored in KV
  retired,  \* history: retired[k][n] is when value n - 1 was overwritten
  memory,   \* memory[i][k]: entry of isolate i's Map
  order,    \* order[i]: keys of isolate i's Map in insertion order
  edge,     \* edge[k]: entry of the edge cache
  call,     \* call[p]: the call in flight
  answer    \* history: answer[p] is what p has returned at this moment

vars == <<now, kv, retired, memory, order, edge, call, answer>>

Entry == [value : Nat, expires : Nat]

(***************************************************************************)
(* Where a call in flight is suspended:                                    *)
(*   match   waiting for the edge cache's answer                           *)
(*   get     waiting for KV's answer                                       *)
(*   matched the edge cache has answered value                             *)
(*   fetched KV has answered value, or accepted the put of value           *)
(*   filled  memory is filled, waiting for the edge cache's put            *)
(* since is when the value was last handed on; load tells a load, whose    *)
(* caller gets the value, from a store.                                    *)
(***************************************************************************)
Asking  == [pc : {"match", "get"}, isolate : Isolates, key : Keys]
Holding == [pc : {"matched", "fetched", "filled"}, isolate : Isolates,
            key : Keys, value : Nat, since : Nat, load : BOOLEAN]
Idle    == [pc |-> "idle"]

Init ==
  /\ now = 0
  /\ kv = [k \in Keys |-> 0]
  /\ retired = [k \in Keys |-> <<>>]
  /\ memory = [i \in Isolates |-> [k \in Keys |-> NoEntry]]
  /\ order = [i \in Isolates |-> <<>>]
  /\ edge = [k \in Keys |-> NoEntry]
  /\ call = [p \in Procs |-> Idle]
  /\ answer = [p \in Procs |-> NoAnswer]

-----------------------------------------------------------------------------
(* The isolate's Map *)

Fresh(e) == e # NoEntry /\ now < e.expires

\* Mutant: the Map is full only when it is over its capacity.
WriteMemoryOneMore(i, k, v) ==
  LET entry == [value |-> v, expires |-> now + Ttl]
      full  == Len(order[i]) > Capacity /\ memory[i][k] = NoEntry
      kept  == IF full THEN Tail(order[i]) ELSE order[i]
  IN
  /\ memory' = [memory EXCEPT ![i] =
       [x \in Keys |-> IF x = k THEN entry
                       ELSE IF full /\ x = Head(order[i]) THEN NoEntry
                       ELSE @[x]]]
  /\ order' = [order EXCEPT ![i] =
       IF memory[i][k] = NoEntry THEN Append(kept, k) ELSE kept]

(***************************************************************************)
(* writeRuntimeCache: a full Map makes room for a new key by dropping its  *)
(* oldest one; setting a key it has keeps the key's place.                 *)
(***************************************************************************)
WriteMemory(i, k, v) ==
  LET entry == [value |-> v, expires |-> now + Ttl]
      full  == Len(order[i]) >= Capacity /\ memory[i][k] = NoEntry
      oldest == Head(order[i])
  IN
  \/ /\ full
     /\ memory' = [memory EXCEPT ![i] = [[@ EXCEPT ![oldest] = NoEntry]
                                            EXCEPT ![k] = entry]]
     /\ order' = [order EXCEPT ![i] = Append(Tail(@), k)]
  \/ /\ ~full
     /\ memory' = [memory EXCEPT ![i][k] = entry]
     /\ order' = IF memory[i][k] = NoEntry
                 THEN [order EXCEPT ![i] = Append(@, k)]
                 ELSE order

(***************************************************************************)
(* readRuntimeCache on a miss: an expired entry is deleted.                *)
(***************************************************************************)
DropExpired(i, k) ==
  /\ ~ Fresh(memory[i][k])
  /\ \/ /\ memory[i][k] = NoEntry
        /\ UNCHANGED <<memory, order>>
     \/ /\ memory[i][k] # NoEntry
        /\ memory' = [memory EXCEPT ![i][k] = NoEntry]
        /\ \E n \in DOMAIN order[i] :
             /\ order[i][n] = k
             /\ order' = [order EXCEPT ![i] = RemoveAt(@, n)]

-----------------------------------------------------------------------------
(* Calls *)

Return(p, k, v) == answer' = [answer EXCEPT ![p] = [key |-> k, value |-> v]]

\* Mutant: a memory entry is returned whatever its age.
LoadFromMemoryAnyAge(p, i, k) ==
  /\ call[p].pc = "idle"
  /\ memory[i][k] # NoEntry
  /\ Return(p, k, memory[i][k].value)
  /\ UNCHANGED <<now, kv, retired, memory, order, edge, call>>

(***************************************************************************)
(* loadX: a fresh memory entry is returned before anything is awaited.     *)
(***************************************************************************)
LoadFromMemory(p, i, k) ==
  /\ call[p].pc = "idle"
  /\ Fresh(memory[i][k])
  /\ Return(p, k, memory[i][k].value)
  /\ UNCHANGED <<now, kv, retired, memory, order, edge, call>>

LoadMissesMemory(p, i, k) ==
  /\ call[p].pc = "idle"
  /\ DropExpired(i, k)
  /\ call' = [call EXCEPT ![p] = [pc |-> "match", isolate |-> i, key |-> k]]
  /\ UNCHANGED <<now, kv, retired, edge, answer>>

(***************************************************************************)
(* readMetadataEdgeCache: an entry counts until its max-age; a missing     *)
(* one and a failing cache are both a miss.                                *)
(***************************************************************************)
EdgeHit(p) ==
  /\ call[p].pc = "match"
  /\ Fresh(edge[call[p].key])
  /\ call' = [call EXCEPT ![p] =
       [pc |-> "matched", isolate |-> call[p].isolate, key |-> call[p].key,
        value |-> edge[call[p].key].value, since |-> now, load |-> TRUE]]
  /\ UNCHANGED <<now, kv, retired, memory, order, edge, answer>>

EdgeMiss(p) ==
  /\ call[p].pc = "match"
  /\ call' = [call EXCEPT ![p].pc = "get"]
  /\ UNCHANGED <<now, kv, retired, memory, order, edge, answer>>

(***************************************************************************)
(* The load continues with the edge cache's answer: fill memory, return.   *)
(***************************************************************************)
FillFromEdge(p) ==
  /\ call[p].pc = "matched"
  /\ WriteMemory(call[p].isolate, call[p].key, call[p].value)
  /\ Return(p, call[p].key, call[p].value)
  /\ call' = [call EXCEPT ![p] = Idle]
  /\ UNCHANGED <<now, kv, retired, edge>>

KvGet(p) ==
  /\ call[p].pc = "get"
  /\ call' = [call EXCEPT ![p] =
       [pc |-> "fetched", isolate |-> call[p].isolate, key |-> call[p].key,
        value |-> kv[call[p].key], since |-> now, load |-> TRUE]]
  /\ UNCHANGED <<now, kv, retired, memory, order, edge, answer>>

(***************************************************************************)
(* KV.get rejects, or a put does after it took effect (or another of the   *)
(* batch storeDeploymentRecord awaits): the call throws, nothing is cached.*)
(***************************************************************************)
KvFails(p) ==
  /\ \/ call[p].pc = "get"
     \/ call[p].pc = "fetched" /\ ~ call[p].load
  /\ call' = [call EXCEPT ![p] = Idle]
  /\ UNCHANGED <<now, kv, retired, memory, order, edge, answer>>

(***************************************************************************)
(* storeX: the put takes effect; the call continues later.                 *)
(***************************************************************************)
KvPut(p, i, k) ==
  /\ call[p].pc = "idle"
  /\ kv[k] < MaxPuts
  /\ kv' = [kv EXCEPT ![k] = @ + 1]
  /\ retired' = [retired EXCEPT ![k] = Append(@, now)]
  /\ call' = [call EXCEPT ![p] =
       [pc |-> "fetched", isolate |-> i, key |-> k,
        value |-> kv[k] + 1, since |-> now, load |-> FALSE]]
  /\ UNCHANGED <<now, memory, order, edge, answer>>

(***************************************************************************)
(* Loads and stores go on alike: fill memory, then await the edge put.     *)
(***************************************************************************)
FillMemory(p) ==
  /\ call[p].pc = "fetched"
  /\ WriteMemory(call[p].isolate, call[p].key, call[p].value)
  /\ call' = [call EXCEPT ![p].pc = "filled", ![p].since = now]
  /\ UNCHANGED <<now, kv, retired, edge, answer>>

(***************************************************************************)
(* writeMetadataEdgeCache, then the return: the put happens, or fails      *)
(* and is ignored.                                                         *)
(***************************************************************************)
FillEdge(p) ==
  /\ call[p].pc = "filled"
  /\ \/ edge' = [edge EXCEPT ![call[p].key] =
           [value |-> call[p].value, expires |-> now + Ttl]]
     \/ UNCHANGED edge
  /\ answer' = IF call[p].load
               THEN [answer EXCEPT ![p] = [key |-> call[p].key,
                                           value |-> call[p].value]]
               ELSE answer
  /\ call' = [call EXCEPT ![p] = Idle]
  /\ UNCHANGED <<now, kv, retired, memory, order>>

-----------------------------------------------------------------------------
(* The environment *)

(***************************************************************************)
(* The platform discards an isolate with its Map and the calls in it.      *)
(***************************************************************************)
Recycle(i) ==
  LET killed == {p \in Procs : call[p].pc # "idle" /\ call[p].isolate = i}
  IN
  /\ memory' = [memory EXCEPT ![i] = [k \in Keys |-> NoEntry]]
  /\ order' = [order EXCEPT ![i] = <<>>]
  /\ call' = [p \in Procs |-> IF p \in killed THEN Idle ELSE call[p]]
  /\ UNCHANGED <<now, kv, retired, edge, answer>>

(***************************************************************************)
(* Time passes.  A call that holds a value continues within Latency.       *)
(***************************************************************************)
Tick ==
  /\ now < MaxClock
  /\ \A p \in Procs : call[p].pc \in {"matched", "fetched", "filled"} =>
                         now < call[p].since + Latency
  /\ now' = now + 1
  /\ answer' = [p \in Procs |-> NoAnswer]
  /\ UNCHANGED <<kv, retired, memory, order, edge, call>>

CallStep(p) ==
  \/ EdgeHit(p)
  \/ EdgeMiss(p)
  \/ FillFromEdge(p)
  \/ KvGet(p)
  \/ KvFails(p)
  \/ FillMemory(p)
  \/ FillEdge(p)

Next ==
  \/ \E p \in Procs, i \in Isolates, k \in Keys :
       \/ LoadFromMemory(p, i, k)
       \/ LoadMissesMemory(p, i, k)
       \/ KvPut(p, i, k)
  \/ \E p \in Procs : CallStep(p)
  \/ \E i \in Isolates : Recycle(i)
  \/ Tick

Spec == Init /\ [][Next]_vars

-----------------------------------------------------------------------------
(* Properties *)

TypeOK ==
  /\ now \in Nat
  /\ kv \in [Keys -> Nat]
  /\ retired \in [Keys -> Seq(Nat)]
  /\ memory \in [Isolates -> [Keys -> Entry \cup {NoEntry}]]
  /\ order \in [Isolates -> Seq(Keys)]
  /\ edge \in [Keys -> Entry \cup {NoEntry}]
  /\ call \in [Procs -> Asking \cup Holding \cup {Idle}]

(***************************************************************************)
(* The longest a value can be answered after it was overwritten: a KV      *)
(* answer waits for its continuation, waits again for the edge put, lives  *)
(* there for a Ttl, waits for the continuation of an edge hit and lives in *)
(* memory for another Ttl; an entry is used strictly before its expiry,    *)
(* twice.                                                                  *)
(***************************************************************************)
StalenessBound == [k \in Keys |-> 2 * Ttl + 3 * Latency - 2]

Register == INSTANCE StaleRegister WITH Bound <- StalenessBound

(***************************************************************************)
(* How old each copy of a value can be, by where it is: the reason why     *)
(* answers are bounded, and an invariant that every step preserves.        *)
(***************************************************************************)
Copied(k, v, t, age) == v \in 0..kv[k] /\ t <= Register!LiveUntil(k, v) + age

HistoryOrdered ==
  \A k \in Keys : /\ Len(retired[k]) = kv[k]
                  /\ \A n \in DOMAIN retired[k] : retired[k][n] <= now

MemoryAge ==
  \A i \in Isolates, k \in Keys : memory[i][k] # NoEntry =>
    Copied(k, memory[i][k].value, memory[i][k].expires,
           2 * Ttl + 3 * Latency - 1)

EdgeAge ==
  \A k \in Keys : edge[k] # NoEntry =>
    Copied(k, edge[k].value, edge[k].expires, Ttl + 2 * Latency)

PcAge(pc) ==
  IF pc = "fetched" THEN 0
  ELSE IF pc = "filled" THEN Latency
  ELSE Ttl + 2 * Latency - 1

CallAge ==
  \A p \in Procs : call[p].pc \in {"fetched", "filled", "matched"} =>
    /\ call[p].since <= now
    /\ now <= call[p].since + Latency
    /\ Copied(call[p].key, call[p].value, call[p].since,
              PcAge(call[p].pc))

(***************************************************************************)
(* Every copy of a value, cached or held by a suspended call, is younger   *)
(* than the waits and lifetimes it has been through.  A slow load that     *)
(* fills the caches after a newer store is the copy that tests it.         *)
(***************************************************************************)
AgesBounded == HistoryOrdered /\ MemoryAge /\ EdgeAge /\ CallAge

(***************************************************************************)
(* The comment beside deleteMetadataEdgeCache relies on this: "short TTLs  *)
(* prevent long-lived stale routes".  Whatever the interleaving of loads,  *)
(* stores, failing caches and discarded isolates, the two cache layers     *)
(* implement a register whose answers are at most StalenessBound old.      *)
(***************************************************************************)
ImplementsStaleRegister == Register!Spec

(***************************************************************************)
(* MAX_RUNTIME_CACHE_ENTRIES: no isolate's Map outgrows its capacity, and  *)
(* its insertion order lists exactly the keys it holds, each of them once, *)
(* so that the entry evicted is always one that is there.                  *)
(***************************************************************************)
MapBounded ==
  \A i \in Isolates :
    LET held == {k \in Keys : memory[i][k] # NoEntry}
    IN  /\ Cardinality(held) <= Capacity
        /\ {order[i][n] : n \in DOMAIN order[i]} = held
        /\ Len(order[i]) = Cardinality(held)
=============================================================================
