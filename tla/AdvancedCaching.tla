---------------------------- MODULE AdvancedCaching ----------------------------
(***************************************************************************)
(* frontend/lib/services/AdvancedCachingService.ts: a cache of two levels, *)
(* a Map in memory with LRU eviction and the table cacheEntries of         *)
(* IndexedDB.  Callers do not wait for each other; between two awaits of a *)
(* call any step of another may run.                                       *)
(*                                                                         *)
(* A request to the table is one step when it is issued: requests of one   *)
(* connection whose transactions overlap take effect in the order they     *)
(* were issued.  What a read found is delivered later.  A request may fail;*)
(* the service then logs a warning and goes on.                            *)
(***************************************************************************)
EXTENDS Integers, SequencesExt

CONSTANTS
  Caller,     \* calls that can be in progress at the same time
  Key, Value,
  None,       \* no value
  Size,       \* the size of each value
  MaxMemory,  \* config.maxMemorySize, in the unit of Size
  TTL,        \* the times to live the callers pass
  MaxTime     \* bound: the clock stops here

ASSUME CacheAssumption ==
  /\ None \notin Key \cup Value
  /\ Size \in [Value -> Nat] /\ MaxMemory \in Nat
  /\ TTL \subseteq Nat /\ MaxTime \in Nat

\* OverrunIsBounded counts callers and names the largest value.
ASSUME OverrunAssumption ==
  IsFiniteSet(Caller) /\ \E v \in Value : \A other \in Value : Size[other] <= Size[v]

VARIABLES
  memoryCache, accessOrder,   \* accessOrder lists the keys, the oldest access first
  cacheEntries,               \* the table
  call,                       \* the call each caller is in
  now,                        \* Date.now()
  latest,                     \* history: what was set last for a key
  suspect                     \* history: keys whose calls overlapped or failed

cachingVars == <<memoryCache, accessOrder, cacheEntries, call, now, latest, suspect>>

-----------------------------------------------------------------------------
\* origin is a history field: the timestamp an entry had before it was promoted.
Entry == [value : Value, timestamp : Nat, ttl : TTL, origin : Nat]
NoEntry == [value |-> None, timestamp |-> 0, ttl |-> 0, origin |-> 0]
NewEntry(value, ttl) ==
  [value |-> value, timestamp |-> now, ttl |-> ttl, origin |-> now]

IsValidEntry(entry) == entry # NoEntry /\ now - entry.timestamp < entry.ttl

Empty == [k \in Key |-> NoEntry]
CachedKeys == {k \in Key : memoryCache[k] # NoEntry}

Idle == [pc |-> "idle", key |-> None, entry |-> NoEntry]
Reading(key, found) == [pc |-> "reading", key |-> key, entry |-> found]
Promoting(key, entry) == [pc |-> "promoting", key |-> key, entry |-> entry]
Setting(key, entry) == [pc |-> "setting", key |-> key, entry |-> entry]
Storing(key, entry) == [pc |-> "storing", key |-> key, entry |-> entry]

\* A set that has not written both levels.
BeingSet(key) ==
  {c \in Caller : call[c].key = key /\ call[c].pc \in {"setting", "storing"}}
InProgress(key) == {c \in Caller : call[c].key = key}

-----------------------------------------------------------------------------
\* accessOrder.delete(key)
Without(order, key) ==
  IF key \in Range(order)
  THEN RemoveAt(order, CHOOSE i \in DOMAIN order : order[i] = key)
  ELSE order

\* accessOrder.set(key, ++accessCounter)
Touched(order, key) == Append(Without(order, key), key)

UsageOf(keys) == SumFunction([k \in keys |-> Size[memoryCache[k].value]])
Usage == UsageOf(CachedKeys)

\* What is in memory after the n least recent accesses are evicted.
Left(n) == {accessOrder[i] : i \in (n + 1)..Len(accessOrder)}
Keep(n) ==
  /\ accessOrder' = SubSeq(accessOrder, n + 1, Len(accessOrder))
  /\ memoryCache' = [k \in Key |-> IF k \in Left(n) THEN memoryCache[k] ELSE NoEntry]

\* Mutant: the entry to come is not counted.
EvictIgnoringRequired(limit, required) ==
  LET Fits(n) == UsageOf(Left(n)) <= limit
  IN  \E n \in 0..Len(accessOrder) :
        /\ n = Len(accessOrder) \/ Fits(n)
        /\ \A fewer \in 0..(n - 1) : ~Fits(fewer)
        /\ Keep(n)

\* The loop of ensureMemoryCapacity and performEmergencyCleanup: the least recent go,
\* until what is left and the entry to come fit, or nothing is left.
Evict(limit, required) ==
  LET Fits(n) == UsageOf(Left(n)) + required <= limit
  IN  \E n \in 0..Len(accessOrder) :
        /\ n = Len(accessOrder) \/ Fits(n)
        /\ \A fewer \in 0..(n - 1) : ~Fits(fewer)
        /\ Keep(n)

EnsureMemoryCapacity(value) == Evict(MaxMemory, Size[value])

Go(caller, next) == call' = [call EXCEPT ![caller] = next]

-----------------------------------------------------------------------------
\* get: a valid entry in memory is the answer, and its access is noted.
GetFromMemory(caller, key) ==
  /\ call[caller] = Idle
  /\ IsValidEntry(memoryCache[key])
  /\ accessOrder' = Touched(accessOrder, key)
  /\ UNCHANGED <<memoryCache, cacheEntries, call, now, latest, suspect>>

\* Otherwise the table is asked.  (A failed read finds nothing.)
GetFromDatabase(caller, key) ==
  /\ call[caller] = Idle
  /\ ~IsValidEntry(memoryCache[key])
  /\ \E found \in {cacheEntries[key], NoEntry} : Go(caller, Reading(key, found))
  /\ suspect' = IF BeingSet(key) = {} THEN suspect ELSE suspect \cup {key}
  /\ UNCHANGED <<memoryCache, accessOrder, cacheEntries, now, latest>>

\* What it found is promoted to memory, if it is still valid, or is a miss.
GetDelivered(caller) ==
  LET key == call[caller].key
      found == call[caller].entry
  IN  /\ call[caller].pc = "reading"
      /\ IF IsValidEntry(found)
         THEN /\ EnsureMemoryCapacity(found.value)
              /\ Go(caller, Promoting(key, [found EXCEPT !.timestamp = now]))
         ELSE Go(caller, Idle) /\ UNCHANGED <<memoryCache, accessOrder>>
      /\ UNCHANGED <<cacheEntries, now, latest, suspect>>

\* set: room is made first; the entry goes to memory, then to the table.
BeginSet(caller, key, value, ttl) ==
  /\ call[caller] = Idle
  /\ EnsureMemoryCapacity(value)
  /\ Go(caller, Setting(key, NewEntry(value, ttl)))
  /\ latest' = [latest EXCEPT ![key] = value]
  /\ suspect' = IF InProgress(key) = {} THEN suspect \ {key} ELSE suspect \cup {key}
  /\ UNCHANGED <<cacheEntries, now>>

\* Mutant: the key is added to the order again.
InsertAgain(caller) ==
  LET key == call[caller].key
      entry == call[caller].entry
  IN  /\ call[caller].pc \in {"promoting", "setting"}
      /\ memoryCache' = [memoryCache EXCEPT ![key] = entry]
      /\ accessOrder' = Append(accessOrder, key)
      /\ Go(caller, IF call[caller].pc = "setting" THEN Storing(key, entry) ELSE Idle)
      /\ UNCHANGED <<cacheEntries, now, latest, suspect>>

\* Mutant: a promotion is written back to the table.
InsertBoth(caller) ==
  LET key == call[caller].key
      entry == call[caller].entry
  IN  /\ call[caller].pc \in {"promoting", "setting"}
      /\ memoryCache' = [memoryCache EXCEPT ![key] = entry]
      /\ cacheEntries' = [cacheEntries EXCEPT ![key] = entry]
      /\ accessOrder' = Touched(accessOrder, key)
      /\ Go(caller, Idle)
      /\ UNCHANGED <<now, latest, suspect>>

\* setMemoryCache after its await.
Insert(caller) ==
  LET key == call[caller].key
      entry == call[caller].entry
  IN  /\ call[caller].pc \in {"promoting", "setting"}
      /\ memoryCache' = [memoryCache EXCEPT ![key] = entry]
      /\ accessOrder' = Touched(accessOrder, key)
      /\ Go(caller, IF call[caller].pc = "setting" THEN Storing(key, entry) ELSE Idle)
      /\ UNCHANGED <<cacheEntries, now, latest, suspect>>

\* setIndexedDBCache, which set does not wait for.
SetIndexedDBCache(caller) ==
  LET key == call[caller].key
      entry == call[caller].entry
  IN  /\ call[caller].pc = "storing"
      /\ \/ /\ cacheEntries' = [cacheEntries EXCEPT ![key] = NewEntry(entry.value, entry.ttl)]
            /\ UNCHANGED suspect
         \/ suspect' = suspect \cup {key} /\ UNCHANGED cacheEntries
      /\ Go(caller, Idle)
      /\ UNCHANGED <<memoryCache, accessOrder, now, latest>>

\* Mutant: the order keeps the keys.
ForgetKeepingOrder(keys, order) ==
  /\ memoryCache' = [k \in Key |-> IF k \in keys THEN NoEntry ELSE memoryCache[k]]
  /\ latest' = [k \in Key |-> IF k \in keys THEN None ELSE latest[k]]
  /\ \/ /\ cacheEntries' = [k \in Key |-> IF k \in keys THEN NoEntry ELSE cacheEntries[k]]
        /\ suspect' = (suspect \ keys) \cup {k \in keys : InProgress(k) # {}}
     \/ suspect' = suspect \cup keys /\ UNCHANGED cacheEntries
  /\ UNCHANGED <<accessOrder, call, now>>

\* Mutant: the table keeps the entry.
ForgetInMemory(keys, order) ==
  /\ memoryCache' = [k \in Key |-> IF k \in keys THEN NoEntry ELSE memoryCache[k]]
  /\ accessOrder' = order
  /\ latest' = [k \in Key |-> IF k \in keys THEN None ELSE latest[k]]
  /\ suspect' = (suspect \ keys) \cup {k \in keys : InProgress(k) # {}}
  /\ UNCHANGED <<cacheEntries, call, now>>

\* delete and clear: memory at once, leaving this order, then the table.
Forget(keys, order) ==
  /\ memoryCache' = [k \in Key |-> IF k \in keys THEN NoEntry ELSE memoryCache[k]]
  /\ accessOrder' = order
  /\ latest' = [k \in Key |-> IF k \in keys THEN None ELSE latest[k]]
  /\ \/ /\ cacheEntries' = [k \in Key |-> IF k \in keys THEN NoEntry ELSE cacheEntries[k]]
        /\ suspect' = (suspect \ keys) \cup {k \in keys : InProgress(k) # {}}
     \/ suspect' = suspect \cup keys /\ UNCHANGED cacheEntries
  /\ UNCHANGED <<call, now>>

Delete(key) == Forget({key}, Without(accessOrder, key))
Clear == Forget(Key, <<>>)

\* The timer that watches the heap.
PerformEmergencyCleanup ==
  /\ Evict(MaxMemory \div 2, 0)
  /\ UNCHANGED <<cacheEntries, call, now, latest, suspect>>

Tick ==
  /\ now < MaxTime
  /\ now' = now + 1
  /\ UNCHANGED <<memoryCache, accessOrder, cacheEntries, call, latest, suspect>>

\* The page is loaded again: the table is all that stays.
Reload ==
  /\ memoryCache' = Empty
  /\ accessOrder' = <<>>
  /\ call' = [c \in Caller |-> Idle]
  /\ suspect' = suspect \cup {k \in Key : BeingSet(k) # {}}
  /\ UNCHANGED <<cacheEntries, now, latest>>

-----------------------------------------------------------------------------
Init ==
  /\ memoryCache = Empty
  /\ accessOrder = <<>>
  /\ cacheEntries = Empty
  /\ call = [c \in Caller |-> Idle]
  /\ now = 0
  /\ latest = [k \in Key |-> None]
  /\ suspect = {}

CallNext(caller) ==
  \/ \E key \in Key :
       \/ GetFromMemory(caller, key) \/ GetFromDatabase(caller, key)
       \/ \E value \in Value, ttl \in TTL : BeginSet(caller, key, value, ttl)
  \/ GetDelivered(caller) \/ Insert(caller) \/ SetIndexedDBCache(caller)

Next ==
  \/ \E caller \in Caller : CallNext(caller)
  \/ (\E key \in Key : Delete(key)) \/ Clear
  \/ PerformEmergencyCleanup \/ Tick \/ Reload

Spec == Init /\ [][Next]_cachingVars

-----------------------------------------------------------------------------
TypeOK ==
  /\ memoryCache \in [Key -> Entry \cup {NoEntry}]
  /\ cacheEntries \in [Key -> Entry \cup {NoEntry}]
  /\ accessOrder \in Seq(Key)
  /\ \A i, j \in DOMAIN accessOrder : accessOrder[i] = accessOrder[j] => i = j
  /\ call \in [Caller ->
       [pc : {"idle", "reading", "promoting", "setting", "storing"},
        key : Key \cup {None}, entry : Entry \cup {NoEntry}]]
  /\ now \in Nat
  /\ latest \in [Key -> Value \cup {None}]
  /\ suspect \subseteq Key

\* The order of accesses lists exactly the keys in memory, however calls, evictions
\* and removals interleave: else the eviction loop would pick a key that is not
\* there again and again and never end.
OrderIsOfCachedKeys == Range(accessOrder) = CachedKeys

\* Memory exceeds its maximum by no more than what the other callers insert between
\* a caller's check and its own insertion, or by one entry that is larger than the
\* maximum.
OverrunIsBounded ==
  LET largest == Max({Size[v] : v \in Value})
  IN  Usage <= Max({MaxMemory, largest}) + (Cardinality(Caller) - 1) * largest

\* A key whose calls did not overlap and whose writes did not fail is never answered
\* with anything but the value set last: not with an older one, and not after it was
\* deleted, whatever was evicted, promoted or lost with the page.
QuietKeysFresh ==
  \A k \in Key \ suspect : BeingSet(k) = {} =>
    /\ {memoryCache[k].value, cacheEntries[k].value} \subseteq {latest[k], None}
    /\ \A c \in InProgress(k) : call[c].entry.value \in {latest[k], None}

\* A value is never answered from memory once it is older than two times to live.
ServedWithinTwoLives ==
  \A k \in Key : IsValidEntry(memoryCache[k]) =>
    now - memoryCache[k].origin < 2 * memoryCache[k].ttl

=============================================================================
