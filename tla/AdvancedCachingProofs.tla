------------------------- MODULE AdvancedCachingProofs -------------------------
(***************************************************************************)
(* For any callers, keys, values, sizes and times to live: keys whose calls*)
(* do not overlap are answered with what was set last, and no value is     *)
(* answered from memory after two times to live.  Neither needs the order  *)
(* of accesses: an eviction may take any entry.  The order itself always   *)
(* lists the keys in memory, each once, and what they take stays within    *)
(* the maximum and one largest entry for each other caller.                *)
(***************************************************************************)
EXTENDS AdvancedCaching, SequenceTheorems, FoldTheorems

Slot == Entry \cup {NoEntry}
Reads == [pc : {"reading"}, key : Key, entry : Slot]
Writes == [pc : {"promoting", "setting", "storing"}, key : Key, entry : Entry]

CacheOK ==
  /\ memoryCache \in [Key -> Slot]
  /\ cacheEntries \in [Key -> Slot]
  /\ call \in [Caller -> {Idle} \cup Reads \cup Writes]
  /\ now \in Nat
  /\ latest \in [Key -> Value \cup {None}]
  /\ suspect \subseteq Key

\* What an eviction does to memory, whatever its order.
Evicts ==
  /\ memoryCache' \in [Key -> Slot]
  /\ \A k \in Key : memoryCache'[k] \in {memoryCache[k], NoEntry}

LEMMA EvictEvicts ==
  ASSUME CacheOK, NEW limit, NEW required, Evict(limit, required)
  PROVE  Evicts
<1>1. PICK n : Keep(n)
  BY DEF Evict
<1>2. PICK S : memoryCache' = [k \in Key |-> IF k \in S THEN memoryCache[k] ELSE NoEntry]
  BY <1>1 DEF Keep
<1> QED BY <1>2 DEF Evicts, CacheOK, Slot

(* The calls in progress, by where they are.                                 *)
LEMMA CallsAre ==
  ASSUME CacheOK, NEW c \in Caller
  PROVE  /\ call[c].pc = "reading" => call[c] \in Reads
         /\ call[c].pc \in {"promoting", "setting", "storing"} => call[c] \in Writes
BY DEF CacheOK, Idle, Reads, Writes

LEMMA NewEntryOK ==
  ASSUME CacheOK, NEW v \in Value, NEW t \in TTL
  PROVE  NewEntry(v, t) \in Entry
BY DEF NewEntry, Entry, CacheOK

LEMMA NextCacheOK == ASSUME CacheOK, [Next]_cachingVars PROVE CacheOK'
<1>1. ASSUME NEW c \in Caller, NEW k \in Key, GetFromMemory(c, k) PROVE CacheOK'
  BY <1>1 DEF GetFromMemory, CacheOK
<1>2. ASSUME NEW c \in Caller, NEW k \in Key, GetFromDatabase(c, k) PROVE CacheOK'
  <2>1. PICK found \in {cacheEntries[k], NoEntry} : Go(c, Reading(k, found))
    BY <1>2 DEF GetFromDatabase
  <2>2. Reading(k, found) \in Reads
    BY DEF CacheOK, Slot, Reading, Reads
  <2> QED BY <1>2, <2>1, <2>2 DEF GetFromDatabase, Go, CacheOK
<1>3. ASSUME NEW c \in Caller, GetDelivered(c) PROVE CacheOK'
  <2> DEFINE found == call[c].entry
             next == Promoting(call[c].key, [found EXCEPT !.timestamp = now])
  <2>1. CASE IsValidEntry(found)
    <3>1. Evicts
      BY <1>3, <2>1, EvictEvicts DEF GetDelivered, EnsureMemoryCapacity
    <3>2. found \in Entry /\ call[c].key \in Key
      BY <1>3, <2>1, CallsAre DEF GetDelivered, IsValidEntry, Reads, Slot
    <3>3. next \in Writes
      BY <3>2 DEF Promoting, Writes, Entry, CacheOK
    <3>4. call' = [call EXCEPT ![c] = next]
      BY <1>3, <2>1 DEF GetDelivered, Go
    <3> HIDE DEF next
    <3> QED BY <1>3, <3>1, <3>3, <3>4 DEF GetDelivered, Evicts, CacheOK
  <2>2. CASE ~IsValidEntry(found)
    BY <1>3, <2>2 DEF GetDelivered, Go, CacheOK
  <2> QED BY <2>1, <2>2
<1>4. ASSUME NEW c \in Caller, NEW k \in Key, NEW v \in Value, NEW t \in TTL,
             BeginSet(c, k, v, t)
      PROVE  CacheOK'
  <2>1. Evicts
    BY <1>4, EvictEvicts DEF BeginSet, EnsureMemoryCapacity
  <2>2. Setting(k, NewEntry(v, t)) \in Writes
    BY NewEntryOK DEF Setting, Writes
  <2> QED BY <1>4, <2>1, <2>2 DEF BeginSet, Go, Evicts, CacheOK
<1>5. ASSUME NEW c \in Caller, Insert(c) PROVE CacheOK'
  <2>1. call[c].entry \in Entry /\ call[c].key \in Key
    BY <1>5, CallsAre DEF Insert, Writes
  <2>2. Storing(call[c].key, call[c].entry) \in Writes
    BY <2>1 DEF Storing, Writes
  <2> QED BY <1>5, <2>1, <2>2 DEF Insert, Go, CacheOK, Slot
<1>6. ASSUME NEW c \in Caller, SetIndexedDBCache(c) PROVE CacheOK'
  <2>1. call[c].entry \in Entry /\ call[c].key \in Key
    BY <1>6, CallsAre DEF SetIndexedDBCache, Writes
  <2>2. NewEntry(call[c].entry.value, call[c].entry.ttl) \in Entry
    BY <2>1, NewEntryOK DEF Entry
  <2> QED BY <1>6, <2>1, <2>2 DEF SetIndexedDBCache, Go, CacheOK, Slot
<1>7. ASSUME NEW keys \in SUBSET Key, NEW order, Forget(keys, order) PROVE CacheOK'
  BY <1>7 DEF Forget, CacheOK, Slot
<1>8. CASE PerformEmergencyCleanup
  <2>1. Evicts
    BY <1>8, EvictEvicts DEF PerformEmergencyCleanup
  <2> QED BY <1>8, <2>1 DEF PerformEmergencyCleanup, Evicts, CacheOK
<1>9. CASE Tick
  BY <1>9 DEF Tick, CacheOK
<1>10. CASE Reload
  BY <1>10 DEF Reload, CacheOK, Empty, Slot
<1>11. CASE UNCHANGED cachingVars
  BY <1>11 DEF cachingVars, CacheOK
<1> QED BY <1>1, <1>2, <1>3, <1>4, <1>5, <1>6, <1>7, <1>8, <1>9, <1>10, <1>11
        DEF Next, CallNext, Delete, Clear

(* The two levels, the calls and the history always have their types.        *)
THEOREM LevelsTypeCorrect == Spec => []CacheOK
<1>1. Init => CacheOK
  BY DEF Init, CacheOK, Empty, Slot
<1>2. CacheOK /\ [Next]_cachingVars => CacheOK'
  BY NextCacheOK
<1> QED BY <1>1, <1>2, PTL DEF Spec

-----------------------------------------------------------------------------
(* ServedWithinTwoLives.  The table's entries are as old as they say, and an *)
(* entry is promoted while it is valid.                                      *)
AsOld(entry) == entry.timestamp = entry.origin
InLife(entry) == AsOld(entry) \/ entry.timestamp - entry.origin < entry.ttl

Ages ==
  /\ \A k \in Key : InLife(memoryCache[k]) /\ AsOld(cacheEntries[k])
  /\ \A c \in Caller : /\ InLife(call[c].entry)
                       /\ call[c].pc = "reading" => AsOld(call[c].entry)

LEMMA NextAges == ASSUME CacheOK, Ages, [Next]_cachingVars PROVE Ages'
<1>1. AsOld(NoEntry)
  BY DEF AsOld, NoEntry
<1>2. ASSUME Evicts PROVE \A k \in Key : InLife(memoryCache'[k])
  BY <1>1, <1>2 DEF Evicts, Ages, InLife
<1>3. \A v, t : AsOld(NewEntry(v, t))
  BY DEF AsOld, NewEntry
<1>4. ASSUME NEW c \in Caller, NEW k \in Key, GetFromMemory(c, k) PROVE Ages'
  BY <1>4 DEF GetFromMemory, Ages
<1>5. ASSUME NEW c \in Caller, NEW k \in Key, GetFromDatabase(c, k) PROVE Ages'
  <2>1. PICK found \in {cacheEntries[k], NoEntry} : Go(c, Reading(k, found))
    BY <1>5 DEF GetFromDatabase
  <2>2. AsOld(found)
    BY <1>1, <2>1 DEF Ages
  <2>3. Reading(k, found).entry = found
    BY DEF Reading
  <2>4. \A d \in Caller : call'[d] = IF d = c THEN Reading(k, found) ELSE call[d]
    BY <2>1 DEF Go, CacheOK
  <2> QED BY <1>5, <2>2, <2>3, <2>4 DEF GetFromDatabase, Ages, InLife
<1>6. ASSUME NEW c \in Caller, GetDelivered(c) PROVE Ages'
  <2> DEFINE found == call[c].entry
             entry == [found EXCEPT !.timestamp = now]
  <2>1. CASE IsValidEntry(found)
    <3>1. \A k \in Key : InLife(memoryCache'[k])
      BY <1>2, <1>6, <2>1, EvictEvicts DEF GetDelivered, EnsureMemoryCapacity
    <3>2. found \in Entry /\ AsOld(found) /\ now - found.timestamp < found.ttl
      BY <1>6, <2>1, CallsAre DEF GetDelivered, IsValidEntry, Reads, Slot, Ages
    <3>3. InLife(entry)
      BY <3>2 DEF InLife, AsOld, Entry
    <3> HIDE DEF entry
    <3>4. \A d \in Caller :
            call'[d] = IF d = c THEN Promoting(call[c].key, entry) ELSE call[d]
      BY <1>6, <2>1 DEF GetDelivered, Go, CacheOK, entry
    <3>5. Promoting(call[c].key, entry).entry = entry
          /\ Promoting(call[c].key, entry).pc # "reading"
      BY DEF Promoting
    <3> QED BY <1>6, <3>1, <3>3, <3>4, <3>5 DEF GetDelivered, Ages
  <2>2. CASE ~IsValidEntry(found)
    <3>1. \A d \in Caller : call'[d] = IF d = c THEN Idle ELSE call[d]
      BY <1>6, <2>2 DEF GetDelivered, Go, CacheOK
    <3> QED BY <1>1, <1>6, <2>2, <3>1 DEF GetDelivered, Ages, Idle, InLife
  <2> QED BY <2>1, <2>2
<1>7. ASSUME NEW c \in Caller, NEW k \in Key, NEW v \in Value, NEW t \in TTL,
             BeginSet(c, k, v, t)
      PROVE  Ages'
  <2>1. \A q \in Key : InLife(memoryCache'[q])
    BY <1>2, <1>7, EvictEvicts DEF BeginSet, EnsureMemoryCapacity
  <2>2. \A d \in Caller :
          call'[d] = IF d = c THEN Setting(k, NewEntry(v, t)) ELSE call[d]
    BY <1>7 DEF BeginSet, Go, CacheOK
  <2>3. AsOld(Setting(k, NewEntry(v, t)).entry)
    BY <1>3 DEF Setting
  <2> QED BY <1>7, <2>1, <2>2, <2>3 DEF BeginSet, Ages, InLife
<1>8. ASSUME NEW c \in Caller, Insert(c) PROVE Ages'
  <2> DEFINE entry == call[c].entry
  <2>1. \A k \in Key : memoryCache'[k] = entry \/ memoryCache'[k] = memoryCache[k]
    BY <1>8 DEF Insert, CacheOK
  <2>2. PICK next \in {Storing(call[c].key, entry), Idle} : Go(c, next)
    BY <1>8 DEF Insert
  <2>3. InLife(next.entry) /\ next.pc # "reading"
    BY <1>1, <2>2 DEF Storing, Idle, InLife, Ages
  <2>4. \A d \in Caller : call'[d] = IF d = c THEN next ELSE call[d]
    BY <2>2 DEF Go, CacheOK
  <2> QED BY <1>8, <2>1, <2>3, <2>4 DEF Insert, Ages
<1>9. ASSUME NEW c \in Caller, SetIndexedDBCache(c) PROVE Ages'
  <2>1. \A k \in Key : AsOld(cacheEntries'[k])
    BY <1>3, <1>9 DEF SetIndexedDBCache, CacheOK, Ages
  <2>2. \A d \in Caller : call'[d] = IF d = c THEN Idle ELSE call[d]
    BY <1>9 DEF SetIndexedDBCache, Go, CacheOK
  <2> QED BY <1>1, <1>9, <2>1, <2>2 DEF SetIndexedDBCache, Ages, Idle, InLife
<1>10. ASSUME NEW keys \in SUBSET Key, NEW order, Forget(keys, order) PROVE Ages'
  BY <1>1, <1>10 DEF Forget, Ages, InLife
<1>11. CASE PerformEmergencyCleanup
  <2>1. Evicts
    BY <1>11, EvictEvicts DEF PerformEmergencyCleanup
  <2> QED BY <1>2, <1>11, <2>1 DEF PerformEmergencyCleanup, Ages
<1>12. CASE Tick
  BY <1>12 DEF Tick, Ages
<1>13. CASE Reload
  BY <1>1, <1>13 DEF Reload, Ages, Empty, Idle, InLife
<1>14. CASE UNCHANGED cachingVars
  BY <1>14 DEF cachingVars, Ages
<1> QED BY <1>4, <1>5, <1>6, <1>7, <1>8, <1>9, <1>10, <1>11, <1>12, <1>13, <1>14
        DEF Next, CallNext, Delete, Clear

(* A promotion restarts an entry's time to live once, and no promotion       *)
(* restarts it again (get and setMemoryCache).                               *)
THEOREM TwoLivesAtMost == Spec => []ServedWithinTwoLives
<1>1. Init => Ages
  BY DEF Init, Ages, Empty, NoEntry, Idle, InLife, AsOld
<1>2. CacheOK /\ Ages /\ [Next]_cachingVars => Ages'
  BY NextAges
<1>3. CacheOK /\ Ages => ServedWithinTwoLives
  <2> SUFFICES ASSUME CacheOK, Ages, NEW k \in Key, IsValidEntry(memoryCache[k])
               PROVE  now - memoryCache[k].origin < 2 * memoryCache[k].ttl
    BY DEF ServedWithinTwoLives
  <2> DEFINE entry == memoryCache[k]
  <2>1. entry \in Entry /\ now - entry.timestamp < entry.ttl /\ InLife(entry)
    BY DEF CacheOK, Slot, IsValidEntry, Ages
  <2>2. entry.timestamp \in Nat /\ entry.origin \in Nat /\ entry.ttl \in Nat /\ now \in Nat
    BY <2>1, CacheAssumption DEF Entry, CacheOK
  <2> QED BY <2>1, <2>2 DEF InLife, AsOld
<1> QED BY <1>1, <1>2, <1>3, LevelsTypeCorrect, PTL DEF Spec

-----------------------------------------------------------------------------
(* QuietKeysFresh.  While a key is not suspect, a set of it has the key for  *)
(* itself and carries what was set last; once it has inserted, memory holds  *)
(* nothing older.                                                            *)
Fresh(key, entry) == entry.value \in {latest[key], None}

SetsAlone ==
  \A k \in Key \ suspect : \A c \in BeingSet(k), d \in InProgress(k) : c = d
SetsLatest ==
  \A k \in Key \ suspect : \A c \in BeingSet(k) :
    /\ call[c].entry.value = latest[k]
    /\ call[c].pc = "storing" => Fresh(k, memoryCache[k])

Quiet == QuietKeysFresh /\ SetsAlone /\ SetsLatest

\* The same, for one key.
QuietKey(k) ==
  k \notin suspect =>
    /\ BeingSet(k) = {} =>
         /\ Fresh(k, memoryCache[k]) /\ Fresh(k, cacheEntries[k])
         /\ \A c \in InProgress(k) : Fresh(k, call[c].entry)
    /\ \A c \in BeingSet(k) :
         /\ \A d \in InProgress(k) : c = d
         /\ call[c].entry.value = latest[k]
         /\ call[c].pc = "storing" => Fresh(k, memoryCache[k])

LEMMA QuietKeys ==
  /\ Quiet <=> \A k \in Key : QuietKey(k)
  /\ Quiet' <=> \A k \in Key : QuietKey(k)'
BY DEF Quiet, QuietKeysFresh, SetsAlone, SetsLatest, QuietKey, Fresh

\* The calls and the history of a key, the two levels aside.
SameCalls(k) ==
  /\ \A c \in Caller : call'[c] = call[c] \/ (call[c].key # k /\ call'[c].key # k)
  /\ latest'[k] = latest[k]
  /\ k \in suspect => k \in suspect'

LEMMA SameCallsKeep ==
  ASSUME NEW k \in Key, SameCalls(k)
  PROVE  /\ BeingSet(k)' = BeingSet(k) /\ InProgress(k)' = InProgress(k)
         /\ \A c \in InProgress(k) : call'[c] = call[c]
BY DEF SameCalls, BeingSet, InProgress

\* A step that does nothing to a key but forget it keeps it quiet.
LEMMA ForgettingKeeps ==
  ASSUME NEW k \in Key, QuietKey(k), SameCalls(k),
         memoryCache'[k] \in {memoryCache[k], NoEntry},
         cacheEntries'[k] = cacheEntries[k]
  PROVE  QuietKey(k)'
<1>1. BeingSet(k) \subseteq InProgress(k)
  BY DEF BeingSet, InProgress
<1> QED BY <1>1, SameCallsKeep DEF QuietKey, SameCalls, Fresh, NoEntry

LEMMA OtherKeysKeep ==
  ASSUME NEW c \in Caller, NEW k \in Key, CacheOK, NEW next, Go(c, next),
         call[c].key # k, next.key # k, latest'[k] = latest[k],
         k \in suspect => k \in suspect'
  PROVE  SameCalls(k)
BY DEF Go, SameCalls, CacheOK

LEMMA IdleKey == \A k \in Key : Idle.key # k
BY CacheAssumption DEF Idle

LEMMA NextQuiet == ASSUME CacheOK, Quiet, [Next]_cachingVars PROVE Quiet'
<1> SUFFICES ASSUME NEW k \in Key PROVE QuietKey(k)'
  BY QuietKeys
<1>0. QuietKey(k)
  BY QuietKeys
<1> USE DEF BeingSet, InProgress
<1>1. ASSUME call' = call, latest' = latest, suspect' = suspect,
             cacheEntries' = cacheEntries,
             memoryCache'[k] \in {memoryCache[k], NoEntry}
      PROVE  QuietKey(k)'
  <2>1. SameCalls(k)
    BY <1>1 DEF SameCalls
  <2> QED BY <1>0, <1>1, <2>1, ForgettingKeeps
<1>2. ASSUME NEW c \in Caller, NEW key \in Key, GetFromMemory(c, key)
      PROVE  QuietKey(k)'
  BY <1>1, <1>2 DEF GetFromMemory
<1>3. ASSUME NEW c \in Caller, NEW key \in Key, GetFromDatabase(c, key)
      PROVE  QuietKey(k)'
  <2>1. PICK found \in {cacheEntries[key], NoEntry} : Go(c, Reading(key, found))
    BY <1>3 DEF GetFromDatabase
  <2>2. CASE k # key
    <3>1. Reading(key, found).key # k /\ call[c].key # k
      BY <1>3, <2>2, IdleKey DEF GetFromDatabase, Reading
    <3>2. SameCalls(k)
      BY <1>3, <2>1, <3>1, OtherKeysKeep DEF GetFromDatabase
    <3> QED BY <1>0, <1>3, <3>2, ForgettingKeeps DEF GetFromDatabase
  <2>3. CASE k = key
    <3>1. CASE BeingSet(k) # {}
      BY <1>3, <2>3, <3>1 DEF GetFromDatabase, QuietKey
    <3>2. CASE BeingSet(k) = {}
      <4>1. /\ UNCHANGED <<memoryCache, cacheEntries, latest, suspect>>
            /\ \A d \in Caller : call'[d] = IF d = c THEN Reading(k, found) ELSE call[d]
        BY <1>3, <2>1, <2>3, <3>2 DEF GetFromDatabase, Go, CacheOK
      <4>2. Reading(k, found).pc = "reading" /\ Reading(k, found).entry = found
        BY DEF Reading
      <4>3. BeingSet(k)' = {}
        BY <3>2, <4>1, <4>2
      <4>4. k \notin suspect => Fresh(k, found)
        BY <1>0, <2>1, <2>3, <3>2 DEF QuietKey, Fresh, NoEntry
      <4> QED BY <1>0, <3>2, <4>1, <4>2, <4>3, <4>4 DEF QuietKey, Fresh
    <3> QED BY <3>1, <3>2
  <2> QED BY <2>2, <2>3
<1>4. ASSUME NEW c \in Caller, GetDelivered(c) PROVE QuietKey(k)'
  <2> DEFINE found == call[c].entry
             entry == [found EXCEPT !.timestamp = now]
             key == call[c].key
  <2>1. call[c] \in Reads /\ memoryCache'[k] \in {memoryCache[k], NoEntry}
    BY <1>4, CallsAre, EvictEvicts DEF GetDelivered, EnsureMemoryCapacity, Evicts
  <2>2. PICK next \in {Promoting(key, entry), Idle} : Go(c, next)
    BY <1>4 DEF GetDelivered
  <2>3. CASE k # key
    <3>1. next.key # k
      BY <2>2, <2>3, IdleKey DEF Promoting
    <3>2. SameCalls(k)
      BY <1>4, <2>2, <2>3, <3>1, OtherKeysKeep DEF GetDelivered
    <3> QED BY <1>0, <1>4, <2>1, <3>2, ForgettingKeeps DEF GetDelivered
  <2>4. CASE k = key /\ k \notin suspect
    <3>1. c \in InProgress(k) /\ c \notin BeingSet(k)
      BY <2>1, <2>4 DEF Reads
    <3>2. BeingSet(k) = {}
      BY <1>0, <2>4, <3>1 DEF QuietKey
    <3>3. Fresh(k, found)
      BY <1>0, <2>4, <3>1, <3>2 DEF QuietKey
    <3>4. found \in Slot
      BY <2>1 DEF Reads
    <3>5. next.pc \in {"promoting", "idle"} /\ next.entry.value \in {found.value, None}
      BY <2>2, <3>4 DEF Promoting, Idle, NoEntry, Slot, Entry
    <3>6. /\ UNCHANGED <<cacheEntries, latest, suspect>>
          /\ \A d \in Caller : call'[d] = IF d = c THEN next ELSE call[d]
      BY <1>4, <2>2 DEF GetDelivered, Go, CacheOK
    <3>7. BeingSet(k)' = {}
      BY <3>2, <3>5, <3>6
    <3>8. Fresh(k, memoryCache[k])'
      BY <1>0, <2>1, <2>4, <3>2, <3>6 DEF QuietKey, Fresh, NoEntry
    <3> QED BY <1>0, <2>4, <3>2, <3>3, <3>5, <3>6, <3>7, <3>8 DEF QuietKey, Fresh
  <2>5. CASE k \in suspect
    BY <1>4, <2>5 DEF GetDelivered, QuietKey
  <2> QED BY <2>3, <2>4, <2>5
<1>5. ASSUME NEW c \in Caller, NEW key \in Key, NEW v \in Value, NEW t \in TTL,
             BeginSet(c, key, v, t)
      PROVE  QuietKey(k)'
  <2> DEFINE next == Setting(key, NewEntry(v, t))
  <2>1. memoryCache'[k] \in {memoryCache[k], NoEntry}
    BY <1>5, EvictEvicts DEF BeginSet, EnsureMemoryCapacity, Evicts
  <2>2. next.key = key /\ next.pc = "setting" /\ next.entry.value = v
    BY DEF Setting, NewEntry
  <2> HIDE DEF next
  <2>3. Go(c, next) /\ call[c] = Idle /\ cacheEntries' = cacheEntries
    BY <1>5 DEF BeginSet, next
  <2>4. CASE k # key
    <3>1. SameCalls(k)
      BY <1>5, <2>2, <2>3, <2>4, IdleKey, OtherKeysKeep DEF BeginSet, CacheOK
    <3> QED BY <1>0, <2>1, <2>3, <3>1, ForgettingKeeps
  <2>5. CASE k = key /\ InProgress(k) = {}
    <3>1. \A d \in Caller : call'[d] = IF d = c THEN next ELSE call[d]
      BY <2>3 DEF Go, CacheOK
    <3>2. InProgress(k)' = {c} /\ BeingSet(k)' = {c}
      BY <2>2, <2>5, <3>1
    <3>3. latest'[k] = v
      BY <1>5, <2>5 DEF BeginSet, CacheOK
    <3> QED BY <2>2, <3>1, <3>2, <3>3 DEF QuietKey
  <2>6. CASE k = key /\ InProgress(k) # {}
    BY <1>5, <2>6 DEF BeginSet, QuietKey
  <2> QED BY <2>4, <2>5, <2>6
<1>6. ASSUME NEW c \in Caller, Insert(c) PROVE QuietKey(k)'
  <2> DEFINE entry == call[c].entry
             key == call[c].key
             next == IF call[c].pc = "setting" THEN Storing(key, entry) ELSE Idle
  <2>1. /\ Go(c, next) /\ UNCHANGED <<cacheEntries, latest, suspect>>
        /\ call[c].pc \in {"promoting", "setting"} /\ key \in Key
    BY <1>6, CallsAre DEF Insert, Writes
  <2>2. CASE k # key
    <3>1. next.key # k
      BY <2>2, IdleKey DEF Storing
    <3>2. SameCalls(k)
      BY <2>1, <2>2, <3>1, OtherKeysKeep
    <3>3. memoryCache'[k] = memoryCache[k]
      BY <1>6, <2>2 DEF Insert, CacheOK
    <3> QED BY <1>0, <2>1, <3>2, <3>3, ForgettingKeeps
  <2>3. CASE k = key /\ k \notin suspect
    <3>1. memoryCache'[k] = entry /\ c \in InProgress(k)
      BY <1>6, <2>3 DEF Insert, CacheOK
    <3>2. CASE call[c].pc = "promoting"
      <4>1. BeingSet(k) = {}
        BY <1>0, <2>3, <3>1, <3>2 DEF QuietKey
      <4>2. \A d \in Caller : call'[d] = IF d = c THEN Idle ELSE call[d]
        BY <2>1, <3>2 DEF Go, CacheOK
      <4>3. BeingSet(k)' = {} /\ InProgress(k)' \subseteq InProgress(k) \ {c}
        BY <4>1, <4>2, IdleKey
      <4> QED BY <1>0, <2>1, <2>3, <3>1, <4>1, <4>2, <4>3 DEF QuietKey, Fresh
    <3>3. CASE call[c].pc = "setting"
      <4>1. c \in BeingSet(k)
        BY <3>1, <3>3
      <4>2. entry.value = latest[k] /\ \A d \in InProgress(k) : c = d
        BY <1>0, <2>3, <4>1 DEF QuietKey
      <4>3. \A d \in Caller : call'[d] = IF d = c THEN Storing(k, entry) ELSE call[d]
        BY <2>1, <2>3, <3>3 DEF Go, CacheOK
      <4>4. /\ Storing(k, entry).key = k /\ Storing(k, entry).pc = "storing"
            /\ Storing(k, entry).entry = entry
        BY DEF Storing
      <4>5. InProgress(k)' = {c} /\ BeingSet(k)' = {c}
        BY <3>1, <4>2, <4>3, <4>4
      <4> QED BY <2>1, <3>1, <4>2, <4>3, <4>4, <4>5 DEF QuietKey, Fresh
    <3> QED BY <2>1, <3>2, <3>3
  <2>4. CASE k \in suspect
    BY <2>1, <2>4 DEF QuietKey
  <2> QED BY <2>2, <2>3, <2>4
<1>7. ASSUME NEW c \in Caller, SetIndexedDBCache(c) PROVE QuietKey(k)'
  <2> DEFINE entry == call[c].entry
             key == call[c].key
  <2>1. Go(c, Idle) /\ call[c].pc = "storing" /\ UNCHANGED <<memoryCache, latest>>
    BY <1>7 DEF SetIndexedDBCache
  <2>2. CASE k # key
    <3>1. cacheEntries'[k] = cacheEntries[k] /\ (k \in suspect => k \in suspect')
      BY <1>7, <2>2 DEF SetIndexedDBCache, CacheOK
    <3>2. SameCalls(k)
      BY <2>1, <2>2, <3>1, IdleKey, OtherKeysKeep
    <3> QED BY <1>0, <2>1, <3>1, <3>2, ForgettingKeeps
  <2>3. CASE k = key /\ k \notin suspect'
    <3>1. /\ k \notin suspect
          /\ cacheEntries'[k] = NewEntry(entry.value, entry.ttl)
      BY <1>7, <2>3 DEF SetIndexedDBCache, CacheOK
    <3>2. c \in BeingSet(k)
      BY <2>1, <2>3
    <3>3. /\ entry.value = latest[k] /\ Fresh(k, memoryCache[k])
          /\ \A d \in InProgress(k) : c = d
      BY <1>0, <2>1, <3>1, <3>2 DEF QuietKey
    <3>4. \A d \in Caller : call'[d] = IF d = c THEN Idle ELSE call[d]
      BY <2>1 DEF Go, CacheOK
    <3>5. InProgress(k)' = {} /\ BeingSet(k)' = {}
      BY <3>3, <3>4, IdleKey
    <3>6. cacheEntries'[k].value = latest[k]
      BY <3>1, <3>3 DEF NewEntry
    <3> QED BY <2>1, <3>3, <3>5, <3>6 DEF QuietKey, Fresh
  <2>4. CASE k \in suspect'
    BY <2>4 DEF QuietKey
  <2> QED BY <2>2, <2>3, <2>4
<1>8. ASSUME NEW keys \in SUBSET Key, NEW order, Forget(keys, order) PROVE QuietKey(k)'
  <2>1. call' = call
    BY <1>8 DEF Forget
  <2>2. CASE k \notin keys
    <3>1. /\ memoryCache'[k] = memoryCache[k] /\ cacheEntries'[k] = cacheEntries[k]
          /\ latest'[k] = latest[k] /\ (k \in suspect => k \in suspect')
      BY <1>8, <2>2 DEF Forget, CacheOK
    <3>2. SameCalls(k)
      BY <2>1, <3>1 DEF SameCalls
    <3> QED BY <1>0, <3>1, <3>2, ForgettingKeeps
  <2>3. CASE k \in keys /\ k \notin suspect'
    <3>1. /\ memoryCache'[k] = NoEntry /\ cacheEntries'[k] = NoEntry
          /\ InProgress(k) = {}
      BY <1>8, <2>3 DEF Forget
    <3> QED BY <2>1, <3>1 DEF QuietKey, Fresh, NoEntry
  <2>4. CASE k \in suspect'
    BY <2>4 DEF QuietKey
  <2> QED BY <2>2, <2>3, <2>4
<1>9. CASE PerformEmergencyCleanup
  <2>1. memoryCache'[k] \in {memoryCache[k], NoEntry}
    BY <1>9, EvictEvicts DEF PerformEmergencyCleanup, Evicts
  <2> QED BY <1>1, <1>9, <2>1 DEF PerformEmergencyCleanup
<1>10. CASE Tick
  BY <1>1, <1>10 DEF Tick
<1>11. CASE Reload
  <2>1. CASE k \notin suspect'
    <3>1. k \notin suspect /\ BeingSet(k) = {}
      BY <1>11, <2>1 DEF Reload
    <3>2. InProgress(k)' = {} /\ BeingSet(k)' = {}
      BY <1>11, IdleKey DEF Reload
    <3>3. memoryCache'[k] = NoEntry /\ UNCHANGED <<cacheEntries, latest>>
      BY <1>11 DEF Reload, Empty
    <3> QED BY <1>0, <3>1, <3>2, <3>3 DEF QuietKey, Fresh, NoEntry
  <2>2. CASE k \in suspect'
    BY <2>2 DEF QuietKey
  <2> QED BY <2>1, <2>2
<1>12. CASE UNCHANGED cachingVars
  BY <1>1, <1>12 DEF cachingVars
<1> QED BY <1>2, <1>3, <1>4, <1>5, <1>6, <1>7, <1>8, <1>9, <1>10, <1>11, <1>12
        DEF Next, CallNext, Delete, Clear

(* What a quiet key is answered with is what was set last, or nothing (set,  *)
(* get, delete and clear over the two levels).                               *)
THEOREM QuietKeysStayFresh == Spec => []QuietKeysFresh
<1>1. Init => Quiet
  <2> SUFFICES ASSUME Init, NEW k \in Key PROVE QuietKey(k)
    BY QuietKeys
  <2>1. InProgress(k) = {} /\ BeingSet(k) = {}
    BY IdleKey DEF Init, InProgress, BeingSet
  <2> QED BY <2>1 DEF Init, QuietKey, Fresh, Empty, NoEntry
<1>2. CacheOK /\ Quiet /\ [Next]_cachingVars => Quiet'
  BY NextQuiet
<1> QED BY <1>1, <1>2, LevelsTypeCorrect, PTL DEF Spec, Quiet

-----------------------------------------------------------------------------
(* The order of accesses.                                                    *)
NoRepeats(order) == \A i, j \in DOMAIN order : order[i] = order[j] => i = j
Order == {order \in Seq(Key) : NoRepeats(order)}

OrderOK == accessOrder \in Order /\ OrderIsOfCachedKeys

LEMMA OrderElements ==
  ASSUME NEW order \in Seq(Key)
  PROVE  /\ DOMAIN order = 1..Len(order) /\ Len(order) \in Nat
         /\ \A i \in 1..Len(order) : order[i] \in Key
BY LenProperties, ElementOfSeq

LEMMA AppendTo ==
  ASSUME NEW order \in Order, NEW key \in Key, key \notin Range(order)
  PROVE  /\ Append(order, key) \in Order
         /\ Range(Append(order, key)) = Range(order) \cup {key}
<1> DEFINE longer == Append(order, key)
<1>1. order \in Seq(Key) /\ NoRepeats(order) /\ longer \in Seq(Key)
  BY DEF Order
<1>2. /\ DOMAIN order = 1..Len(order) /\ DOMAIN longer = 1..(Len(order) + 1)
      /\ Len(order) \in Nat /\ longer[Len(order) + 1] = key
      /\ \A i \in 1..Len(order) : longer[i] = order[i]
  BY <1>1
<1> HIDE DEF longer
<1>3. \A i \in 1..Len(order) : order[i] # key
  BY <1>2 DEF Range
<1>4. NoRepeats(longer)
  <2> SUFFICES ASSUME NEW i \in 1..(Len(order) + 1), NEW j \in 1..(Len(order) + 1),
                      longer[i] = longer[j]
               PROVE  i = j
    BY <1>2 DEF NoRepeats
  <2>1. \A m, n \in 1..Len(order) : order[m] = order[n] => m = n
    BY <1>1, <1>2 DEF NoRepeats
  <2> QED BY <1>2, <1>3, <2>1
<1>5. Range(longer) = Range(order) \cup {key}
  <2>1. ASSUME NEW y \in Range(longer) PROVE y \in Range(order) \cup {key}
    BY <1>2, <2>1 DEF Range
  <2>2. ASSUME NEW y \in Range(order) PROVE y \in Range(longer)
    BY <1>2, <2>2 DEF Range
  <2>3. Len(order) + 1 \in DOMAIN longer
    BY <1>2
  <2>4. key \in Range(longer)
    BY <1>2, <2>3 DEF Range
  <2> QED BY <2>1, <2>2, <2>4
<1> QED BY <1>1, <1>4, <1>5 DEF Order, longer

LEMMA WithoutOne ==
  ASSUME NEW order \in Order, NEW key
  PROVE  /\ Without(order, key) \in Order
         /\ Range(Without(order, key)) = Range(order) \ {key}
<1>1. CASE key \notin Range(order)
  BY <1>1 DEF Without
<1>2. CASE key \in Range(order)
  <2> DEFINE i == CHOOSE j \in DOMAIN order : order[j] = key
             front == SubSeq(order, 1, i - 1)
             back == SubSeq(order, i + 1, Len(order))
             left == front \o back
  <2>1. /\ order \in Seq(Key) /\ NoRepeats(order) /\ DOMAIN order = 1..Len(order)
        /\ Len(order) \in Nat /\ \A j \in 1..Len(order) : order[j] \in Key
    BY OrderElements DEF Order
  <2>2. i \in 1..Len(order) /\ order[i] = key
    BY <1>2, <2>1 DEF Range
  <2>3. Without(order, key) = left
    BY <1>2 DEF Without, RemoveAt
  <2> HIDE DEF i
  <2>4. /\ front \in Seq(Key) /\ Len(front) = i - 1
        /\ \A j \in 1..(i - 1) : front[j] = order[j]
    <3>1. i - 1 \in Int /\ \A j \in 1..(i - 1) : order[j] \in Key
      BY <2>1, <2>2
    <3> QED BY <2>2, <3>1, SubSeqProperties
  <2>5. /\ back \in Seq(Key) /\ Len(back) = Len(order) - i
        /\ \A j \in 1..(Len(order) - i) : back[j] = order[i + j]
    <3>1. i + 1 \in Int /\ Len(order) \in Int /\ \A j \in (i + 1)..Len(order) : order[j] \in Key
      BY <2>1, <2>2
    <3> QED BY <2>2, <3>1, SubSeqProperties
  <2> HIDE DEF front, back
  <2>6. /\ left \in Seq(Key) /\ Len(left) = Len(front) + Len(back)
        /\ \A j \in 1 .. Len(front) + Len(back) :
              left[j] = IF j <= Len(front) THEN front[j] ELSE back[j - Len(front)]
    BY <2>4, <2>5, ConcatProperties
  <2> HIDE DEF left
  <2>7. /\ DOMAIN left = 1..(Len(order) - 1)
        /\ \A j \in 1..(Len(order) - 1) :
              left[j] = IF j < i THEN order[j] ELSE order[j + 1]
    <3>1. DOMAIN left = 1..(Len(order) - 1)
      BY <2>1, <2>2, <2>4, <2>5, <2>6, LenProperties
    <3>2. ASSUME NEW j \in 1..(Len(order) - 1), j < i PROVE left[j] = order[j]
      <4>1. j \in 1..(i - 1) /\ j \in 1 .. Len(front) + Len(back) /\ j <= Len(front)
        BY <2>1, <2>2, <2>4, <2>5, <3>2
      <4>2. left[j] = front[j]
        BY <2>6, <4>1
      <4> QED BY <2>4, <4>1, <4>2
    <3>3. ASSUME NEW j \in 1..(Len(order) - 1), ~(j < i) PROVE left[j] = order[j + 1]
      <4>1. /\ j - (i - 1) \in 1..(Len(order) - i) /\ i + (j - (i - 1)) = j + 1
            /\ j \in 1 .. Len(front) + Len(back) /\ ~(j <= Len(front))
            /\ j - Len(front) = j - (i - 1)
        BY <2>1, <2>2, <2>4, <2>5, <3>3
      <4>2. left[j] = back[j - (i - 1)]
        BY <2>6, <4>1
      <4>3. back[j - (i - 1)] = order[i + (j - (i - 1))]
        BY <2>5, <4>1
      <4> QED BY <4>1, <4>2, <4>3
    <3> QED BY <3>1, <3>2, <3>3
  <2>8. \A m, n \in 1..Len(order) : order[m] = order[n] => m = n
    BY <2>1 DEF NoRepeats
  <2>9. NoRepeats(left)
    <3> SUFFICES ASSUME NEW j \in 1..(Len(order) - 1), NEW k \in 1..(Len(order) - 1),
                        left[j] = left[k]
                 PROVE  j = k
      BY <2>7 DEF NoRepeats
    <3> QED BY <2>1, <2>2, <2>7, <2>8
  <2>10. ASSUME NEW y \in Range(left) PROVE y \in Range(order) \ {key}
    <3>1. PICK j \in 1..(Len(order) - 1) : left[j] = y
      BY <2>7, <2>10 DEF Range
    <3>2. PICK k \in 1..Len(order) : order[k] = y /\ k # i
      BY <2>1, <2>2, <2>7, <3>1
    <3>3. y # key
      BY <2>2, <2>8, <3>2
    <3> QED BY <2>1, <3>2, <3>3 DEF Range
  <2>11. ASSUME NEW y \in Range(order) \ {key} PROVE y \in Range(left)
    <3>1. PICK j \in 1..Len(order) : order[j] = y /\ j # i
      BY <2>1, <2>2, <2>11 DEF Range
    <3>2. CASE j < i
      <4>1. j \in 1..(Len(order) - 1) /\ left[j] = y
        BY <2>1, <2>2, <2>7, <3>1, <3>2
      <4> QED BY <2>7, <4>1 DEF Range
    <3>3. CASE j > i
      <4>1. j - 1 \in 1..(Len(order) - 1) /\ left[j - 1] = y
        BY <2>1, <2>2, <2>7, <3>1, <3>3
      <4> QED BY <2>7, <4>1 DEF Range
    <3> QED BY <2>1, <2>2, <3>1, <3>2, <3>3
  <2> QED BY <2>3, <2>6, <2>9, <2>10, <2>11 DEF Order
<1> QED BY <1>1, <1>2

LEMMA TouchedOne ==
  ASSUME NEW order \in Order, NEW key \in Key
  PROVE  /\ Touched(order, key) \in Order
         /\ Range(Touched(order, key)) = Range(order) \cup {key}
BY WithoutOne, AppendTo DEF Touched

\* The order without its first n keys.
LEMMA LaterOnes ==
  ASSUME NEW order \in Order, NEW n \in 0..Len(order)
  PROVE  /\ SubSeq(order, n + 1, Len(order)) \in Order
         /\ Range(SubSeq(order, n + 1, Len(order))) = {order[i] : i \in (n + 1)..Len(order)}
<1> DEFINE left == SubSeq(order, n + 1, Len(order))
           last == {order[i] : i \in (n + 1)..Len(order)}
<1>1. /\ order \in Seq(Key) /\ NoRepeats(order) /\ DOMAIN order = 1..Len(order)
      /\ Len(order) \in Nat /\ \A i \in 1..Len(order) : order[i] \in Key
  BY OrderElements DEF Order
<1>2. n \in Nat /\ n <= Len(order)
  BY <1>1
<1>3. /\ left \in Seq(Key) /\ Len(left) = Len(order) - n
      /\ \A i \in 1..(Len(order) - n) : left[i] = order[n + i]
  <2>1. n + 1 \in Int /\ Len(order) \in Int /\ \A i \in (n + 1)..Len(order) : order[i] \in Key
    BY <1>1, <1>2
  <2>2. /\ left \in Seq(Key)
        /\ Len(left) = IF n + 1 <= Len(order) THEN Len(order) - (n + 1) + 1 ELSE 0
        /\ \A i \in 1 .. Len(order) - (n + 1) + 1 : left[i] = order[(n + 1) + i - 1]
    BY <2>1, SubSeqProperties
  <2> HIDE DEF left
  <2>3. Len(left) = Len(order) - n
    <3>1. CASE n + 1 <= Len(order)
      BY <1>1, <1>2, <2>2, <3>1
    <3>2. CASE n = Len(order)
      BY <1>1, <1>2, <2>2, <3>2
    <3>3. n + 1 <= Len(order) \/ n = Len(order)
      <4>1. n \in Nat /\ Len(order) \in Nat /\ n <= Len(order)
        BY <1>1, <1>2
      <4> QED BY <4>1
    <3> QED BY <3>1, <3>2, <3>3
  <2>4. ASSUME NEW i \in 1..(Len(order) - n) PROVE left[i] = order[n + i]
    <3>1. i \in 1 .. Len(order) - (n + 1) + 1 /\ (n + 1) + i - 1 = n + i
      BY <1>1, <1>2
    <3> QED BY <2>2, <3>1
  <2> QED BY <2>2, <2>3, <2>4
<1> HIDE DEF left
<1>4. DOMAIN left = 1..(Len(order) - n)
  BY <1>3, LenProperties
<1>5. NoRepeats(left)
  <2> SUFFICES ASSUME NEW i \in 1..(Len(order) - n), NEW j \in 1..(Len(order) - n),
                      left[i] = left[j]
               PROVE  i = j
    BY <1>4 DEF NoRepeats
  <2>1. n + i \in 1..Len(order) /\ n + j \in 1..Len(order)
    BY <1>1, <1>2
  <2>2. n + i = n + j
    BY <1>1, <1>3, <2>1 DEF NoRepeats
  <2> QED BY <1>2, <2>2
<1>6. ASSUME NEW y \in Range(left) PROVE y \in last
  <2>1. PICK i \in 1..(Len(order) - n) : y = order[n + i]
    BY <1>3, <1>4, <1>6 DEF Range
  <2>2. n + i \in (n + 1)..Len(order)
    BY <1>1, <1>2
  <2> QED BY <2>1, <2>2
<1>7. ASSUME NEW y \in last PROVE y \in Range(left)
  <2>1. PICK i \in (n + 1)..Len(order) : y = order[i]
    BY <1>7
  <2>2. i - n \in 1..(Len(order) - n) /\ n + (i - n) = i
    BY <1>1, <1>2
  <2>3. left[i - n] = y
    BY <1>3, <2>1, <2>2
  <2> QED BY <1>4, <2>2, <2>3 DEF Range
<1> QED BY <1>3, <1>5, <1>6, <1>7 DEF Order, left

\* What is left of the order lists what is left in memory.
LEMMA EvictKeepsOrder ==
  ASSUME CacheOK, OrderOK, NEW limit, NEW required, Evict(limit, required)
  PROVE  OrderOK'
<1>1. PICK n \in 0..Len(accessOrder) : Keep(n)
  BY DEF Evict
<1>2. accessOrder \in Order /\ accessOrder \in Seq(Key)
  BY DEF OrderOK, Order
<1>3. accessOrder' \in Order /\ Range(accessOrder') = Left(n)
  BY <1>1, <1>2, LaterOnes DEF Keep, Left
<1>4. Left(n) \subseteq CachedKeys
  <2>1. DOMAIN accessOrder = 1..Len(accessOrder) /\ Len(accessOrder) \in Nat
    BY <1>2, OrderElements
  <2>2. \A i \in (n + 1)..Len(accessOrder) : i \in DOMAIN accessOrder
    BY <2>1
  <2> QED BY <2>2 DEF Left, OrderOK, OrderIsOfCachedKeys, Range
<1>5. CachedKeys' = Left(n)
  BY <1>1, <1>4 DEF Keep, CachedKeys
<1> QED BY <1>3, <1>5 DEF OrderOK, OrderIsOfCachedKeys

LEMMA NextOrder == ASSUME CacheOK, OrderOK, [Next]_cachingVars PROVE OrderOK'
<1>1. ASSUME UNCHANGED <<memoryCache, accessOrder>> PROVE OrderOK'
  BY <1>1 DEF OrderOK, OrderIsOfCachedKeys, CachedKeys
<1>2. ASSUME NEW c \in Caller, NEW k \in Key, GetFromMemory(c, k) PROVE OrderOK'
  <2>1. k \in Range(accessOrder)
    BY <1>2 DEF GetFromMemory, IsValidEntry, OrderOK, OrderIsOfCachedKeys, CachedKeys
  <2>2. accessOrder' = Touched(accessOrder, k) /\ accessOrder \in Order
    BY <1>2 DEF GetFromMemory, OrderOK
  <2>3. /\ Touched(accessOrder, k) \in Order
        /\ Range(Touched(accessOrder, k)) = Range(accessOrder) \cup {k}
    BY <2>2, TouchedOne
  <2>4. accessOrder' \in Order /\ Range(accessOrder') = Range(accessOrder)
    BY <2>1, <2>2, <2>3
  <2> QED BY <1>2, <2>4 DEF GetFromMemory, OrderOK, OrderIsOfCachedKeys, CachedKeys
<1>3. ASSUME NEW c \in Caller, NEW k \in Key, GetFromDatabase(c, k) PROVE OrderOK'
  BY <1>1, <1>3 DEF GetFromDatabase
<1>4. ASSUME NEW c \in Caller, GetDelivered(c) PROVE OrderOK'
  BY <1>1, <1>4, EvictKeepsOrder DEF GetDelivered, EnsureMemoryCapacity
<1>5. ASSUME NEW c \in Caller, NEW k \in Key, NEW v \in Value, NEW t \in TTL,
             BeginSet(c, k, v, t)
      PROVE  OrderOK'
  BY <1>5, EvictKeepsOrder DEF BeginSet, EnsureMemoryCapacity
<1>6. ASSUME NEW c \in Caller, Insert(c) PROVE OrderOK'
  <2> DEFINE key == call[c].key
             entry == call[c].entry
  <2>1. key \in Key /\ entry \in Entry
    BY <1>6, CallsAre DEF Insert, Writes
  <2>2. entry # NoEntry
    BY <2>1, CacheAssumption DEF Entry, NoEntry
  <2>3. memoryCache' = [memoryCache EXCEPT ![key] = entry]
    BY <1>6 DEF Insert
  <2>4. CachedKeys' = CachedKeys \cup {key}
    BY <2>1, <2>2, <2>3 DEF CachedKeys, CacheOK
  <2>5. accessOrder' \in Order /\ Range(accessOrder') = Range(accessOrder) \cup {key}
    BY <1>6, <2>1, TouchedOne DEF Insert, OrderOK
  <2> QED BY <2>4, <2>5 DEF OrderOK, OrderIsOfCachedKeys
<1>7. ASSUME NEW c \in Caller, SetIndexedDBCache(c) PROVE OrderOK'
  BY <1>1, <1>7 DEF SetIndexedDBCache
<1>8. ASSUME NEW k \in Key, Delete(k) PROVE OrderOK'
  <2>1. accessOrder' \in Order /\ Range(accessOrder') = Range(accessOrder) \ {k}
    BY <1>8, WithoutOne DEF Delete, Forget, OrderOK
  <2>2. CachedKeys' = CachedKeys \ {k}
    BY <1>8 DEF Delete, Forget, CachedKeys
  <2> QED BY <2>1, <2>2 DEF OrderOK, OrderIsOfCachedKeys
<1>9. ASSUME memoryCache' = Empty, accessOrder' = <<>> PROVE OrderOK'
  <2>1. <<>> \in Order /\ Range(<<>>) = {}
    BY DEF Order, NoRepeats, Range
  <2>2. CachedKeys' = {}
    BY <1>9 DEF CachedKeys, Empty
  <2> QED BY <1>9, <2>1, <2>2 DEF OrderOK, OrderIsOfCachedKeys
<1>10. CASE Clear
  BY <1>9, <1>10 DEF Clear, Forget, Empty
<1>11. CASE PerformEmergencyCleanup
  BY <1>11, EvictKeepsOrder DEF PerformEmergencyCleanup
<1>12. CASE Tick
  BY <1>1, <1>12 DEF Tick
<1>13. CASE Reload
  BY <1>9, <1>13 DEF Reload
<1>14. CASE UNCHANGED cachingVars
  BY <1>1, <1>14 DEF cachingVars
<1> QED BY <1>2, <1>3, <1>4, <1>5, <1>6, <1>7, <1>8, <1>10, <1>11, <1>12, <1>13, <1>14
        DEF Next, CallNext

LEMMA OrderAlwaysOK == Spec => []OrderOK
<1>1. Init => OrderOK
  BY DEF Init, OrderOK, Order, NoRepeats, OrderIsOfCachedKeys, CachedKeys, Empty, Range
<1>2. CacheOK /\ OrderOK /\ [Next]_cachingVars => OrderOK'
  BY NextOrder
<1> QED BY <1>1, <1>2, LevelsTypeCorrect, PTL DEF Spec

(* The order of accesses names exactly the keys in memory, so the eviction   *)
(* loop always finds an entry under the key it picked (findLRUKey).          *)
THEOREM OrderListsCachedKeys == Spec => []OrderIsOfCachedKeys
BY OrderAlwaysOK, PTL DEF OrderOK

(* Both levels, the order, in which no key occurs twice, and the calls       *)
(* always have their types (AdvancedCachingService's fields).                *)
THEOREM CachingTypeCorrect == Spec => []TypeOK
<1>1. CacheOK /\ OrderOK => TypeOK
  <2> SUFFICES ASSUME CacheOK, OrderOK PROVE TypeOK
    OBVIOUS
  <2> DEFINE Calls == [pc : {"idle", "reading", "promoting", "setting", "storing"},
                       key : Key \cup {None}, entry : Entry \cup {NoEntry}]
  <2>1. Idle \in Calls /\ Reads \subseteq Calls /\ Writes \subseteq Calls
    BY DEF Idle, Reads, Writes, Slot
  <2>2. call \in [Caller -> Calls]
    BY <2>1 DEF CacheOK
  <2>3. /\ accessOrder \in Seq(Key)
        /\ \A i, j \in DOMAIN accessOrder : accessOrder[i] = accessOrder[j] => i = j
    BY DEF OrderOK, Order, NoRepeats
  <2> QED BY <2>2, <2>3 DEF TypeOK, CacheOK, Slot
<1> QED BY <1>1, LevelsTypeCorrect, OrderAlwaysOK, PTL

-----------------------------------------------------------------------------
(* OverrunIsBounded.  Who has checked for room and not inserted is promised  *)
(* it; when several have, one of them checked last, and found room beside    *)
(* what was there then.                                                      *)
Largest == Max({Size[v] : v \in Value})
Capacity == Max({MaxMemory, Largest})
Allowance == Capacity + (Cardinality(Caller) - 1) * Largest

Inserting == {c \in Caller : call[c].pc \in {"promoting", "setting"}}
SizeOf(c) == Size[call[c].entry.value]

Room ==
  /\ Usage <= Allowance
  /\ Inserting # {} =>
       \E c \in Inserting :
         Usage + SizeOf(c) + (Cardinality(Inserting) - 1) * Largest <= Allowance

LEMMA LargestIs ==
  /\ Largest \in Nat /\ Capacity \in Nat /\ Allowance \in Nat
  /\ \A v \in Value : Size[v] \in Nat /\ Size[v] <= Largest
  /\ MaxMemory <= Capacity /\ Largest <= Capacity
<1> DEFINE sizes == {Size[v] : v \in Value}
           limits == {MaxMemory, Largest}
<1>1. \A v \in Value : Size[v] \in Nat
  BY CacheAssumption
<1>2. PICK v \in Value : \A other \in Value : Size[other] <= Size[v]
  BY OverrunAssumption
<1>3. \E x \in sizes : \A y \in sizes : x >= y
  <2>1. Size[v] \in sizes /\ \A y \in sizes : Size[v] >= y
    BY <1>1, <1>2
  <2> QED BY <2>1
<1>4. Largest \in sizes /\ \A y \in sizes : Largest >= y
  <2>1. Largest = CHOOSE x \in sizes : \A y \in sizes : x >= y
    BY DEF Largest, Max
  <2> HIDE DEF sizes
  <2> QED BY <1>3, <2>1
<1>5. Largest \in Nat /\ \A w \in Value : Size[w] <= Largest
  BY <1>1, <1>4
<1>6. MaxMemory \in Nat
  BY CacheAssumption
<1>7. \E x \in limits : \A y \in limits : x >= y
  <2>1. CASE MaxMemory >= Largest
    BY <1>5, <1>6, <2>1
  <2>2. CASE Largest >= MaxMemory
    BY <1>5, <1>6, <2>2
  <2> QED BY <1>5, <1>6, <2>1, <2>2
<1>8. Capacity \in limits /\ \A y \in limits : Capacity >= y
  <2>1. Capacity = CHOOSE x \in limits : \A y \in limits : x >= y
    BY DEF Capacity, Max
  <2> HIDE DEF limits
  <2> QED BY <1>7, <2>1
<1>9. Capacity \in Nat /\ MaxMemory <= Capacity /\ Largest <= Capacity
  BY <1>5, <1>6, <1>8
<1>10. Cardinality(Caller) \in Nat
  BY OverrunAssumption, FS_CardinalityType
<1>11. Allowance \in Nat
  <2> DEFINE n == Cardinality(Caller)
  <2>1. n \in Nat /\ Largest \in Nat
    BY <1>5, <1>10
  <2>2. n * Largest \in Nat /\ (n - 1) * Largest = n * Largest - Largest
    BY <2>1
  <2> DEFINE all == n * Largest
  <2> HIDE DEF all
  <2>3. Capacity + (all - Largest) \in Nat
    BY <1>9, <2>1, <2>2 DEF all
  <2> QED BY <2>2, <2>3 DEF Allowance, all
<1> QED BY <1>1, <1>5, <1>9, <1>11

(* What a key in memory takes.                                               *)
LEMMA CachedSizes ==
  ASSUME CacheOK, OrderOK
  PROVE  /\ IsFiniteSet(CachedKeys) /\ CachedKeys \subseteq Key
         /\ \A k \in CachedKeys : Size[memoryCache[k].value] \in Nat
<1> DEFINE positions == 1..Len(accessOrder)
<1>1. /\ accessOrder \in [positions -> Key] /\ Len(accessOrder) \in Nat
      /\ CachedKeys = {accessOrder[i] : i \in positions}
  <2>1. accessOrder \in Seq(Key)
    BY DEF OrderOK, Order
  <2>2. DOMAIN accessOrder = 1..Len(accessOrder) /\ Len(accessOrder) \in Nat
    BY <2>1, OrderElements
  <2> QED BY <2>1, <2>2 DEF OrderOK, OrderIsOfCachedKeys, Range
<1>2. IsFiniteSet(positions)
  BY <1>1, FS_Interval
<1> HIDE DEF positions
<1>3. IsFiniteSet(CachedKeys)
  <2>1. accessOrder \in Surjection(positions, CachedKeys)
    BY <1>1 DEF Surjection
  <2> QED BY <1>2, <2>1, FS_Surjection
<1>4. ASSUME NEW k \in CachedKeys PROVE Size[memoryCache[k].value] \in Nat
  BY CacheAssumption DEF CachedKeys, CacheOK, Slot, Entry
<1> QED BY <1>1, <1>3, <1>4 DEF CachedKeys

Sizes == [k \in Key |-> Size[memoryCache[k].value]]

LEMMA UsageOver ==
  ASSUME NEW keys, IsFiniteSet(keys), NEW memory, NEW f,
         \A k \in keys : f[k] \in Nat /\ Size[memory[k].value] = f[k]
  PROVE  SumFunction([k \in keys |-> Size[memory[k].value]]) = SumFunctionOnSet(f, keys)
<1> DEFINE g == [k \in keys |-> Size[memory[k].value]]
<1>1. SumFunction(g) = SumFunctionOnSet(g, keys)
  BY DEF SumFunction
<1>2. \A k \in keys : f[k] \in Nat /\ g[k] = f[k]
  OBVIOUS
<1> HIDE DEF g
<1>3. SumFunction(g) = SumFunctionOnSet(f, keys)
  BY <1>1, <1>2, SumSame
<1> QED BY <1>3 DEF g

LEMMA UsageIs == ASSUME CacheOK, OrderOK PROVE Usage = SumFunctionOnSet(Sizes, CachedKeys)
<1>1. \A k \in CachedKeys : Sizes[k] \in Nat /\ Size[memoryCache[k].value] = Sizes[k]
  BY CachedSizes DEF Sizes
<1> QED BY <1>1, CachedSizes, UsageOver DEF Usage, UsageOf

UsageOK == Usage \in Nat

LEMMA UsageType == CacheOK /\ OrderOK => UsageOK
<1> SUFFICES ASSUME CacheOK, OrderOK PROVE Usage \in Nat
  BY DEF UsageOK
<1>1. \A k \in CachedKeys : Sizes[k] \in Nat
  BY CachedSizes DEF Sizes
<1> QED BY <1>1, CachedSizes, UsageIs, SumType

\* Memory that loses entries, or keeps them all, takes no more.
LEMMA UsageShrinks ==
  ASSUME CacheOK, OrderOK, CachedKeys' \subseteq CachedKeys,
         \A k \in CachedKeys' : memoryCache'[k] = memoryCache[k]
  PROVE  Usage' <= Usage
<1>1. \A k \in CachedKeys : Sizes[k] \in Nat
  BY CachedSizes DEF Sizes
<1>2. \A k \in CachedKeys' : Sizes[k] \in Nat
  BY <1>1
<1>3. IsFiniteSet(CachedKeys')
  BY CachedSizes, FS_Subset
<1>4. \A k \in CachedKeys' : Size[memoryCache'[k].value] = Sizes[k]
  BY CachedSizes DEF Sizes
<1>5. Usage' = SumFunctionOnSet(Sizes, CachedKeys')
  BY <1>2, <1>3, <1>4, UsageOver DEF Usage, UsageOf
<1>6. SumFunctionOnSet(Sizes, CachedKeys') <= SumFunctionOnSet(Sizes, CachedKeys)
  BY <1>1, CachedSizes, SumSubset
<1> QED BY <1>5, <1>6, UsageIs

\* An eviction makes room for what is to come, unless that is larger than all of it.
LEMMA EvictMakesRoom ==
  ASSUME CacheOK, OrderOK, NEW limit \in Nat, NEW required \in Nat, Evict(limit, required)
  PROVE  /\ CachedKeys' \subseteq CachedKeys
         /\ \A k \in CachedKeys' : memoryCache'[k] = memoryCache[k]
         /\ Usage' = 0 \/ Usage' + required <= limit
<1>1. PICK n \in 0..Len(accessOrder) :
        Keep(n) /\ (n = Len(accessOrder) \/ UsageOf(Left(n)) + required <= limit)
  BY DEF Evict
<1>2. accessOrder \in Seq(Key) /\ Len(accessOrder) \in Nat
      /\ DOMAIN accessOrder = 1..Len(accessOrder)
  BY OrderElements DEF OrderOK, Order
<1>3. Left(n) \subseteq CachedKeys
  <2>1. \A i \in (n + 1)..Len(accessOrder) : i \in DOMAIN accessOrder
    BY <1>2
  <2> QED BY <2>1 DEF Left, OrderOK, OrderIsOfCachedKeys, Range
<1>4. memoryCache' = [k \in Key |-> IF k \in Left(n) THEN memoryCache[k] ELSE NoEntry]
  BY <1>1 DEF Keep
<1>5. CachedKeys' = Left(n) /\ \A k \in Left(n) : memoryCache'[k] = memoryCache[k]
  BY <1>3, <1>4 DEF CachedKeys
<1>6. CASE n = Len(accessOrder)
  <2>1. (n + 1)..Len(accessOrder) = {}
    BY <1>2, <1>6
  <2>2. CachedKeys' = {}
    BY <1>5, <2>1 DEF Left
  <2>3. \A k \in CachedKeys' : Sizes[k] \in Nat /\ Size[memoryCache'[k].value] = Sizes[k]
    BY <2>2
  <2>4. Usage' = SumFunctionOnSet(Sizes, CachedKeys')
    BY <2>2, <2>3, FS_EmptySet, UsageOver DEF Usage, UsageOf
  <2>5. Usage' = 0
    BY <2>2, <2>4, SumEmpty
  <2> QED BY <1>3, <1>5, <2>5
<1>7. CASE UsageOf(Left(n)) + required <= limit
  <2>1. \A k \in CachedKeys' : Sizes[k] \in Nat /\ Size[memoryCache[k].value] = Sizes[k]
    BY <1>3, <1>5, CachedSizes DEF Sizes
  <2>2. \A k \in CachedKeys' : Sizes[k] \in Nat /\ Size[memoryCache'[k].value] = Sizes[k]
    BY <1>5, <2>1
  <2>3. IsFiniteSet(CachedKeys')
    BY <1>3, <1>5, CachedSizes, FS_Subset
  <2>4. Usage' = SumFunctionOnSet(Sizes, CachedKeys')
    BY <2>2, <2>3, UsageOver DEF Usage, UsageOf
  <2>5. UsageOf(Left(n)) = SumFunctionOnSet(Sizes, CachedKeys')
    BY <1>5, <2>1, <2>3, UsageOver DEF UsageOf
  <2> QED BY <1>3, <1>5, <1>7, <2>4, <2>5
<1> QED BY <1>1, <1>6, <1>7

\* An insertion adds its entry at most.
LEMMA InsertAdds ==
  ASSUME CacheOK, OrderOK, NEW c \in Caller, Insert(c)
  PROVE  SizeOf(c) \in Nat /\ SizeOf(c) <= Largest /\ Usage' <= Usage + SizeOf(c)
<1> DEFINE key == call[c].key
           entry == call[c].entry
           others == CachedKeys \ {key}
           f == [k \in Key |-> IF k = key THEN SizeOf(c) ELSE Sizes[k]]
<1>1. key \in Key /\ entry \in Entry
  BY CallsAre DEF Insert, Writes
<1>2. SizeOf(c) \in Nat /\ SizeOf(c) <= Largest
  BY <1>1, LargestIs DEF SizeOf, Entry
<1>3. memoryCache' = [memoryCache EXCEPT ![key] = entry]
  BY DEF Insert
<1>4. CachedKeys' = others \cup {key}
  BY <1>1, <1>3, CacheAssumption DEF CachedKeys, CacheOK, Entry, NoEntry
<1>5. \A k \in others : Sizes[k] \in Nat /\ f[k] = Sizes[k]
  BY CachedSizes DEF Sizes
<1>6. f[key] = SizeOf(c)
  BY <1>1
<1>7. \A k \in CachedKeys' : f[k] \in Nat /\ Size[memoryCache'[k].value] = f[k]
  <2>1. \A k \in others : memoryCache'[k] = memoryCache[k] /\ k \in Key
    BY <1>3, CachedSizes DEF CacheOK
  <2>2. memoryCache'[key] = entry
    BY <1>1, <1>3 DEF CacheOK
  <2> HIDE DEF f
  <2>3. \A k \in others : Size[memoryCache'[k].value] = f[k]
    BY <1>5, <2>1 DEF Sizes
  <2>4. Size[memoryCache'[key].value] = f[key]
    BY <1>6, <2>2 DEF SizeOf
  <2> QED BY <1>2, <1>4, <1>5, <1>6, <2>3, <2>4
<1> HIDE DEF f
<1>8. IsFiniteSet(others) /\ IsFiniteSet(CachedKeys') /\ key \notin others
  <2>1. IsFiniteSet(others)
    BY CachedSizes, FS_Subset
  <2> QED BY <1>4, <2>1, FS_AddElement
<1>9. Usage' = SumFunctionOnSet(f, others \cup {key})
  <2>1. Usage' = SumFunctionOnSet(f, CachedKeys')
    BY <1>7, <1>8, UsageOver DEF Usage, UsageOf
  <2> QED BY <1>4, <2>1
<1>10. SumFunctionOnSet(f, others \cup {key}) = SizeOf(c) + SumFunctionOnSet(f, others)
  BY <1>4, <1>6, <1>7, <1>8, SumAdd
<1>11. SumFunctionOnSet(f, others) = SumFunctionOnSet(Sizes, others)
  BY <1>5, <1>8, SumSame
<1>12. SumFunctionOnSet(Sizes, others) <= Usage
  <2>1. \A k \in CachedKeys : Sizes[k] \in Nat
    BY CachedSizes DEF Sizes
  <2>2. others \in SUBSET CachedKeys
    OBVIOUS
  <2> HIDE DEF others
  <2> QED BY <2>1, <2>2, CachedSizes, UsageIs, SumSubset
<1>13. SumFunctionOnSet(Sizes, others) \in Nat /\ Usage \in Nat
  BY <1>5, <1>8, SumType, UsageType DEF UsageOK
<1> QED BY <1>2, <1>9, <1>10, <1>11, <1>12, <1>13

InsertingOK ==
  /\ IsFiniteSet(Inserting) /\ Inserting \subseteq Caller
  /\ Cardinality(Inserting) \in Nat /\ Cardinality(Inserting) <= Cardinality(Caller)
  /\ \A c \in Inserting : SizeOf(c) \in Nat /\ SizeOf(c) <= Largest

LEMMA InsertingCounts == CacheOK => InsertingOK
<1> SUFFICES ASSUME CacheOK PROVE InsertingOK
  OBVIOUS
<1>1. Inserting \in SUBSET Caller
  BY DEF Inserting
<1>2. IsFiniteSet(Inserting) /\ Cardinality(Inserting) <= Cardinality(Caller)
  BY <1>1, OverrunAssumption, FS_Subset
<1>3. ASSUME NEW c \in Inserting PROVE SizeOf(c) \in Nat /\ SizeOf(c) <= Largest
  <2>1. c \in Caller /\ call[c] \in Writes
    BY CallsAre DEF Inserting
  <2> QED BY <2>1, LargestIs DEF Writes, Entry, SizeOf
<1> QED BY <1>1, <1>2, <1>3, FS_CardinalityType DEF InsertingOK

\* Both, before and after a step.
LEMMA CountsOK ==
  CacheOK /\ OrderOK /\ CacheOK' /\ OrderOK' =>
    UsageOK /\ UsageOK' /\ InsertingOK /\ InsertingOK'
BY UsageType, InsertingCounts, PTL

\* One call among n, p of which are inserting.
LEMMA OneOf ==
  ASSUME NEW usage \in Nat, NEW size \in Nat, NEW capacity \in Nat, NEW largest \in Nat,
         NEW n \in Nat, NEW p \in Nat, p # 0, p <= n, usage + size <= capacity
  PROVE  /\ usage + size + (p - 1) * largest <= capacity + (n - 1) * largest
         /\ usage <= capacity + (n - 1) * largest
<1>1. (p - 1) * largest <= (n - 1) * largest /\ 0 <= (p - 1) * largest
  OBVIOUS
<1>2. (p - 1) * largest \in Int /\ (n - 1) * largest \in Int
  OBVIOUS
<1> DEFINE a == (p - 1) * largest
           b == (n - 1) * largest
<1> HIDE DEF a, b
<1>3. a \in Int /\ b \in Int /\ a <= b /\ 0 <= a
  BY <1>1, <1>2 DEF a, b
<1>4. usage + size + a <= capacity + b /\ usage <= capacity + b
  BY <1>3
<1> QED BY <1>4 DEF a, b

\* A call that has made room is promised it, beside one largest entry for each other.
LEMMA RoomOnCheck ==
  ASSUME CacheOK, OrderOK, CacheOK', OrderOK',
         NEW c \in Caller, NEW next, Go(c, next), next.pc \in {"promoting", "setting"},
         next.entry.value \in Value, Evict(MaxMemory, Size[next.entry.value])
  PROVE  Room'
<1> DEFINE s == Size[next.entry.value]
           n == Cardinality(Caller)
           p == Cardinality(Inserting')
<1>1. s \in Nat /\ s <= Largest /\ s <= Capacity /\ MaxMemory \in Nat
      /\ Largest \in Nat /\ Capacity \in Nat /\ MaxMemory <= Capacity
  BY LargestIs, CacheAssumption
<1>2. Usage' = 0 \/ Usage' + s <= MaxMemory
  BY <1>1, EvictMakesRoom
<1>3. Usage' \in Nat /\ p \in Nat /\ p <= n /\ n \in Nat
  BY CountsOK, OverrunAssumption, FS_CardinalityType DEF UsageOK, InsertingOK
<1>4. call'[c] = next
  BY DEF Go, CacheOK
<1>5. c \in Inserting' /\ SizeOf(c)' = s
  BY <1>4 DEF Inserting, SizeOf
<1>6. p # 0
  BY <1>5, CountsOK, FS_EmptySet DEF InsertingOK
<1>7. Usage' + s <= Capacity
  <2> DEFINE usage == Usage'
  <2>1. usage \in Nat /\ (usage = 0 \/ usage + s <= MaxMemory)
    BY <1>2, <1>3
  <2> HIDE DEF usage, s
  <2>2. usage + s <= Capacity
    BY <1>1, <2>1
  <2> QED BY <2>2 DEF usage
<1> HIDE DEF s, n, p
<1>8. /\ Usage' + s + (p - 1) * Largest <= Capacity + (n - 1) * Largest
      /\ Usage' <= Capacity + (n - 1) * Largest
  BY <1>1, <1>3, <1>6, <1>7, OneOf
<1> QED BY <1>5, <1>8 DEF Room, Allowance, n, p, s

\* One call fewer is inserting; the entry of another may have taken its room.
LEMMA OneLess ==
  ASSUME NEW before \in Nat, NEW after \in Nat, NEW size \in Nat, NEW next \in Nat,
         NEW largest \in Nat, NEW allowance \in Int, NEW p \in Nat, p >= 2,
         after + next <= before + size + largest,
         before + size + (p - 1) * largest <= allowance
  PROVE  /\ after + next + ((p - 1) - 1) * largest <= allowance
         /\ after <= allowance
<1> DEFINE a == (p - 1) * largest
           b == ((p - 1) - 1) * largest
<1>1. a \in Int /\ b \in Int /\ a = b + largest /\ 0 <= b
  OBVIOUS
<1>2. before + size + a <= allowance
  OBVIOUS
<1> HIDE DEF a, b
<1>3. after + next + b <= allowance /\ after <= allowance
  BY <1>1, <1>2
<1> QED BY <1>3 DEF b

LEMMA RoomOnInsert ==
  ASSUME CacheOK, OrderOK, CacheOK', OrderOK', Room, NEW c \in Caller, Insert(c)
  PROVE  Room'
<1> DEFINE p == Cardinality(Inserting)
           before == Usage
           after == Usage'
<1>1. PICK next \in {Storing(call[c].key, call[c].entry), Idle} : Go(c, next)
  BY DEF Insert
<1>2. next.pc \notin {"promoting", "setting"}
  BY DEF Storing, Idle
<1>3. \A d \in Caller : call'[d] = IF d = c THEN next ELSE call[d]
  BY <1>1 DEF Go, CacheOK
<1>4. c \in Inserting
  BY DEF Insert, Inserting
<1>5. Inserting' = Inserting \ {c}
  BY <1>2, <1>3 DEF Inserting
<1>6. /\ \A d \in Inserting' : SizeOf(d)' = SizeOf(d)
      /\ \A d \in Inserting : SizeOf(d) \in Nat /\ SizeOf(d) <= Largest
  <2>1. \A d \in Inserting' : call'[d] = call[d]
    BY <1>3, <1>5 DEF Inserting
  <2> QED BY <2>1, CountsOK DEF SizeOf, InsertingOK
<1>7. p \in Nat /\ p # 0 /\ Cardinality(Inserting') = p - 1 /\ (Inserting' = {} <=> p - 1 = 0)
  <2>1. IsFiniteSet(Inserting) /\ IsFiniteSet(Inserting') /\ p \in Nat
    BY CountsOK DEF InsertingOK
  <2>2. Cardinality(Inserting') = p - 1
    BY <1>4, <1>5, <2>1, FS_RemoveElement
  <2> QED BY <1>4, <2>1, <2>2, FS_EmptySet
<1>8. before \in Nat /\ after \in Nat /\ Largest \in Nat /\ Allowance \in Int
  BY CountsOK, LargestIs DEF UsageOK
<1>9. SizeOf(c) \in Nat /\ SizeOf(c) <= Largest /\ after <= before + SizeOf(c)
  BY InsertAdds
<1>10. PICK w \in Inserting : before + SizeOf(w) + (p - 1) * Largest <= Allowance
  BY <1>4 DEF Room
<1>11. SizeOf(w) \in Nat /\ SizeOf(w) <= Largest
  BY <1>6
<1> SUFFICES
      /\ after <= Allowance
      /\ p - 1 # 0 =>
           \E d \in Inserting' :
             after + SizeOf(d) + ((p - 1) - 1) * Largest <= Allowance
  <2>1. Inserting' # {} => p - 1 # 0
    BY <1>7
  <2>2. \A d \in Inserting' : SizeOf(d)' = SizeOf(d)
    BY <1>6
  <2> QED BY <1>7, <2>1, <2>2 DEF Room, Allowance, Capacity, Largest
<1> HIDE DEF p, before, after
<1>12. CASE p - 1 = 0
  <2>1. w = c
    BY <1>5, <1>7, <1>12 DEF p
  <2>2. (p - 1) * Largest = 0
    BY <1>8, <1>12
  <2>3. before + SizeOf(c) <= Allowance
    BY <1>8, <1>9, <1>10, <2>1, <2>2
  <2> QED BY <1>8, <1>9, <1>12, <2>3
<1>13. CASE p - 1 # 0
  <2>1. p >= 2
    BY <1>7, <1>13
  <2>2. PICK d \in Inserting' :
          SizeOf(d) \in Nat /\ after + SizeOf(d) <= before + SizeOf(w) + Largest
    <3>1. CASE w = c
      <4>1. PICK d : d \in Inserting'
        BY <1>7, <1>13
      <4>2. SizeOf(d) \in Nat /\ SizeOf(d) <= Largest
        BY <1>5, <1>6, <4>1
      <4> QED BY <1>8, <1>9, <1>11, <3>1, <4>1, <4>2
    <3>2. CASE w # c
      <4>1. w \in Inserting'
        BY <1>5, <3>2
      <4>2. after + SizeOf(w) <= before + SizeOf(w) + Largest
        BY <1>8, <1>9, <1>11
      <4> QED BY <1>11, <4>1, <4>2
    <3> QED BY <3>1, <3>2
  <2>3. /\ after + SizeOf(d) + ((p - 1) - 1) * Largest <= Allowance
        /\ after <= Allowance
    BY <1>7, <1>8, <1>10, <1>11, <2>1, <2>2, OneLess
  <2> QED BY <2>2, <2>3
<1> QED BY <1>12, <1>13

\* Nothing else adds to memory or lets a call insert.
LEMMA RoomKept ==
  ASSUME CacheOK, OrderOK, CacheOK', OrderOK', Room, CachedKeys' \subseteq CachedKeys,
         \A k \in CachedKeys' : memoryCache'[k] = memoryCache[k],
         Inserting' = Inserting, \A c \in Inserting : call'[c] = call[c]
  PROVE  Room'
<1>1. Usage' <= Usage /\ Usage \in Nat /\ Usage' \in Nat
  BY CountsOK, UsageShrinks DEF UsageOK
<1>2. /\ Largest \in Nat /\ Allowance \in Int /\ Cardinality(Inserting) \in Nat
      /\ \A c \in Inserting : SizeOf(c) \in Nat /\ SizeOf(c)' = SizeOf(c)
  BY LargestIs, CountsOK DEF SizeOf, InsertingOK
<1>3. Usage' <= Allowance
  BY <1>1, <1>2 DEF Room
<1>4. ASSUME NEW c \in Inserting,
             Usage + SizeOf(c) + (Cardinality(Inserting) - 1) * Largest <= Allowance
      PROVE  Usage' + SizeOf(c) + (Cardinality(Inserting) - 1) * Largest <= Allowance
  <2> DEFINE rest == (Cardinality(Inserting) - 1) * Largest
  <2>1. rest \in Int /\ Usage + SizeOf(c) + rest <= Allowance /\ SizeOf(c) \in Nat
    BY <1>2, <1>4
  <2> HIDE DEF rest
  <2>2. Usage' + SizeOf(c) + rest <= Allowance
    BY <1>1, <1>2, <2>1
  <2> QED BY <2>2 DEF rest
<1> QED BY <1>2, <1>3, <1>4 DEF Room, Allowance, Capacity, Largest

\* A step of a call that is not inserting, before or after it.
LEMMA SameInserting ==
  ASSUME CacheOK, NEW c \in Caller, NEW next, Go(c, next),
         call[c].pc \notin {"promoting", "setting"}, next.pc \notin {"promoting", "setting"}
  PROVE  Inserting' = Inserting /\ \A d \in Inserting : call'[d] = call[d]
<1>1. \A d \in Caller : call'[d] = IF d = c THEN next ELSE call[d]
  BY DEF Go, CacheOK
<1> QED BY <1>1 DEF Inserting

LEMMA NextRoom ==
  ASSUME CacheOK, OrderOK, CacheOK', OrderOK', Room, [Next]_cachingVars
  PROVE  Room'
<1>1. ASSUME memoryCache' = memoryCache
      PROVE  CachedKeys' = CachedKeys /\ \A k \in CachedKeys' : memoryCache'[k] = memoryCache[k]
  BY <1>1 DEF CachedKeys
<1>2. ASSUME call' = call
      PROVE  Inserting' = Inserting /\ \A c \in Inserting : call'[c] = call[c]
  BY <1>2 DEF Inserting
<1>3. ASSUME NEW c \in Caller, NEW next, Go(c, next), memoryCache' = memoryCache,
             call[c].pc \notin {"promoting", "setting"},
             next.pc \notin {"promoting", "setting"}
      PROVE  Room'
  BY <1>1, <1>3, SameInserting, RoomKept
<1>4. ASSUME NEW c \in Caller, NEW k \in Key, GetFromMemory(c, k) PROVE Room'
  BY <1>1, <1>2, <1>4, RoomKept DEF GetFromMemory
<1>5. ASSUME NEW c \in Caller, NEW k \in Key, GetFromDatabase(c, k) PROVE Room'
  <2>1. PICK found : Go(c, Reading(k, found))
    BY <1>5 DEF GetFromDatabase
  <2> QED BY <1>3, <1>5, <2>1 DEF GetFromDatabase, Reading, Idle
<1>6. ASSUME NEW c \in Caller, GetDelivered(c) PROVE Room'
  <2> DEFINE found == call[c].entry
             entry == [found EXCEPT !.timestamp = now]
             next == Promoting(call[c].key, entry)
  <2>1. CASE IsValidEntry(found)
    <3>1. found \in Entry
      BY <1>6, <2>1, CallsAre DEF GetDelivered, IsValidEntry, Reads, Slot
    <3>2. entry.value = found.value /\ found.value \in Value
      BY <3>1 DEF Entry
    <3>3. Go(c, next) /\ Evict(MaxMemory, Size[found.value])
      BY <1>6, <2>1 DEF GetDelivered, EnsureMemoryCapacity
    <3>4. next.pc = "promoting" /\ next.entry = entry
      BY DEF Promoting
    <3> HIDE DEF next, entry
    <3> QED BY <3>2, <3>3, <3>4, RoomOnCheck
  <2>2. CASE ~IsValidEntry(found)
    BY <1>3, <1>6, <2>2 DEF GetDelivered, Idle
  <2> QED BY <2>1, <2>2
<1>7. ASSUME NEW c \in Caller, NEW k \in Key, NEW v \in Value, NEW t \in TTL,
             BeginSet(c, k, v, t)
      PROVE  Room'
  <2> DEFINE next == Setting(k, NewEntry(v, t))
  <2>1. Go(c, next) /\ Evict(MaxMemory, Size[v])
    BY <1>7 DEF BeginSet, EnsureMemoryCapacity
  <2>2. next.pc = "setting" /\ next.entry.value = v
    BY DEF Setting, NewEntry
  <2> HIDE DEF next
  <2> QED BY <2>1, <2>2, RoomOnCheck
<1>8. ASSUME NEW c \in Caller, Insert(c) PROVE Room'
  BY <1>8, RoomOnInsert
<1>9. ASSUME NEW c \in Caller, SetIndexedDBCache(c) PROVE Room'
  BY <1>3, <1>9 DEF SetIndexedDBCache, Idle
<1>10. ASSUME NEW keys \in SUBSET Key, NEW order, Forget(keys, order) PROVE Room'
  <2>1. CachedKeys' \subseteq CachedKeys /\ \A k \in CachedKeys' : memoryCache'[k] = memoryCache[k]
    BY <1>10 DEF Forget, CachedKeys
  <2> QED BY <1>2, <1>10, <2>1, RoomKept DEF Forget
<1>11. CASE PerformEmergencyCleanup
  <2>1. MaxMemory \div 2 \in Nat
    BY CacheAssumption
  <2>2. CachedKeys' \subseteq CachedKeys /\ \A k \in CachedKeys' : memoryCache'[k] = memoryCache[k]
    BY <1>11, <2>1, EvictMakesRoom DEF PerformEmergencyCleanup
  <2> QED BY <1>2, <1>11, <2>2, RoomKept DEF PerformEmergencyCleanup
<1>12. CASE Tick
  BY <1>1, <1>2, <1>12, RoomKept DEF Tick
<1>13. CASE Reload
  <2>1. CachedKeys' = {} /\ Inserting' = {}
    BY <1>13 DEF Reload, Empty, CachedKeys, Inserting, Idle
  <2>2. Usage' <= Usage /\ Usage \in Nat /\ Usage' \in Nat
    BY <2>1, CountsOK, UsageShrinks DEF UsageOK
  <2>3. Usage' <= Allowance
    BY <2>2, LargestIs DEF Room
  <2> QED BY <2>1, <2>3 DEF Room, Allowance, Capacity, Largest
<1>14. CASE UNCHANGED cachingVars
  BY <1>1, <1>2, <1>14, RoomKept DEF cachingVars
<1> QED BY <1>4, <1>5, <1>6, <1>7, <1>8, <1>9, <1>10, <1>11, <1>12, <1>13, <1>14
        DEF Next, CallNext, Delete, Clear

(* However many calls pass the check before any of them inserts, memory      *)
(* exceeds its maximum by one largest entry at most for each other call      *)
(* (ensureMemoryCapacity awaited by setMemoryCache).                         *)
THEOREM MemoryOverrunBounded == Spec => []OverrunIsBounded
<1>1. Init => Room
  <2> SUFFICES ASSUME Init PROVE Room
    OBVIOUS
  <2>1. CachedKeys = {} /\ Inserting = {}
    BY DEF Init, Empty, CachedKeys, Inserting, Idle
  <2>2. Usage = 0
    <3>1. \A k \in CachedKeys : Sizes[k] \in Nat /\ Size[memoryCache[k].value] = Sizes[k]
      BY <2>1
    <3>2. Usage = SumFunctionOnSet(Sizes, CachedKeys)
      BY <2>1, <3>1, FS_EmptySet, UsageOver DEF Usage, UsageOf
    <3> QED BY <2>1, <3>2, SumEmpty
  <2>3. 0 <= Allowance
    BY LargestIs
  <2> QED BY <2>1, <2>2, <2>3 DEF Room
<1>2. /\ CacheOK /\ OrderOK /\ CacheOK' /\ OrderOK' /\ Room /\ [Next]_cachingVars
      => Room'
  BY NextRoom
<1>3. Room => OverrunIsBounded
  BY DEF Room, Allowance, Capacity, Largest, OverrunIsBounded
<1> QED BY <1>1, <1>2, <1>3, LevelsTypeCorrect, OrderAlwaysOK, PTL DEF Spec

=============================================================================
