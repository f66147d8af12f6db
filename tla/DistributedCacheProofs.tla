------------------------- MODULE DistributedCacheProofs -------------------------
(***************************************************************************)
(* For any instances, callers, keys, tags, lives and faults: types, that the*)
(* set of a tag covers what Redis holds, that every set of keys gets an     *)
(* expiry, and which copies can be old; each with its exceptions.           *)
(***************************************************************************)
EXTENDS DistributedCache, TLAPS

-----------------------------------------------------------------------------
(* Facts about the operators.                                                *)
LEMMA LifeBounds ==
  /\ Life \subseteq Nat \ {0}
  /\ \A ttl \in TTL : ttl \in Life /\ ttl \in Nat \ {0}
  /\ \A l \in Life : l # 1 => l - 1 \in Life
<1>1. \A ttl \in TTL : ttl \in Nat \ {0}
  BY DistributedAssumption
<1>2. \A ttl \in TTL : 1..ttl \subseteq Life
  BY DEF Life
<1>3. \A l \in Life : \E ttl \in TTL : l \in 1..ttl
  BY DEF Life
<1>4. \A l \in Life : l \in Nat \ {0}
  BY <1>1, <1>3
<1>5. \A ttl \in TTL : ttl \in 1..ttl
  BY <1>1
<1>6. ASSUME NEW l \in Life, l # 1 PROVE l - 1 \in Life
  <2>1. PICK ttl \in TTL : l \in 1..ttl
    BY <1>3
  <2>2. l - 1 \in 1..ttl
    BY <1>1, <1>6, <2>1
  <2> QED BY <1>2, <2>1, <2>2
<1> QED BY <1>1, <1>2, <1>4, <1>5, <1>6

(* The fields a call has at each of its awaits.                              *)
LEMMA CallFields ==
  ASSUME NEW m \in Calls \cup {Idle}
  PROVE  /\ m.pc # "idle" <=> m # Idle
         /\ m # Idle => m.key \in Key /\ m.instance \in Instance
         /\ m.key \in Key => m # Idle
         /\ m.pc = "storing" => m.value \in Value
         /\ m.pc = "setting" => m.value \in Value
         /\ m.pc \in {"setting", "adding", "expiring"} =>
              m.ttl \in TTL /\ m.tags \in SUBSET Tag
         /\ m.pc = "expiring" => m.tag \in Tag
         /\ m.pc = "queueing" => m.answered \in BOOLEAN
         /\ m.pc \in {"idle", "getting", "storing", "setting", "adding", "expiring",
                      "deleting", "queueing"}
<1>1. None \notin Key
  BY DistributedAssumption
<1> QED BY <1>1 DEF Calls, Idle

(* Every entry of the local cache stays, goes, or is the one that is stored. *)
LEMMA Stored ==
  ASSUME TypeOK, NEW i \in Instance, NEW k \in Key, NEW value, NEW tags,
         StoreInLocalCache(i, k, value, tags)
  PROVE  /\ \A j \in Instance \ {i} : local'[j] = local[j]
         /\ local'[i][k] = [value |-> value, tags |-> tags]
         /\ \A m \in Key \ {k} : local'[i][m] \in {local[i][m], NoLocal}
         /\ value \in Value /\ tags \in SUBSET Tag =>
              local' \in [Instance -> [Key -> LocalEntry]]
<1> DEFINE entry == [value |-> value, tags |-> tags]
<1>1. PICK gone : local' = [local EXCEPT ![i] =
                    [m \in Key |-> IF m = k THEN entry
                                   ELSE IF m \in gone THEN NoLocal ELSE @[m]]]
  BY DEF StoreInLocalCache
<1>2. local \in [Instance -> [Key -> LocalEntry]]
  BY DEF TypeOK
<1>3. NoLocal \in LocalEntry /\ (value \in Value /\ tags \in SUBSET Tag => entry \in LocalEntry)
  BY DEF LocalEntry
<1> HIDE DEF entry
<1>4. local' = [local EXCEPT ![i] = [m \in Key |-> IF m = k THEN entry
                                   ELSE IF m \in gone THEN NoLocal ELSE local[i][m]]]
  BY <1>1
<1>5. local'[i] = [m \in Key |-> IF m = k THEN entry
                                 ELSE IF m \in gone THEN NoLocal ELSE local[i][m]]
  BY <1>2, <1>4
<1>6. value \in Value /\ tags \in SUBSET Tag => local' \in [Instance -> [Key -> LocalEntry]]
  BY <1>2, <1>3, <1>4, <1>5
<1> QED BY <1>2, <1>4, <1>5, <1>6 DEF entry

LEMMA LivedEntry ==
  ASSUME NEW e \in RedisEntry
  PROVE  /\ Alive(e, NoEntry) \in RedisEntry
         /\ Alive(e, NoEntry).value \in {e.value, None}
         /\ Alive(e, NoEntry) # NoEntry => e # NoEntry /\ e.life > 1
                                          /\ Alive(e, NoEntry).life = e.life - 1
<1>1. CASE e = NoEntry
  BY <1>1 DEF Alive, NoEntry, Forever, RedisEntry
<1>2. CASE e # NoEntry
  <2>1. e \in [value : Value, life : Life] /\ e.life \in Nat \ {0}
    BY <1>2, LifeBounds DEF RedisEntry
  <2>2. CASE e.life = 1
    BY <2>1, <2>2 DEF Alive, NoEntry, Forever, RedisEntry
  <2>3. CASE e.life # 1
    <3>1. Alive(e, NoEntry) = [value |-> e.value, life |-> e.life - 1]
      BY <2>1, <2>3 DEF Alive, Forever
    <3>2. e.life - 1 \in Life /\ e.life > 1
      BY <2>1, <2>3, LifeBounds
    <3> QED BY <1>2, <2>1, <3>1, <3>2 DEF RedisEntry
  <2> QED BY <2>2, <2>3
<1> QED BY <1>1, <1>2

LEMMA LivedIndex ==
  ASSUME NEW s \in IndexEntry
  PROVE  /\ Alive(s, NoIndex) \in IndexEntry
         /\ s.life = Forever => Alive(s, NoIndex) = s
         /\ s.life # Forever /\ s.life # 1 =>
              /\ Alive(s, NoIndex).members = s.members
              /\ Alive(s, NoIndex).life = s.life - 1
         /\ s.life = 1 => Alive(s, NoIndex) = NoIndex
<1>1. CASE s.life = Forever
  BY <1>1 DEF Alive, Forever
<1>2. CASE s.life # Forever
  <2>1. /\ s \in [members : (SUBSET Key) \ {{}}, life : Life \cup {Forever}]
        /\ s.life \in Life /\ s.life \in Nat \ {0}
    <3>1. s # NoIndex
      BY <1>2 DEF NoIndex, Forever
    <3>2. s \in [members : (SUBSET Key) \ {{}}, life : Life \cup {Forever}]
      BY <3>1 DEF IndexEntry
    <3> QED BY <1>2, <3>2, LifeBounds
  <2>2. CASE s.life = 1
    BY <2>1, <2>2 DEF Alive, NoIndex, Forever, IndexEntry
  <2>3. CASE s.life # 1
    <3>1. Alive(s, NoIndex) = [members |-> s.members, life |-> s.life - 1]
      BY <2>1, <2>3 DEF Alive, Forever
    <3>2. s.life - 1 \in Life
      BY <2>1, <2>3, LifeBounds
    <3> QED BY <2>1, <2>3, <3>1, <3>2 DEF IndexEntry, Forever
  <2> QED BY <2>2, <2>3
<1> QED BY <1>1, <1>2

LEMMA Goes ==
  ASSUME TypeOK, NEW c \in Caller, NEW next \in Calls \cup {Idle}, Go(c, next)
  PROVE  /\ call' \in [Caller -> Calls \cup {Idle}]
         /\ call'[c] = next /\ \A d \in Caller \ {c} : call'[d] = call[d]
<1>1. call \in [Caller -> Calls \cup {Idle}]
  BY DEF TypeOK
<1> QED BY <1>1 DEF Go

LEMMA Faulty ==
  ASSUME TypeOK
  PROVE  /\ faults \in Nat
         /\ Fault \/ UNCHANGED faults => faults' \in 0..MaxFaults
         /\ Fault => faults' > 0
         /\ faults' \in 0..MaxFaults /\ Operation => operations' \in 0..MaxOperations
         /\ Operation => operations' \in 0..MaxOperations
<1>1. /\ faults \in 0..MaxFaults /\ MaxFaults \in Nat
      /\ operations \in 0..MaxOperations /\ MaxOperations \in Nat
  BY DistributedAssumption DEF TypeOK
<1> QED BY <1>1 DEF Fault, Operation

-----------------------------------------------------------------------------
(* Types.                                                                    *)
LEMMA LoseTyped ==
  ASSUME TypeOK, NEW tags \in SUBSET Tag, Lose(tags)
  PROVE  endless' \subseteq Tag
BY DEF TypeOK, Lose

LEMMA ForgetTyped ==
  ASSUME TypeOK, NEW tags, Forget(tags)
  PROVE  invalidated' \subseteq Key
BY DEF TypeOK, Forget

LEMMA FetchTyped ==
  ASSUME TypeOK, NEW c \in Caller, NEW i \in Instance, NEW k \in Key, Fetch(c, i, k)
  PROVE  TypeOK'
<1>1. [pc |-> "getting", instance |-> i, key |-> k] \in Calls
  BY DEF Calls
<1>2. call' \in [Caller -> Calls \cup {Idle}]
  BY <1>1, Goes DEF Fetch
<1>3. operations' \in 0..MaxOperations
  BY Faulty DEF Fetch
<1> QED BY <1>2, <1>3 DEF Fetch, TypeOK, localVars

LEMMA ReadTyped ==
  ASSUME TypeOK, NEW c \in Caller, Read(c)
  PROVE  TypeOK'
<1> DEFINE k == call[c].key
<1>0. call[c] \in Calls \cup {Idle} /\ call[c].pc = "getting"
  BY DEF TypeOK, Read
<1>1. k \in Key /\ call[c].instance \in Instance
  BY <1>0, CallFields
<1>2. redis[k] # NoEntry => redis[k].value \in Value
  BY <1>1 DEF TypeOK, RedisEntry
<1>3. redis[k] # NoEntry =>
        [pc |-> "storing", instance |-> call[c].instance, key |-> k,
         value |-> redis[k].value] \in Calls
  BY <1>1, <1>2 DEF Calls
<1>4. call' \in [Caller -> Calls \cup {Idle}]
  BY <1>3, Goes DEF Read
<1>5. faults' \in 0..MaxFaults
  BY Faulty DEF Read
<1> QED BY <1>4, <1>5 DEF Read, TypeOK, localVars, history, ofCalls

LEMMA StoreTyped ==
  ASSUME TypeOK, NEW c \in Caller, Store(c)
  PROVE  TypeOK'
<1>0. call[c] \in Calls \cup {Idle} /\ call[c].pc = "storing"
  BY DEF TypeOK, Store
<1>1. call[c].key \in Key /\ call[c].instance \in Instance /\ call[c].value \in Value
  BY <1>0, CallFields
<1>2. local' \in [Instance -> [Key -> LocalEntry]]
  <2>1. StoreInLocalCache(call[c].instance, call[c].key, call[c].value, {})
    BY DEF Store
  <2>2. {} \in SUBSET Tag
    OBVIOUS
  <2> QED BY <1>1, <2>1, <2>2, Stored
<1>3. call' \in [Caller -> Calls \cup {Idle}]
  BY Goes DEF Store
<1>4. old' \in [Instance -> SUBSET Key]
  BY <1>1 DEF Store, TypeOK
<1> QED BY <1>2, <1>3, <1>4 DEF Store, TypeOK

LEMMA ExpiredTyped ==
  ASSUME TypeOK, NEW i \in Instance, NEW k \in Key, Expired(i, k)
  PROVE  TypeOK'
<1>1. local' \in [Instance -> [Key -> LocalEntry]]
  BY DEF Expired, TypeOK, LocalEntry
<1> QED BY <1>1 DEF Expired, TypeOK, history, ofCalls

LEMMA ChangeTyped ==
  ASSUME TypeOK, NEW i \in Instance, NEW k \in Key, NEW set \in LocalEntry,
         ChangeThrough(i, k, set)
  PROVE  /\ latest' \in [Key -> LocalEntry] /\ old' \in [Instance -> SUBSET Key]
         /\ unsure' \subseteq suspect' /\ suspect' \subseteq Key /\ endless' \subseteq Tag
         /\ overtaken' \subseteq Caller
BY DEF TypeOK, ChangeThrough, BeingRead, InProgress

LEMMA BeginSetTyped ==
  ASSUME TypeOK, NEW c \in Caller, NEW i \in Instance, NEW k \in Key, NEW v \in Value,
         NEW ttl \in TTL, NEW tags \in SUBSET Tag, BeginSet(c, i, k, v, ttl, tags)
  PROVE  TypeOK'
<1>1. [pc |-> "setting", instance |-> i, key |-> k, value |-> v, ttl |-> ttl,
       tags |-> tags] \in Calls
  BY DEF Calls
<1>2. call' \in [Caller -> Calls \cup {Idle}]
  BY <1>1, Goes DEF BeginSet
<1>3. local' \in [Instance -> [Key -> LocalEntry]]
  BY Stored DEF BeginSet
<1>4. [value |-> v, tags |-> tags] \in LocalEntry
  BY DEF LocalEntry
<1>5. /\ latest' \in [Key -> LocalEntry] /\ old' \in [Instance -> SUBSET Key]
      /\ unsure' \subseteq suspect' /\ suspect' \subseteq Key /\ endless' \subseteq Tag
      /\ overtaken' \subseteq Caller
  BY <1>4, ChangeTyped DEF BeginSet
<1>6. operations' \in 0..MaxOperations
  BY Faulty DEF BeginSet
<1> QED BY <1>2, <1>3, <1>5, <1>6 DEF BeginSet, TypeOK

LEMMA SetTyped ==
  ASSUME TypeOK, NEW c \in Caller, call[c].pc \in {"setting", "adding", "expiring"}
  PROVE  /\ call[c].key \in Key /\ call[c].ttl \in TTL /\ call[c].tags \in SUBSET Tag
         /\ call[c].instance \in Instance
         /\ \A tags \in SUBSET Tag :
              NextTag(c, tags) => call' \in [Caller -> Calls \cup {Idle}]
         /\ SetFails(c) => call' \in [Caller -> Calls \cup {Idle}]
<1>1. call[c] \in Calls \cup {Idle}
  BY DEF TypeOK
<1>2. /\ call[c].key \in Key /\ call[c].ttl \in TTL /\ call[c].tags \in SUBSET Tag
      /\ call[c].instance \in Instance
  BY <1>1, CallFields
<1>3. \A tags \in SUBSET Tag :
        [pc |-> "adding", instance |-> call[c].instance, key |-> call[c].key,
         ttl |-> call[c].ttl, tags |-> tags] \in Calls
  BY <1>2 DEF Calls
<1>4. \A tags \in SUBSET Tag : NextTag(c, tags) => call' \in [Caller -> Calls \cup {Idle}]
  BY <1>3, Goes DEF NextTag
<1>5. SetFails(c) => call' \in [Caller -> Calls \cup {Idle}]
  BY Goes DEF SetFails
<1> QED BY <1>2, <1>4, <1>5

LEMMA SetExTyped ==
  ASSUME TypeOK, NEW c \in Caller, SetEx(c)
  PROVE  TypeOK'
<1> DEFINE k == call[c].key
           after == [redis EXCEPT ![k] = [value |-> call[c].value, life |-> call[c].ttl]]
<1>1. call[c].pc = "setting" /\ call[c] \in Calls \cup {Idle}
  BY DEF SetEx, TypeOK
<1>2. k \in Key /\ call[c].ttl \in Life /\ call[c].value \in Value
  BY <1>1, SetTyped, CallFields, LifeBounds
<1>3. after \in [Key -> RedisEntry]
  BY <1>2 DEF RedisEntry, TypeOK
<1> HIDE DEF after, k
<1>4. redis' \in {redis, after}
  BY DEF SetEx, after, k
<1>5. unsure' \subseteq suspect' /\ suspect' \subseteq Key
  BY <1>2 DEF SetEx, TypeOK, k
<1>6. call' \in [Caller -> Calls \cup {Idle}]
  BY <1>1, SetTyped DEF SetEx
<1>7. faults' \in 0..MaxFaults
  BY Faulty DEF SetEx, SetFails
<1> QED BY <1>3, <1>4, <1>5, <1>6, <1>7 DEF SetEx, TypeOK, localVars

LEMMA SAddTyped ==
  ASSUME TypeOK, NEW c \in Caller, NEW t \in Tag, SAdd(c, t)
  PROVE  TypeOK'
<1> DEFINE k == call[c].key
           after == [index EXCEPT ![t].members = @ \cup {k}]
           next == [pc |-> "expiring", instance |-> call[c].instance, key |-> k,
                    ttl |-> call[c].ttl, tag |-> t, tags |-> call[c].tags \ {t}]
<1>1. call[c].pc = "adding" /\ call[c] \in Calls \cup {Idle}
  BY DEF SAdd, TypeOK
<1>2. /\ k \in Key /\ call[c].ttl \in TTL /\ call[c].tags \in SUBSET Tag
      /\ call[c].instance \in Instance
  BY <1>1, SetTyped
<1>3. after \in [Tag -> IndexEntry]
  <2>1. index \in [Tag -> IndexEntry]
    BY DEF TypeOK
  <2>2. [index[t] EXCEPT !.members = @ \cup {k}] \in IndexEntry
    BY <1>2, <2>1 DEF IndexEntry, NoIndex, Forever
  <2>3. after = [index EXCEPT ![t] = [index[t] EXCEPT !.members = @ \cup {k}]]
    BY <2>1
  <2> QED BY <2>1, <2>2, <2>3
<1>4. next \in Calls
  BY <1>2 DEF Calls
<1> HIDE DEF after, k, next
<1>5. index' \in {index, after}
  BY DEF SAdd, after, k
<1>6. unsure' \subseteq suspect' /\ suspect' \subseteq Key /\ endless' \subseteq Tag
  BY <1>2, LoseTyped DEF SAdd, TypeOK, k, ofCalls
<1>7. call' \in [Caller -> Calls \cup {Idle}]
  BY <1>1, <1>4, SetTyped, Goes DEF SAdd, next, k
<1>8. faults' \in 0..MaxFaults
  BY Faulty DEF SAdd, SetFails
<1> QED BY <1>3, <1>5, <1>6, <1>7, <1>8 DEF SAdd, TypeOK, localVars, ofCalls

LEMMA ExpireTyped ==
  ASSUME TypeOK, NEW c \in Caller, Expire(c)
  PROVE  TypeOK'
<1> DEFINE k == call[c].key
           t == call[c].tag
           after == IF index[t].members = {} THEN index
                    ELSE [index EXCEPT ![t].life = call[c].ttl]
<1>1. call[c].pc = "expiring" /\ call[c] \in Calls \cup {Idle}
  BY DEF Expire, TypeOK
<1>2. /\ k \in Key /\ call[c].ttl \in TTL /\ call[c].tags \in SUBSET Tag
      /\ call[c].ttl \in Life /\ t \in Tag
  BY <1>1, SetTyped, CallFields, LifeBounds
<1>3. after \in [Tag -> IndexEntry] /\ index[t].members \subseteq Key
  <2>1. index \in [Tag -> IndexEntry]
    BY DEF TypeOK
  <2>2. index[t].members \subseteq Key
    BY <1>2, <2>1 DEF IndexEntry, NoIndex
  <2>3. ASSUME index[t].members # {}
        PROVE  [index EXCEPT ![t].life = call[c].ttl] \in [Tag -> IndexEntry]
    <3>1. index[t] \in [members : (SUBSET Key) \ {{}}, life : Life \cup {Forever}]
      BY <1>2, <2>1, <2>3 DEF IndexEntry, NoIndex
    <3>2. [index[t] EXCEPT !.life = call[c].ttl] \in IndexEntry
      BY <1>2, <3>1 DEF IndexEntry
    <3>3. [index EXCEPT ![t].life = call[c].ttl]
            = [index EXCEPT ![t] = [index[t] EXCEPT !.life = call[c].ttl]]
      BY <2>1
    <3> QED BY <2>1, <3>2, <3>3
  <2> QED BY <2>1, <2>2, <2>3
<1> HIDE DEF after, k, t
<1>4. index' \in {index, after}
  BY DEF Expire, after, t
<1>5. unsure' \subseteq suspect' /\ suspect' \subseteq Key /\ endless' \subseteq Tag
  <2>1. unsure' \subseteq suspect' /\ suspect' \subseteq Key
    BY <1>2, <1>3 DEF Expire, TypeOK, k, t, ofCalls
  <2>2. Lose({}) \/ Lose({t})
    BY DEF Expire, t
  <2>3. {} \in SUBSET Tag /\ {t} \in SUBSET Tag
    BY <1>2
  <2> QED BY <2>1, <2>2, <2>3, LoseTyped
<1>6. call' \in [Caller -> Calls \cup {Idle}]
  BY <1>1, SetTyped DEF Expire
<1>7. faults' \in 0..MaxFaults
  BY Faulty DEF Expire, SetFails
<1> QED BY <1>3, <1>4, <1>5, <1>6, <1>7 DEF Expire, TypeOK, localVars, ofCalls

LEMMA BeginDeleteTyped ==
  ASSUME TypeOK, NEW c \in Caller, NEW i \in Instance, NEW k \in Key, BeginDelete(c, i, k)
  PROVE  TypeOK'
<1>1. [pc |-> "deleting", instance |-> i, key |-> k] \in Calls
  BY DEF Calls
<1>2. call' \in [Caller -> Calls \cup {Idle}]
  BY <1>1, Goes DEF BeginDelete
<1>3. NoLocal \in LocalEntry
  BY DEF LocalEntry
<1>4. local' \in [Instance -> [Key -> LocalEntry]]
  BY <1>3 DEF BeginDelete, TypeOK
<1>5. /\ latest' \in [Key -> LocalEntry] /\ old' \in [Instance -> SUBSET Key]
      /\ unsure' \subseteq suspect' /\ suspect' \subseteq Key /\ endless' \subseteq Tag
      /\ overtaken' \subseteq Caller
  BY <1>3, ChangeTyped DEF BeginDelete
<1>6. operations' \in 0..MaxOperations
  BY Faulty DEF BeginDelete
<1> QED BY <1>2, <1>4, <1>5, <1>6 DEF BeginDelete, TypeOK

LEMMA DeleteFromRedisTyped ==
  ASSUME TypeOK, NEW c \in Caller, DeleteFromRedis(c)
  PROVE  TypeOK'
<1> DEFINE after == [redis EXCEPT ![call[c].key] = NoEntry]
           next(b) == [pc |-> "queueing", instance |-> call[c].instance,
                       key |-> call[c].key, answered |-> b]
<1>1. call[c].pc = "deleting" /\ call[c] \in Calls \cup {Idle}
  BY DEF DeleteFromRedis, TypeOK
<1>2. call[c].key \in Key /\ call[c].instance \in Instance
  BY <1>1, CallFields
<1>3. after \in [Key -> RedisEntry]
  BY DEF TypeOK, RedisEntry
<1>4. next(TRUE) \in Calls /\ next(FALSE) \in Calls
  BY <1>2 DEF Calls
<1>5. redis' \in {redis, after} /\ (Go(c, next(TRUE)) \/ Go(c, next(FALSE)))
  BY DEF DeleteFromRedis
<1> HIDE DEF after, next
<1>6. call' \in [Caller -> Calls \cup {Idle}]
  BY <1>4, <1>5, Goes
<1>7. faults' \in 0..MaxFaults
  BY Faulty DEF DeleteFromRedis
<1> QED BY <1>3, <1>5, <1>6, <1>7 DEF DeleteFromRedis, TypeOK, localVars, history, ofCalls

LEMMA QueueTyped ==
  ASSUME TypeOK, NEW c \in Caller, Queue(c)
  PROVE  TypeOK'
<1>1. call[c].pc = "queueing" /\ call[c] \in Calls \cup {Idle}
  BY DEF Queue, TypeOK
<1>2. call[c].key \in Key /\ call[c].instance \in Instance
  BY <1>1, CallFields
<1>3. queue' \in [Instance -> SUBSET (Key \cup Tag)]
  BY <1>2 DEF Queue, TypeOK
<1>4. unsure' \subseteq suspect' /\ suspect' \subseteq Key /\ deleted' \subseteq Key
  BY <1>2 DEF Queue, TypeOK
<1>5. call' \in [Caller -> Calls \cup {Idle}]
  BY Goes DEF Queue
<1> QED BY <1>3, <1>4, <1>5 DEF Queue, TypeOK

LEMMA InvalidateTyped ==
  ASSUME TypeOK, NEW i \in Instance, NEW tags \in SUBSET Tag, InvalidateByTags(i, tags)
  PROVE  TypeOK'
<1>1. NoLocal \in LocalEntry
  BY DEF LocalEntry
<1>2. local' \in [Instance -> [Key -> LocalEntry]]
  BY <1>1 DEF InvalidateByTags, TypeOK
<1>3. queue' \in [Instance -> SUBSET (Key \cup Tag)]
  BY DEF InvalidateByTags, TypeOK
<1>4. invalidated' \subseteq Key
  BY DEF InvalidateByTags, TypeOK
<1>5. operations' \in 0..MaxOperations
  BY Faulty DEF InvalidateByTags
<1> QED BY <1>2, <1>3, <1>4, <1>5 DEF InvalidateByTags, TypeOK, ofCalls

(* The processor.                                                            *)
LEMMA DoneTyped ==
  ASSUME TypeOK, NEW i \in Instance, NEW item, Done(i, item),
         found[i] # Waiting => item = found[i].tag
  PROVE  /\ batch' \in [Instance -> SUBSET (Key \cup Tag)] /\ found' \in [Instance -> Found]
         /\ \A j \in Instance : found'[j] # Waiting => found'[j].tag \in batch'[j]
         /\ found'[i] = Waiting /\ \A j \in Instance \ {i} : found'[j] = found[j]
<1>1. Waiting \in Found
  BY DEF Found
<1> QED BY <1>1 DEF Done, TypeOK

LEMMA ProcessTyped ==
  ASSUME TypeOK, NEW i \in Instance, Process(i)
  PROVE  TypeOK'
<1>1. CASE StartBatch(i)
  <2>1. /\ batch' \in [Instance -> SUBSET (Key \cup Tag)]
        /\ queue' \in [Instance -> SUBSET (Key \cup Tag)]
    BY <1>1 DEF StartBatch, TypeOK
  <2>2. \A j \in Instance : found'[j] # Waiting => found'[j].tag \in batch'[j]
    BY <1>1 DEF StartBatch, TypeOK
  <2> QED BY <1>1, <2>1, <2>2 DEF StartBatch, TypeOK, history, ofCalls
<1>2. ASSUME NEW k \in Key, ProcessKey(i, k) PROVE TypeOK'
  <2>1. redis' \in [Key -> RedisEntry] /\ faults' \in 0..MaxFaults
    BY <1>2, Faulty DEF ProcessKey, Either, TypeOK, RedisEntry
  <2>2. /\ batch' \in [Instance -> SUBSET (Key \cup Tag)] /\ found' \in [Instance -> Found]
        /\ \A j \in Instance : found'[j] # Waiting => found'[j].tag \in batch'[j]
    BY <1>2, DoneTyped DEF ProcessKey
  <2> QED BY <1>2, <2>1, <2>2 DEF ProcessKey, TypeOK, history, ofCalls
<1>3. ASSUME NEW t \in Tag, ListMembers(i, t) PROVE TypeOK'
  <2>1. faults' \in 0..MaxFaults /\ invalidated' \subseteq Key
    BY <1>3, Faulty, ForgetTyped DEF ListMembers, TypeOK
  <2>2. CASE Done(i, t)
    <3>1. /\ batch' \in [Instance -> SUBSET (Key \cup Tag)]
          /\ found' \in [Instance -> Found]
          /\ \A j \in Instance : found'[j] # Waiting => found'[j].tag \in batch'[j]
      BY <1>3, <2>2, DoneTyped DEF ListMembers
    <3> QED BY <1>3, <2>1, <3>1 DEF ListMembers, TypeOK, history, ofCalls
  <2>3. CASE /\ found' = [found EXCEPT ![i] = [tag |-> t, members |-> index[t].members,
                                              step |-> "members"]]
             /\ UNCHANGED batch
    <3> DEFINE visit == [tag |-> t, members |-> index[t].members, step |-> "members"]
    <3>1. index[t].members \subseteq Key
      BY DEF TypeOK, IndexEntry, NoIndex
    <3>2. visit \in Found /\ visit.tag = t
      BY <3>1 DEF Found
    <3> HIDE DEF visit
    <3>3. found' = [found EXCEPT ![i] = visit] /\ UNCHANGED batch
      BY <2>3 DEF visit
    <3>4. /\ found' \in [Instance -> Found]
          /\ \A j \in Instance : found'[j] # Waiting => found'[j].tag \in batch'[j]
      BY <1>3, <3>2, <3>3 DEF ListMembers, TypeOK
    <3> QED BY <1>3, <2>1, <3>3, <3>4 DEF ListMembers, TypeOK, history, ofCalls
  <2> QED BY <1>3, <2>2, <2>3 DEF ListMembers
<1>4. CASE DeleteMembers(i)
  <2> DEFINE after == [k \in Key |-> IF k \in found[i].members THEN NoEntry ELSE redis[k]]
  <2>1. after \in [Key -> RedisEntry]
    BY DEF TypeOK, RedisEntry
  <2>2. redis' \in {redis, after} /\ found[i].step = "members"
    BY <1>4 DEF DeleteMembers
  <2> HIDE DEF after
  <2>3. faults' \in 0..MaxFaults /\ invalidated' \subseteq Key
    BY <1>4, Faulty, ForgetTyped DEF DeleteMembers, TypeOK
  <2>4. CASE Done(i, found[i].tag)
    <3>1. /\ batch' \in [Instance -> SUBSET (Key \cup Tag)]
          /\ found' \in [Instance -> Found]
          /\ \A j \in Instance : found'[j] # Waiting => found'[j].tag \in batch'[j]
      BY <2>4, DoneTyped
    <3> QED BY <1>4, <2>1, <2>2, <2>3, <3>1 DEF DeleteMembers, TypeOK, history, ofCalls
  <2>5. CASE found' = [found EXCEPT ![i].step = "index"] /\ UNCHANGED batch
    <3>1. found[i] \in [tag : Tag, members : SUBSET Key, step : {"members", "index"}]
      BY <2>2 DEF TypeOK, Found, Waiting
    <3>2. /\ [found[i] EXCEPT !.step = "index"] \in Found
          /\ [found[i] EXCEPT !.step = "index"].tag = found[i].tag /\ found[i] # Waiting
      BY <2>2, <3>1 DEF Found, Waiting
    <3>3. found' = [found EXCEPT ![i] = [found[i] EXCEPT !.step = "index"]]
      BY <2>5 DEF TypeOK
    <3>4. /\ found' \in [Instance -> Found]
          /\ \A j \in Instance : found'[j] # Waiting => found'[j].tag \in batch'[j]
      BY <2>5, <3>2, <3>3 DEF TypeOK
    <3> QED BY <1>4, <2>1, <2>2, <2>3, <2>5, <3>4 DEF DeleteMembers, TypeOK, history, ofCalls
  <2> QED BY <1>4, <2>4, <2>5 DEF DeleteMembers
<1>5. CASE DropIndex(i)
  <2>1. index' \in [Tag -> IndexEntry] /\ faults' \in 0..MaxFaults
    BY <1>5, Faulty DEF DropIndex, Either, TypeOK, IndexEntry
  <2>3. endless' \subseteq Tag
    BY <1>5, LoseTyped DEF DropIndex
  <2>2. /\ batch' \in [Instance -> SUBSET (Key \cup Tag)] /\ found' \in [Instance -> Found]
        /\ \A j \in Instance : found'[j] # Waiting => found'[j].tag \in batch'[j]
    BY <1>5, DoneTyped DEF DropIndex
  <2> QED BY <1>5, <2>1, <2>2, <2>3 DEF DropIndex, TypeOK, history, ofCalls
<1> QED BY <1>1, <1>2, <1>3, <1>4, <1>5 DEF Process

LEMMA EnvironmentTyped ==
  ASSUME TypeOK
  PROVE  /\ Tick => TypeOK'
         /\ Evict => TypeOK'
         /\ \A i \in Instance : Restart(i) => TypeOK'
<1>1. ASSUME Tick PROVE TypeOK'
  <2>1. redis' \in [Key -> RedisEntry]
    BY <1>1, LivedEntry DEF Tick, TypeOK
  <2>2. index' \in [Tag -> IndexEntry]
    BY <1>1, LivedIndex DEF Tick, TypeOK
  <2>3. unsure' \subseteq suspect' /\ suspect' \subseteq Key /\ endless' \subseteq Tag
    BY <1>1, LoseTyped DEF Tick, TypeOK, ofCalls
  <2> QED BY <1>1, <2>1, <2>2, <2>3 DEF Tick, TypeOK, localVars, ofCalls
<1>2. ASSUME Evict PROVE TypeOK'
  <2>1. redis' \in [Key -> RedisEntry]
    BY <1>2 DEF Evict, TypeOK, RedisEntry
  <2>2. index' \in [Tag -> IndexEntry]
    BY <1>2 DEF Evict, TypeOK, IndexEntry
  <2>3. \A t \in Tag : index[t].members \subseteq Key
    BY DEF TypeOK, IndexEntry, NoIndex
  <2>4. unsure' \subseteq suspect' /\ suspect' \subseteq Key /\ endless' \subseteq Tag
    BY <1>2, <2>3, LoseTyped DEF Evict, TypeOK, ofCalls
  <2>5. faults' \in 0..MaxFaults
    BY <1>2, Faulty DEF Evict
  <2> QED BY <1>2, <2>1, <2>2, <2>4, <2>5 DEF Evict, TypeOK, localVars, ofCalls
<1>3. ASSUME NEW i \in Instance, Restart(i) PROVE TypeOK'
  <2>1. NoLocal \in LocalEntry /\ Waiting \in Found
    BY DEF LocalEntry, Found
  <2>2. local' \in [Instance -> [Key -> LocalEntry]]
    BY <1>3, <2>1 DEF Restart, TypeOK
  <2>3. /\ queue' \in [Instance -> SUBSET (Key \cup Tag)]
        /\ batch' \in [Instance -> SUBSET (Key \cup Tag)]
    BY <1>3 DEF Restart, TypeOK
  <2>4. /\ found' \in [Instance -> Found]
        /\ \A j \in Instance : found'[j] # Waiting => found'[j].tag \in batch'[j]
    BY <1>3, <2>1 DEF Restart, TypeOK
  <2>5. call' \in [Caller -> Calls \cup {Idle}]
    BY <1>3 DEF Restart, TypeOK
  <2>6. suspect' \subseteq Key /\ faults' \in 0..MaxFaults /\ invalidated' \subseteq Key
        /\ overtaken' \subseteq Caller
    BY <1>3, Faulty, ForgetTyped DEF Restart, TypeOK
  <2>7. unsure' \subseteq suspect'
    BY <1>3 DEF Restart, TypeOK, BeingChanged
  <2>8. endless' \subseteq Tag
    BY <1>3, LoseTyped DEF Restart
  <2> QED BY <1>3, <2>2, <2>3, <2>4, <2>5, <2>6, <2>7, <2>8 DEF Restart, TypeOK
<1> QED BY <1>1, <1>2, <1>3
-----------------------------------------------------------------------------
(* What holds of a key whose last change did not overlap another one, fail or*)
(* get lost, whatever the other keys meet.                                   *)
Changing == {"setting", "adding", "expiring", "deleting", "queueing"}

Alone(k) == \A c, d \in BeingChanged(k) : c = d
\* What a set carries is the latest, ...
Sets(k) ==
  \A c \in BeingChanged(k) :
    call[c].pc = "setting" => latest[k] = [value |-> call[c].value, tags |-> call[c].tags]
\* ... and it has not been in Redis longer than its call.
Ages(k) ==
  \A c \in BeingChanged(k) :
    call[c].pc \in {"adding", "expiring"} => redis[k].life <= call[c].ttl
\* A call whose change Redis does not have yet.
Unsettled(k) ==
  \E c \in BeingWritten(k) : \/ call[c].pc \in {"setting", "deleting"}
                             \/ call[c].pc = "queueing" /\ ~call[c].answered
RedisFresh(k) == Unsettled(k) \/ redis[k].value \in {latest[k].value, None}
\* The set of a tag holds the key for as long as Redis has it, and a processor that is
\* about to drop the set deletes the key first.
Lasts(k, t) ==
  \/ \E c \in BeingChanged(k) : call[c].pc = "expiring" /\ call[c].tag = t
  \/ index[t].life = Forever
  \/ redis[k].life <= index[t].life
Covers(k, t) ==
  /\ k \in index[t].members
  /\ \A i \in Dropping(t) : found[i].step = "members" /\ k \in found[i].members
  /\ Lasts(k, t)
Remaining(k, t) ==
  \E c \in BeingChanged(k) : call[c].pc \in {"setting", "adding", "expiring"} /\ t \in call[c].tags
Covered(k) ==
  redis[k] # NoEntry => \A t \in latest[k].tags : Remaining(k, t) \/ Covers(k, t)

Fresh(k) == Alone(k) /\ Sets(k) /\ RedisFresh(k)
Good(k) == Ages(k) /\ Covered(k)

\* A copy that is not old is the latest value; a get that nothing overtook has found it.
Locals ==
  \A k \in Key : \A i \in Instance :
    k \notin old[i] => local[i][k].value \in {latest[k].value, None}
Gets ==
  \A c \in Caller \ overtaken :
    call[c].pc \in {"getting", "storing"} =>
      /\ BeingChanged(call[c].key) = {}
      /\ call[c].pc = "storing" => call[c].value = latest[call[c].key].value

IInv ==
  /\ TypeOK /\ Locals /\ Gets
  /\ \A k \in Key \ unsure : Fresh(k)
  /\ \A k \in Key \ suspect : Good(k)

\* A step that begins, moves and ends no call that changes k.
CallsKept(k) ==
  /\ BeingChanged(k)' = BeingChanged(k)
  /\ \A c \in BeingChanged(k) : call'[c] = call[c]
\* A step after which Redis has of k what it had or less.
RedisKept(k) ==
  /\ redis'[k].value \in {redis[k].value, None} /\ redis'[k].life <= redis[k].life
  /\ redis'[k] # NoEntry => redis[k] # NoEntry

LEMMA EntryTyped ==
  ASSUME NEW e \in RedisEntry
  PROVE  /\ e.life \in Nat /\ (e # NoEntry => e.value \in Value)
         /\ (e = NoEntry => e.value = None /\ e.life = 0)
<1>1. CASE e = NoEntry
  BY <1>1 DEF NoEntry
<1>2. CASE e # NoEntry
  <2>1. e \in [value : Value, life : Life]
    BY <1>2 DEF RedisEntry
  <2> QED BY <1>2, <2>1, LifeBounds
<1> QED BY <1>1, <1>2

LEMMA RedisTyped ==
  ASSUME TypeOK, NEW k \in Key
  PROVE  /\ redis[k].life \in Nat /\ (redis[k] # NoEntry => redis[k].value \in Value)
         /\ (redis[k] = NoEntry => redis[k].value = None /\ redis[k].life = 0)
<1>1. redis[k] \in RedisEntry
  BY DEF TypeOK
<1> QED BY <1>1, EntryTyped

LEMMA IndexTyped ==
  ASSUME TypeOK, NEW t \in Tag
  PROVE  index[t].life \in Nat /\ index[t].members \subseteq Key
<1>1. index[t] \in IndexEntry
  BY DEF TypeOK
<1>2. CASE index[t] = NoIndex
  BY <1>2 DEF NoIndex
<1>3. CASE index[t] # NoIndex
  <2>1. index[t] \in [members : (SUBSET Key) \ {{}}, life : Life \cup {Forever}]
    BY <1>1, <1>3 DEF IndexEntry
  <2>2. index[t].members \in (SUBSET Key) \ {{}} /\ index[t].life \in Life \cup {Forever}
    BY <2>1
  <2>3. Life \cup {Forever} \subseteq Nat
    BY LifeBounds DEF Forever
  <2> QED BY <2>2, <2>3
<1> QED BY <1>2, <1>3

LEMMA LatestTyped ==
  ASSUME TypeOK, NEW k \in Key
  PROVE  latest[k].tags \subseteq Tag
<1>1. latest[k] \in LocalEntry
  BY DEF TypeOK
<1>2. CASE latest[k] = NoLocal
  <2>1. latest[k].tags = {}
    BY <1>2 DEF NoLocal
  <2> QED BY <2>1
<1>3. CASE latest[k] # NoLocal
  BY <1>1, <1>3 DEF LocalEntry
<1> QED BY <1>2, <1>3

LEMMA NextRedisTyped ==
  ASSUME TypeOK', NEW k \in Key
  PROVE  redis'[k].life \in Nat
<1>1. redis'[k] \in RedisEntry
  BY DEF TypeOK
<1> QED BY <1>1, EntryTyped

(* The calls that change a key, before and after a step.                     *)
LEMMA Changers ==
  ASSUME NEW k
  PROVE  /\ BeingChanged(k) = {c \in Caller : call[c].key = k /\ call[c].pc \in Changing}
         /\ BeingChanged(k)' = {c \in Caller : call'[c].key = k /\ call'[c].pc \in Changing}
         /\ BeingWritten(k) = {c \in BeingChanged(k) :
                                 call[c].pc \in {"setting", "deleting", "queueing"}}
         /\ BeingWritten(k)' = {c \in BeingChanged(k)' :
                                  call'[c].pc \in {"setting", "deleting", "queueing"}}
BY DEF BeingChanged, BeingSet, BeingWritten, InProgress, Changing

LEMMA SuspectNotUnsure ==
  ASSUME IInv, NEW k \in Key \ suspect
  PROVE  TypeOK /\ Fresh(k) /\ Good(k) /\ Alone(k) /\ Sets(k)
BY DEF IInv, TypeOK, Fresh

(* Calls of another key, gets, and steps of no call.                         *)
LEMMA OtherCalls ==
  ASSUME TypeOK, NEW c \in Caller, NEW next \in Calls \cup {Idle}, Go(c, next),
         NEW k \in Key, call[c].key # k, next.key # k
  PROVE  CallsKept(k)
<1>1. call'[c] = next /\ \A d \in Caller \ {c} : call'[d] = call[d]
  BY Goes
<1>2. \A d \in Caller : call[d].key = k \/ call'[d].key = k => call'[d] = call[d]
  BY <1>1
<1>3. BeingChanged(k)' = BeingChanged(k)
  <2>1. {d \in Caller : call'[d].key = k /\ call'[d].pc \in Changing}
          = {d \in Caller : call[d].key = k /\ call[d].pc \in Changing}
    BY <1>2
  <2> QED BY <2>1, Changers
<1>4. \A d \in BeingChanged(k) : call'[d] = call[d]
  BY <1>2, Changers
<1> QED BY <1>3, <1>4 DEF CallsKept

LEMMA GetCalls ==
  ASSUME TypeOK, NEW c \in Caller, NEW next \in Calls \cup {Idle}, Go(c, next),
         call[c].pc \notin Changing, next.pc \notin Changing, NEW k
  PROVE  CallsKept(k)
<1>1. call'[c] = next /\ \A d \in Caller \ {c} : call'[d] = call[d]
  BY Goes
<1>2. \A d \in Caller : call[d].pc \in Changing \/ call'[d].pc \in Changing => call'[d] = call[d]
  BY <1>1
<1>3. BeingChanged(k)' = BeingChanged(k)
  <2>1. {d \in Caller : call'[d].key = k /\ call'[d].pc \in Changing}
          = {d \in Caller : call[d].key = k /\ call[d].pc \in Changing}
    BY <1>2
  <2> QED BY <2>1, Changers
<1>4. \A d \in BeingChanged(k) : call'[d] = call[d]
  BY <1>2, Changers
<1> QED BY <1>3, <1>4 DEF CallsKept

LEMMA SameCalls ==
  ASSUME UNCHANGED call, NEW k
  PROVE  CallsKept(k)
BY Changers DEF CallsKept

LEMMA OnlyCall ==
  ASSUME NEW k \in Key, Alone(k), NEW c \in Caller, call[c].key = k, call[c].pc \in Changing
  PROVE  BeingChanged(k) = {c} /\ c \in BeingChanged(k)
BY Changers DEF Alone

(* A step of the only call that changes a key.                               *)
LEMMA StepOf ==
  ASSUME TypeOK, NEW k \in Key, NEW c \in Caller, BeingChanged(k) = {c},
         NEW next \in Calls \cup {Idle}, Go(c, next)
  PROVE  /\ call'[c] = next /\ BeingChanged(k)' \subseteq {c}
         /\ next = Idle => BeingChanged(k)' = {}
         /\ next.key = k /\ next.pc \in Changing => BeingChanged(k)' = {c}
<1>1. call'[c] = next /\ \A d \in Caller \ {c} : call'[d] = call[d]
  BY Goes
<1>2. Idle.key # k
  BY DistributedAssumption DEF Idle
<1> QED BY <1>1, <1>2, Changers

LEMMA SameRedis ==
  ASSUME TypeOK, NEW k \in Key, redis'[k] = redis[k] \/ redis'[k] = NoEntry
  PROVE  RedisKept(k)
<1>1. redis[k].life \in Nat
  BY RedisTyped
<1> QED BY <1>1 DEF RedisKept, NoEntry

LEMMA SameIndex ==
  ASSUME TypeOK, NEW k \in Key, NEW t \in Tag, CallsKept(k), redis'[k].life <= redis[k].life,
         redis'[k].life \in Nat, index'[t] = index[t], Covers(k, t),
         \A i \in Instance : found'[i].tag = t => found'[i] = found[i]
  PROVE  Covers(k, t)'
<1>1. redis[k].life \in Nat /\ index[t].life \in Nat
  BY RedisTyped, IndexTyped
<1>2. Lasts(k, t)'
  BY <1>1 DEF Covers, Lasts, CallsKept
<1>3. \A i \in Dropping(t)' : found'[i] = found[i] /\ i \in Dropping(t)
  BY DEF Dropping
<1> QED BY <1>2, <1>3 DEF Covers

(* A step that ends no call Redis does not have yet, or leaves them all.     *)
LEMMA FreshKeeps ==
  ASSUME NEW k, Fresh(k), latest'[k] = latest[k], redis'[k].value \in {redis[k].value, None},
         \A c \in BeingChanged(k)' : c \in BeingChanged(k) /\ call'[c] = call[c],
         BeingWritten(k) \subseteq BeingWritten(k)'
  PROVE  Fresh(k)'
<1>1. Alone(k)' /\ Sets(k)'
  BY DEF Fresh, Alone, Sets
<1>2. \A c \in BeingWritten(k) : c \in BeingWritten(k)' /\ call'[c] = call[c]
  BY Changers
<1>3. RedisFresh(k)'
  BY <1>2 DEF Fresh, RedisFresh, Unsettled
<1> QED BY <1>1, <1>3 DEF Fresh

LEMMA FreshStays ==
  ASSUME NEW k, Fresh(k), latest'[k] = latest[k], redis'[k].value \in {redis[k].value, None},
         CallsKept(k)
  PROVE  Fresh(k)'
<1>1. BeingWritten(k) \subseteq BeingWritten(k)'
  BY Changers DEF CallsKept
<1> QED BY <1>1, FreshKeeps DEF CallsKept

LEMMA Keeps ==
  ASSUME IInv, NEW k \in Key \ suspect, latest'[k] = latest[k], CallsKept(k), RedisKept(k),
         TypeOK',
         redis'[k] # NoEntry => \A t \in latest[k].tags : Covers(k, t) => Covers(k, t)'
  PROVE  Good(k)'
<1>0. Good(k) /\ redis[k].life \in Nat /\ redis'[k].life \in Nat
  BY RedisTyped, NextRedisTyped DEF IInv
<1>1. Ages(k)'
  <2> SUFFICES ASSUME NEW c \in BeingChanged(k)', call'[c].pc \in {"adding", "expiring"}
               PROVE  redis'[k].life <= call'[c].ttl
    BY DEF Ages
  <2>1. c \in BeingChanged(k) /\ call'[c] = call[c] /\ c \in Caller
    BY Changers DEF CallsKept
  <2>2. call[c].ttl \in Nat
    <3>1. call[c] \in Calls \cup {Idle}
      BY <2>1 DEF IInv, TypeOK
    <3> QED BY <2>1, <3>1, CallFields, LifeBounds
  <2> QED BY <1>0, <2>1, <2>2 DEF Good, Ages, RedisKept
<1>2. Covered(k)'
  <2> SUFFICES ASSUME redis'[k] # NoEntry, NEW t \in latest[k].tags
               PROVE  Remaining(k, t)' \/ Covers(k, t)'
    BY DEF Covered
  <2>1. Remaining(k, t) \/ Covers(k, t)
    BY <1>0 DEF Good, Covered, RedisKept
  <2>2. Remaining(k, t) => Remaining(k, t)'
    BY DEF Remaining, CallsKept
  <2> QED BY <2>1, <2>2
<1> QED BY <1>1, <1>2 DEF Good

(* A step that leaves Redis' sets and the processors alone.                  *)
LEMMA Quiet ==
  ASSUME IInv, NEW k \in Key \ suspect, latest'[k] = latest[k], CallsKept(k), RedisKept(k),
         TypeOK', UNCHANGED <<index, found>>
  PROVE  Good(k)'
<1>0. TypeOK /\ latest[k].tags \subseteq Tag /\ redis'[k].life \in Nat
  BY NextRedisTyped, LatestTyped DEF IInv
<1>1. \A t \in latest[k].tags : Covers(k, t) => Covers(k, t)'
  BY <1>0, SameIndex DEF RedisKept
<1> QED BY <1>1, Keeps

-----------------------------------------------------------------------------
(* One lemma per action that touches Redis, its sets or the calls that change*)
(* a key: what is neither unsure nor suspect after it is fresh and covered.  *)

(* A change of a key: its only call is this one, unless the key is unsure.   *)
LEMMA ChangeKeeps ==
  ASSUME IInv, TypeOK', NEW c \in Caller, NEW i \in Instance, NEW key \in Key,
         NEW set, NEW next \in Calls, next.key = key, call[c] = Idle, Go(c, next),
         ChangeThrough(i, key, set), UNCHANGED <<found, redis, index>>,
         \/ next.pc = "deleting" /\ set.tags = {}
         \/ next.pc = "setting" /\ set = [value |-> next.value, tags |-> next.tags],
         NEW k \in Key
  PROVE  /\ k \notin unsure' => Fresh(k)'
         /\ k \notin suspect' => Good(k)'
<1>0. TypeOK /\ next.pc \in Changing
  BY DEF IInv, Changing
<1>1. call'[c] = next /\ \A d \in Caller \ {c} : call'[d] = call[d]
  BY <1>0, Goes
<1>2. /\ latest' = [latest EXCEPT ![key] = set]
      /\ IF BeingChanged(key) = {}
         THEN unsure' = unsure \ {key} /\ suspect' = suspect \ {key}
         ELSE unsure' = unsure \cup {key} /\ suspect' = suspect \cup {key}
      /\ latest \in [Key -> LocalEntry] /\ redis[k].life \in Nat
  BY <1>0, RedisTyped DEF ChangeThrough, TypeOK
<1>3. CASE k # key
  <2>1. latest'[k] = latest[k] /\ (k \in unsure' <=> k \in unsure)
        /\ (k \in suspect' <=> k \in suspect)
    BY <1>2, <1>3
  <2>2. CallsKept(k)
    <3>1. Idle.key # k
      BY DistributedAssumption DEF Idle
    <3> QED BY <1>0, <1>3, <3>1, OtherCalls
  <2>3. RedisKept(k)
    BY <1>0, SameRedis
  <2>4. k \notin unsure' => Fresh(k)'
    BY <2>1, <2>2, FreshStays DEF IInv
  <2>5. k \notin suspect' => Good(k)'
    BY <2>1, <2>2, <2>3, Quiet
  <2> QED BY <2>4, <2>5
<1>4. CASE k = key /\ BeingChanged(k) # {}
  BY <1>2, <1>4
<1>5. CASE k = key /\ BeingChanged(k) = {}
  <2>1. latest'[k] = set
    BY <1>2, <1>5
  <2>2. BeingChanged(k)' = {c}
    <3>1. \A d \in Caller \ {c} : ~(call'[d].key = k /\ call'[d].pc \in Changing)
      BY <1>1, <1>5, Changers
    <3> QED BY <1>0, <1>1, <1>5, <3>1, Changers
  <2>3. Alone(k)'
    BY <2>2 DEF Alone
  <2>4. Sets(k)'
    BY <1>1, <2>1, <2>2 DEF Sets
  <2>5. RedisFresh(k)'
    <3>1. c \in BeingWritten(k)'
      BY <1>1, <2>2, Changers
    <3> QED BY <1>1, <3>1 DEF RedisFresh, Unsettled
  <2>6. Ages(k)'
    BY <1>1, <2>2 DEF Ages
  <2>7. Covered(k)'
    <3>1. ASSUME NEW t \in set.tags PROVE Remaining(k, t)'
      BY <1>1, <2>2, <3>1 DEF Remaining
    <3> QED BY <2>1, <3>1 DEF Covered
  <2> QED BY <2>3, <2>4, <2>5, <2>6, <2>7 DEF Fresh, Good
<1> QED BY <1>3, <1>4, <1>5

LEMMA BeginSetKeeps ==
  ASSUME IInv, TypeOK', NEW c \in Caller, NEW i \in Instance, NEW key \in Key,
         NEW v \in Value, NEW ttl \in TTL, NEW tags \in SUBSET Tag,
         BeginSet(c, i, key, v, ttl, tags), NEW k \in Key
  PROVE  /\ k \notin unsure' => Fresh(k)'
         /\ k \notin suspect' => Good(k)'
<1> DEFINE next == [pc |-> "setting", instance |-> i, key |-> key, value |-> v, ttl |-> ttl,
                    tags |-> tags]
           set == [value |-> v, tags |-> tags]
<1>1. /\ next \in Calls /\ next.key = key /\ next.pc = "setting"
      /\ set = [value |-> next.value, tags |-> next.tags]
  BY DEF Calls
<1>2. /\ call[c] = Idle /\ Go(c, next) /\ ChangeThrough(i, key, set)
      /\ UNCHANGED <<found, redis, index>>
  BY DEF BeginSet
<1> HIDE DEF next, set
<1> QED BY <1>1, <1>2, ChangeKeeps

LEMMA BeginDeleteKeeps ==
  ASSUME IInv, TypeOK', NEW c \in Caller, NEW i \in Instance, NEW key \in Key,
         BeginDelete(c, i, key), NEW k \in Key
  PROVE  /\ k \notin unsure' => Fresh(k)'
         /\ k \notin suspect' => Good(k)'
<1> DEFINE next == [pc |-> "deleting", instance |-> i, key |-> key]
<1>1. next \in Calls /\ next.key = key /\ next.pc = "deleting"
  BY DEF Calls
<1>2. /\ call[c] = Idle /\ Go(c, next) /\ ChangeThrough(i, key, NoLocal)
      /\ UNCHANGED <<found, redis, index>>
  BY DEF BeginDelete
<1>3. NoLocal.tags = {}
  BY DEF NoLocal
<1> HIDE DEF next
<1> QED BY <1>1, <1>2, <1>3, ChangeKeeps

(* A step of a call that changes a key: the other keys.                      *)
LEMMA OtherFresh ==
  ASSUME IInv, NEW c \in Caller, NEW next \in Calls \cup {Idle}, Go(c, next),
         next.key \in {call[c].key, None}, NEW k \in Key \ unsure, call[c].key # k,
         latest'[k] = latest[k], redis'[k] = redis[k]
  PROVE  Fresh(k)'
<1>1. TypeOK /\ Fresh(k)
  BY DEF IInv
<1>2. CallsKept(k)
  BY <1>1, DistributedAssumption, OtherCalls
<1> QED BY <1>1, <1>2, FreshStays

LEMMA OtherGood ==
  ASSUME IInv, TypeOK', NEW c \in Caller, NEW next \in Calls \cup {Idle}, Go(c, next),
         next.key \in {call[c].key, None}, NEW k \in Key \ suspect, call[c].key # k,
         latest'[k] = latest[k], redis'[k] = redis[k],
         \A t \in latest[k].tags : Covers(k, t) => Covers(k, t)'
  PROVE  Good(k)'
<1>0. TypeOK
  BY DEF IInv
<1>1. CallsKept(k)
  BY <1>0, DistributedAssumption, OtherCalls
<1>2. RedisKept(k)
  BY <1>0, SameRedis
<1> QED BY <1>1, <1>2, Keeps

(* The same when Redis' sets stay as they are.                               *)
LEMMA OtherQuiet ==
  ASSUME IInv, TypeOK', NEW c \in Caller, NEW next \in Calls \cup {Idle}, Go(c, next),
         next.key \in {call[c].key, None}, NEW k \in Key \ suspect, call[c].key # k,
         latest'[k] = latest[k], UNCHANGED <<index, found>>, redis'[k] = redis[k]
  PROVE  Good(k)'
<1>0. TypeOK
  BY DEF IInv
<1>1. CallsKept(k)
  BY <1>0, DistributedAssumption, OtherCalls
<1>2. RedisKept(k)
  BY <1>0, SameRedis
<1> QED BY <1>1, <1>2, Quiet

(* What NextTag makes of a call.                                             *)
LEMMA NextTagGoes ==
  ASSUME TypeOK, NEW c \in Caller, call[c].pc \in {"setting", "adding", "expiring"},
         NEW tags \in SUBSET Tag, NextTag(c, tags)
  PROVE  \E next \in Calls \cup {Idle} :
           /\ Go(c, next) /\ next.key \in {call[c].key, None}
           /\ tags = {} => next = Idle
           /\ tags # {} => /\ next.pc = "adding" /\ next.key = call[c].key
                           /\ next.ttl = call[c].ttl /\ next.tags = tags
<1> DEFINE next == [pc |-> "adding", instance |-> call[c].instance, key |-> call[c].key,
                    ttl |-> call[c].ttl, tags |-> tags]
<1>1. next \in Calls
  BY SetTyped DEF Calls
<1>2. /\ next.pc = "adding" /\ next.key = call[c].key
      /\ next.ttl = call[c].ttl /\ next.tags = tags
  OBVIOUS
<1>3. Go(c, IF tags = {} THEN Idle ELSE next)
  BY DEF NextTag
<1>4. Idle.key = None
  BY DEF Idle
<1> HIDE DEF next
<1>5. CASE tags = {}
  BY <1>3, <1>4, <1>5
<1>6. CASE tags # {}
  BY <1>1, <1>2, <1>3, <1>6
<1> QED BY <1>5, <1>6

LEMMA SetExKeeps ==
  ASSUME IInv, TypeOK', NEW c \in Caller, SetEx(c), NEW k \in Key
  PROVE  /\ k \notin unsure' => Fresh(k)'
         /\ k \notin suspect' => Good(k)'
<1> DEFINE key == call[c].key
           entry == [value |-> call[c].value, life |-> call[c].ttl]
<1>0. TypeOK /\ unsure \subseteq suspect /\ unsure \subseteq unsure' /\ suspect \subseteq suspect'
  BY DEF SetEx, IInv, TypeOK
<1>1. UNCHANGED <<latest, index, found>> /\ call[c].pc = "setting" /\ call[c].pc \in Changing
  BY DEF SetEx, localVars, Changing
<1>2. /\ key \in Key /\ call[c].ttl \in TTL /\ call[c].tags \in SUBSET Tag
      /\ call[c].ttl \in Nat
  BY <1>0, <1>1, SetTyped, LifeBounds
<1>3. redis \in [Key -> RedisEntry]
  BY <1>0 DEF TypeOK
<1>4. CASE k # key
  <2>1. redis'[k] = redis[k]
    BY <1>2, <1>3, <1>4 DEF SetEx
  <2>2. \E next \in Calls \cup {Idle} : Go(c, next) /\ next.key \in {call[c].key, None}
    <3>1. CASE SetFails(c)
      BY <3>1 DEF SetFails, Idle
    <3>2. CASE NextTag(c, call[c].tags)
      BY <1>0, <1>1, <1>2, <3>2, NextTagGoes
    <3> QED BY <3>1, <3>2 DEF SetEx
  <2> QED BY <1>0, <1>1, <1>4, <2>1, <2>2, OtherQuiet, OtherFresh
<1>5. CASE k = key /\ k \in unsure'
  BY <1>5 DEF TypeOK
<1>6. CASE k = key /\ k \notin unsure'
  <2>0. Alone(k) /\ Sets(k)
    BY <1>0, <1>6 DEF IInv, Fresh
  <2>1. redis' = [redis EXCEPT ![key] = entry] /\ NextTag(c, call[c].tags)
    BY <1>6 DEF SetEx
  <2>2. redis'[k] = entry /\ entry.value = call[c].value /\ entry.life = call[c].ttl
    BY <1>2, <1>3, <1>6, <2>1
  <2> HIDE DEF entry
  <2>3. BeingChanged(k) = {c} /\ c \in BeingChanged(k)
    BY <1>1, <1>6, <2>0, OnlyCall
  <2>4. latest[k] = [value |-> call[c].value, tags |-> call[c].tags]
    BY <1>1, <2>0, <2>3 DEF Sets
  <2>5. latest'[k].tags = call[c].tags /\ latest'[k].value = call[c].value
    BY <1>1, <2>4
  <2>6. PICK next \in Calls \cup {Idle} :
          /\ Go(c, next) /\ next.key \in {call[c].key, None}
          /\ call[c].tags = {} => next = Idle
          /\ call[c].tags # {} => /\ next.pc = "adding" /\ next.key = call[c].key
                                  /\ next.ttl = call[c].ttl /\ next.tags = call[c].tags
    BY <1>0, <1>1, <1>2, <2>1, NextTagGoes
  <2>7. /\ call'[c] = next /\ BeingChanged(k)' \subseteq {c}
        /\ next = Idle => BeingChanged(k)' = {}
        /\ next.key = k /\ next.pc \in Changing => BeingChanged(k)' = {c}
    BY <1>0, <2>3, <2>6, StepOf
  <2>8. next.pc # "setting"
    BY <2>6 DEF Idle
  <2>9. Fresh(k)'
    BY <2>2, <2>5, <2>7, <2>8 DEF Fresh, Alone, Sets, RedisFresh
  <2>10. CASE call[c].tags = {}
    <3>1. BeingChanged(k)' = {}
      BY <2>6, <2>7, <2>10
    <3>2. Ages(k)' /\ Covered(k)'
      BY <2>5, <2>10, <3>1 DEF Ages, Covered
    <3> QED BY <2>9, <3>2 DEF Good
  <2>11. CASE call[c].tags # {}
    <3>1. BeingChanged(k)' = {c} /\ call'[c] = next
      BY <1>6, <2>6, <2>7, <2>11 DEF Changing
    <3>2. Ages(k)'
      BY <1>2, <2>2, <2>6, <2>11, <3>1 DEF Ages
    <3>3. \A t \in latest'[k].tags : Remaining(k, t)'
      BY <2>5, <2>6, <2>11, <3>1 DEF Remaining
    <3> QED BY <2>9, <3>2, <3>3 DEF Good, Covered
  <2> QED BY <2>10, <2>11
<1> QED BY <1>4, <1>5, <1>6

LEMMA SAddKeeps ==
  ASSUME IInv, TypeOK', NEW c \in Caller, NEW tag \in Tag, SAdd(c, tag), NEW k \in Key
  PROVE  /\ k \notin unsure' => Fresh(k)'
         /\ k \notin suspect' => Good(k)'
<1> DEFINE key == call[c].key
           next == [pc |-> "expiring", instance |-> call[c].instance, key |-> key,
                    ttl |-> call[c].ttl, tag |-> tag, tags |-> call[c].tags \ {tag}]
<1>0. /\ TypeOK /\ latest[k].tags \subseteq Tag /\ unsure \subseteq suspect
      /\ unsure' = unsure /\ suspect \subseteq suspect'
  BY LatestTyped DEF SAdd, IInv, TypeOK, ofCalls
<1>1. /\ UNCHANGED <<latest, redis, found>> /\ call[c].pc = "adding"
      /\ call[c].pc \in Changing /\ tag \in call[c].tags
  BY DEF SAdd, localVars, ofCalls, Changing
<1>2. /\ key \in Key /\ call[c].ttl \in TTL /\ call[c].tags \in SUBSET Tag
      /\ call[c].instance \in Instance /\ redis[k].life \in Nat
  BY <1>0, <1>1, SetTyped, RedisTyped
<1>3. index \in [Tag -> IndexEntry]
  BY <1>0 DEF TypeOK
<1>4. index' \in {index, [index EXCEPT ![tag].members = @ \cup {key}]}
  BY DEF SAdd
<1>5. \A t \in Tag \ {tag} : index'[t] = index[t]
  BY <1>3, <1>4
<1>6. index'[tag].life = index[tag].life /\ index[tag].members \subseteq index'[tag].members
  <2>1. CASE index' = index
    BY <2>1
  <2>2. CASE index' = [index EXCEPT ![tag].members = @ \cup {key}]
    <3>1. index[tag] \in IndexEntry
      BY <1>3
    <3>2. index'[tag] = [index[tag] EXCEPT !.members = @ \cup {key}]
      BY <1>3, <2>2
    <3>3. /\ index'[tag].life = index[tag].life
          /\ index'[tag].members = index[tag].members \cup {key}
      BY <3>1, <3>2 DEF IndexEntry, NoIndex
    <3> QED BY <3>3
  <2> QED BY <1>4, <2>1, <2>2
<1>7. next \in Calls /\ next.key = key /\ next.pc = "expiring" /\ next.tag = tag
      /\ next.tags = call[c].tags \ {tag} /\ next.ttl = call[c].ttl
  BY <1>2 DEF Calls
<1> HIDE DEF next
<1>8. \E n \in {next, Idle} : Go(c, n) /\ (n = Idle => (k \notin suspect' => k # key))
  <2>1. CASE SetFails(c) /\ suspect' = suspect \cup {key}
    BY <2>1 DEF SetFails
  <2>2. CASE Go(c, next)
    BY <2>2, <1>7 DEF Idle
  <2> QED BY <2>1, <2>2 DEF SAdd, next
<1>9. PICK n \in {next, Idle} : Go(c, n) /\ (n = Idle => (k \notin suspect' => k # key))
  BY <1>8
<1>10. n \in Calls \cup {Idle} /\ n.key \in {call[c].key, None}
  BY <1>7, <1>9 DEF Idle
<1>11. CASE k # key
  <2>1. k \notin unsure' => Fresh(k)'
    BY <1>0, <1>1, <1>9, <1>10, <1>11, OtherFresh
  <2>2. CallsKept(k)
    BY <1>0, <1>9, <1>10, <1>11, DistributedAssumption, OtherCalls
  <2>3. ASSUME NEW t \in latest[k].tags, Covers(k, t) PROVE Covers(k, t)'
    <3>1. t \in Tag
      BY <1>0
    <3>2. index'[t].life = index[t].life /\ k \in index'[t].members
      BY <1>5, <1>6, <2>3, <3>1 DEF Covers
    <3>3. Lasts(k, t)'
      BY <1>1, <2>2, <2>3, <3>2 DEF Covers, Lasts, CallsKept
    <3> QED BY <1>1, <2>3, <3>2, <3>3 DEF Covers, Dropping
  <2> QED BY <1>0, <1>1, <1>9, <1>10, <1>11, <2>1, <2>3, OtherGood
<1>12. CASE k = key
  <2>1. ASSUME k \notin unsure'
        PROVE  /\ BeingChanged(k) = {c} /\ c \in BeingChanged(k)
               /\ call'[c] = n /\ BeingChanged(k)' \subseteq {c}
               /\ n = next => BeingChanged(k)' = {c}
               /\ Fresh(k)'
    <3>1. Fresh(k) /\ Alone(k)
      BY <1>0, <2>1 DEF IInv, Fresh
    <3>2. BeingChanged(k) = {c} /\ c \in BeingChanged(k)
      BY <1>1, <1>12, <3>1, OnlyCall
    <3>3. /\ call'[c] = n /\ BeingChanged(k)' \subseteq {c}
          /\ next.key = k /\ n = next => BeingChanged(k)' = {c}
      BY <1>0, <1>7, <1>9, <1>10, <3>2, StepOf DEF Changing
    <3>4. Alone(k)' /\ Sets(k)'
      BY <1>7, <1>9, <3>3 DEF Alone, Sets, Idle
    <3>5. BeingWritten(k) = {}
      BY <1>1, <3>2, Changers
    <3>6. RedisFresh(k)'
      BY <1>1, <3>1, <3>5 DEF Fresh, RedisFresh, Unsettled
    <3> QED BY <1>7, <1>12, <3>2, <3>3, <3>4, <3>6 DEF Fresh
  <2>2. ASSUME k \notin suspect' PROVE Good(k)'
    <3>0. k \in Key \ suspect /\ k \notin unsure' /\ Good(k)
      BY <1>0, <2>2 DEF IInv
    <3>1. BeingChanged(k) = {c} /\ c \in BeingChanged(k) /\ call'[c] = next
          /\ BeingChanged(k)' = {c}
      BY <1>9, <1>12, <2>1, <2>2, <3>0
    <3>2. Dropping(tag) = {} /\ index' = [index EXCEPT ![tag].members = @ \cup {key}]
      BY <1>12, <2>2 DEF SAdd
    <3>3. Ages(k)'
      BY <1>1, <1>7, <3>0, <3>1 DEF Good, Ages
    <3>4. ASSUME redis'[k] # NoEntry, NEW t \in latest'[k].tags
          PROVE  Remaining(k, t)' \/ Covers(k, t)'
      <4>1. t \in Tag /\ (Remaining(k, t) \/ Covers(k, t))
        BY <1>0, <1>1, <3>0, <3>4 DEF Good, Covered
      <4>2. CASE t = tag
        <5>1. k \in index'[t].members
          BY <1>3, <1>12, <3>2, <4>2
        <5>2. Lasts(k, t)'
          BY <1>7, <3>1, <4>2 DEF Lasts
        <5> QED BY <1>1, <3>2, <4>2, <5>1, <5>2 DEF Covers, Dropping
      <4>3. CASE t # tag
        <5>1. Remaining(k, t) => Remaining(k, t)'
          BY <1>7, <3>1, <4>3 DEF Remaining
        <5>2. Covers(k, t) => Covers(k, t)'
          BY <1>1, <1>5, <3>1, <4>1, <4>3 DEF Covers, Lasts, Dropping
        <5> QED BY <4>1, <5>1, <5>2
      <4> QED BY <4>2, <4>3
    <3> QED BY <3>3, <3>4 DEF Good, Covered
  <2> QED BY <2>1, <2>2
<1> QED BY <1>11, <1>12

LEMMA ExpireKeeps ==
  ASSUME IInv, TypeOK', NEW c \in Caller, Expire(c), NEW k \in Key
  PROVE  /\ k \notin unsure' => Fresh(k)'
         /\ k \notin suspect' => Good(k)'
<1> DEFINE key == call[c].key
           tag == call[c].tag
           ttl == call[c].ttl
           after == IF index[tag].members = {} THEN index
                    ELSE [index EXCEPT ![tag].life = ttl]
<1>0. /\ TypeOK /\ latest[k].tags \subseteq Tag /\ unsure \subseteq suspect
      /\ unsure' = unsure /\ suspect \subseteq suspect'
  BY LatestTyped DEF Expire, IInv, TypeOK, ofCalls
<1>1. /\ UNCHANGED <<latest, redis, found>> /\ call[c].pc = "expiring"
      /\ call[c].pc \in Changing
  BY DEF Expire, localVars, ofCalls, Changing
<1>2. /\ key \in Key /\ ttl \in Nat /\ call[c].tags \in SUBSET Tag
      /\ redis[k].life \in Nat /\ tag \in Tag
  BY <1>0, <1>1, SetTyped, RedisTyped, CallFields, LifeBounds DEF TypeOK
<1>3. index \in [Tag -> IndexEntry]
  BY <1>0 DEF TypeOK
<1>4. index' \in {index, after}
  BY DEF Expire
<1>5. \A t \in Tag \ {tag} : index'[t] = index[t]
  BY <1>3, <1>4
<1>6. ASSUME index[tag].members # {}
      PROVE  after[tag].life = ttl /\ after[tag].members = index[tag].members
  <2>1. index[tag] \in [members : (SUBSET Key) \ {{}}, life : Life \cup {Forever}]
    BY <1>2, <1>3, <1>6 DEF IndexEntry, NoIndex
  <2>2. after[tag] = [index[tag] EXCEPT !.life = ttl]
    BY <1>2, <1>3, <1>6
  <2> QED BY <2>1, <2>2
<1>7. k \notin suspect' /\ k \in index[tag].members => redis[k].life <= ttl
  BY <1>2 DEF Expire
<1> HIDE DEF after
<1>8. CASE k # key
  <2>1. \E n \in Calls \cup {Idle} : Go(c, n) /\ n.key \in {call[c].key, None}
    <3>1. CASE SetFails(c)
      BY <3>1 DEF SetFails, Idle
    <3>2. CASE NextTag(c, call[c].tags)
      BY <1>0, <1>1, <1>2, <3>2, NextTagGoes
    <3> QED BY <3>1, <3>2 DEF Expire
  <2>2. PICK n \in Calls \cup {Idle} : Go(c, n) /\ n.key \in {call[c].key, None}
    BY <2>1
  <2>3. k \notin unsure' => Fresh(k)'
    BY <1>0, <1>1, <1>8, <2>2, OtherFresh
  <2>4. CallsKept(k)
    BY <1>0, <1>8, <2>2, DistributedAssumption, OtherCalls
  <2>5. ASSUME k \notin suspect', NEW t \in latest[k].tags, Covers(k, t) PROVE Covers(k, t)'
    <3>1. t \in Tag /\ k \in index[t].members
      BY <1>0, <2>5 DEF Covers
    <3>2. CASE index'[t] = index[t]
      <4>1. Lasts(k, t)'
        BY <1>1, <2>4, <2>5, <3>2 DEF Covers, Lasts, CallsKept
      <4> QED BY <1>1, <2>5, <3>2, <4>1 DEF Covers, Dropping
    <3>3. CASE index'[t] # index[t]
      <4>1. t = tag /\ index' = after
        BY <1>4, <1>5, <3>1, <3>3
      <4>2. index'[t].life = ttl /\ index'[t].members = index[t].members
        BY <1>6, <3>1, <4>1
      <4>3. Lasts(k, t)'
        BY <1>1, <1>7, <2>5, <3>1, <4>1, <4>2 DEF Lasts
      <4> QED BY <1>1, <2>5, <3>1, <4>2, <4>3 DEF Covers, Dropping
    <3> QED BY <3>2, <3>3
  <2> QED BY <1>0, <1>1, <1>8, <2>2, <2>3, <2>5, OtherGood
<1>9. CASE k = key /\ k \notin unsure'
  <2>1. Fresh(k) /\ Alone(k)
    BY <1>0, <1>9 DEF IInv, Fresh
  <2>2. BeingChanged(k) = {c} /\ c \in BeingChanged(k)
    BY <1>1, <1>9, <2>1, OnlyCall
  <2>3. \E n \in Calls \cup {Idle} :
          /\ Go(c, n) /\ (n = Idle \/ n.pc = "adding")
          /\ k \notin suspect' =>
               /\ index' = after
               /\ call[c].tags = {} => n = Idle
               /\ call[c].tags # {} => /\ n.pc = "adding" /\ n.key = call[c].key
                                       /\ n.ttl = call[c].ttl /\ n.tags = call[c].tags
    <3>1. CASE SetFails(c) /\ k \in suspect'
      BY <3>1 DEF SetFails
    <3>2. CASE NextTag(c, call[c].tags) /\ index' = after
      BY <1>0, <1>1, <1>2, <3>2, NextTagGoes
    <3> QED BY <1>9, <3>1, <3>2 DEF Expire, after
  <2>4. PICK n \in Calls \cup {Idle} :
          /\ Go(c, n) /\ (n = Idle \/ n.pc = "adding")
          /\ k \notin suspect' =>
               /\ index' = after
               /\ call[c].tags = {} => n = Idle
               /\ call[c].tags # {} => /\ n.pc = "adding" /\ n.key = call[c].key
                                       /\ n.ttl = call[c].ttl /\ n.tags = call[c].tags
    BY <2>3
  <2>5. /\ call'[c] = n /\ BeingChanged(k)' \subseteq {c}
        /\ n = Idle => BeingChanged(k)' = {}
        /\ n.key = k /\ n.pc \in Changing => BeingChanged(k)' = {c}
    BY <1>0, <2>2, <2>4, StepOf
  <2>6. Fresh(k)'
    <3>1. Alone(k)' /\ Sets(k)'
      BY <2>4, <2>5 DEF Alone, Sets, Idle
    <3>2. BeingWritten(k) = {}
      BY <1>1, <2>2, Changers
    <3>3. RedisFresh(k)'
      BY <1>1, <2>1, <3>2 DEF Fresh, RedisFresh, Unsettled
    <3> QED BY <3>1, <3>3 DEF Fresh
  <2>7. ASSUME k \notin suspect' PROVE Good(k)'
    <3>0. Good(k) /\ index' = after
      BY <1>0, <2>4, <2>7 DEF IInv
    <3>1. redis[k].life <= ttl
      BY <1>1, <2>2, <3>0 DEF Good, Ages
    <3>2. ASSUME NEW t \in latest'[k].tags, Covers(k, t) PROVE Covers(k, t)'
      <4>1. t \in Tag /\ k \in index[t].members
        BY <1>0, <1>1, <3>2 DEF Covers
      <4>2. CASE t = tag
        <5>1. index'[t].life = ttl /\ index'[t].members = index[t].members
          BY <1>6, <3>0, <4>1, <4>2
        <5>2. Lasts(k, t)'
          BY <1>1, <3>1, <5>1 DEF Lasts
        <5> QED BY <1>1, <3>2, <4>1, <5>1, <5>2 DEF Covers, Dropping
      <4>3. CASE t # tag
        <5>1. index'[t] = index[t]
          BY <1>5, <4>1, <4>3
        <5>2. Lasts(k, t)'
          BY <1>1, <2>2, <3>2, <4>3, <5>1 DEF Covers, Lasts
        <5> QED BY <1>1, <3>2, <5>1, <5>2 DEF Covers, Dropping
      <4> QED BY <4>2, <4>3
    <3>3. redis'[k] # NoEntry => \A t \in latest'[k].tags : Remaining(k, t) \/ Covers(k, t)'
      BY <1>1, <3>0, <3>2 DEF Good, Covered
    <3>4. CASE call[c].tags = {}
      <4>1. BeingChanged(k)' = {} /\ \A t \in latest'[k].tags : ~Remaining(k, t)
        BY <2>2, <2>4, <2>5, <2>7, <3>4 DEF Remaining
      <4>2. Ages(k)' /\ Covered(k)'
        BY <3>3, <4>1 DEF Ages, Covered
      <4> QED BY <4>2 DEF Good
    <3>5. CASE call[c].tags # {}
      <4>1. BeingChanged(k)' = {c} /\ call'[c] = n
        BY <1>9, <2>4, <2>5, <2>7, <3>5 DEF Changing
      <4>2. Ages(k)'
        BY <1>1, <2>4, <2>7, <3>1, <3>5, <4>1 DEF Ages
      <4>3. \A t \in latest'[k].tags : Remaining(k, t) => Remaining(k, t)'
        BY <2>2, <2>4, <2>7, <3>5, <4>1 DEF Remaining
      <4> QED BY <3>3, <4>2, <4>3 DEF Good, Covered
    <3> QED BY <3>4, <3>5
  <2> QED BY <2>6, <2>7
<1>10. CASE k = key /\ k \in unsure'
  BY <1>0, <1>10
<1> QED BY <1>8, <1>9, <1>10

LEMMA DeleteFromRedisKeeps ==
  ASSUME IInv, TypeOK', NEW c \in Caller, DeleteFromRedis(c), NEW k \in Key
  PROVE  /\ k \notin unsure' => Fresh(k)'
         /\ k \notin suspect' => Good(k)'
<1> DEFINE key == call[c].key
           next(b) == [pc |-> "queueing", instance |-> call[c].instance,
                       key |-> call[c].key, answered |-> b]
<1>0. /\ TypeOK /\ latest[k].tags \subseteq Tag /\ unsure \subseteq suspect
      /\ unsure' = unsure /\ suspect' = suspect
  BY LatestTyped DEF DeleteFromRedis, IInv, TypeOK, history, ofCalls
<1>1. /\ UNCHANGED <<latest, index, found>> /\ call[c].pc = "deleting"
      /\ call[c].pc \in Changing
  BY DEF DeleteFromRedis, localVars, history, ofCalls, Changing
<1>2. key \in Key /\ call[c].instance \in Instance
  BY <1>0, <1>1, CallFields DEF TypeOK
<1>3. redis \in [Key -> RedisEntry]
  BY <1>0 DEF TypeOK
<1>4. \A b \in BOOLEAN : /\ next(b) \in Calls /\ next(b).pc = "queueing"
                         /\ next(b).key = key /\ next(b).answered = b
  BY <1>2 DEF Calls
<1>5. /\ redis' \in {redis, [redis EXCEPT ![key] = NoEntry]}
      /\ \E b \in BOOLEAN : /\ Go(c, next(b))
                            /\ b => redis' = [redis EXCEPT ![key] = NoEntry]
  BY DEF DeleteFromRedis
<1> HIDE DEF next
<1>6. PICK b \in BOOLEAN : /\ Go(c, next(b))
                           /\ b => redis' = [redis EXCEPT ![key] = NoEntry]
  BY <1>5
<1>7. CASE k # key
  <2>1. redis'[k] = redis[k]
    BY <1>3, <1>5, <1>7
  <2> QED BY <1>0, <1>1, <1>4, <1>6, <1>7, <2>1, OtherQuiet, OtherFresh
<1>8. CASE k = key /\ k \notin unsure
  <2>1. redis'[k] \in {redis[k], NoEntry} /\ (b => redis'[k] = NoEntry)
    BY <1>2, <1>3, <1>5, <1>6, <1>8
  <2>2. BeingChanged(k) = {c} /\ c \in BeingChanged(k)
    BY <1>1, <1>8, OnlyCall DEF IInv, Fresh
  <2>3. call'[c] = next(b) /\ BeingChanged(k)' = {c}
    BY <1>0, <1>4, <1>6, <1>8, <2>2, StepOf DEF Changing
  <2>4. Alone(k)' /\ Sets(k)' /\ Ages(k)'
    BY <1>4, <2>3 DEF Alone, Sets, Ages
  <2>5. RedisFresh(k)'
    <3>1. c \in BeingWritten(k)'
      BY <1>4, <2>3, Changers
    <3> QED BY <1>4, <2>1, <2>3, <3>1 DEF RedisFresh, Unsettled, NoEntry
  <2>6. ASSUME k \notin suspect, redis'[k] # NoEntry, NEW t \in latest'[k].tags
        PROVE  Covers(k, t)'
    <3>1. redis'[k] = redis[k] /\ ~Remaining(k, t)
      BY <1>1, <2>1, <2>2, <2>6 DEF Remaining
    <3>2. Covers(k, t)
      BY <1>1, <2>6, <3>1 DEF IInv, Good, Covered
    <3> QED BY <1>1, <2>2, <3>1, <3>2 DEF Covers, Lasts, Dropping
  <2> QED BY <1>0, <2>4, <2>5, <2>6 DEF Fresh, Good, Covered
<1> QED BY <1>0, <1>7, <1>8

LEMMA QueueKeeps ==
  ASSUME IInv, TypeOK', NEW c \in Caller, Queue(c), NEW k \in Key
  PROVE  /\ k \notin unsure' => Fresh(k)'
         /\ k \notin suspect' => Good(k)'
<1> DEFINE key == call[c].key
<1>0. /\ TypeOK /\ unsure \subseteq suspect /\ unsure \subseteq unsure'
      /\ suspect \subseteq suspect' /\ (k = key /\ k \notin unsure' => call[c].answered)
      /\ unsure' \subseteq suspect'
  BY DEF Queue, IInv, TypeOK
<1>1. /\ UNCHANGED <<latest, index, found, redis>>
      /\ call[c].pc = "queueing" /\ call[c].pc \in Changing /\ Go(c, Idle)
  BY DEF Queue, Changing
<1>2. Idle.key = None
  BY DEF Idle
<1>3. CASE k # key
  BY <1>0, <1>1, <1>2, <1>3, OtherQuiet, OtherFresh
<1>4. CASE k = key /\ k \notin unsure'
  <2>1. Fresh(k) /\ Alone(k)
    BY <1>0, <1>4 DEF IInv, Fresh
  <2>2. BeingChanged(k) = {c} /\ c \in BeingChanged(k)
    BY <1>1, <1>4, <2>1, OnlyCall
  <2>3. BeingChanged(k)' = {}
    BY <1>0, <1>1, <2>2, StepOf
  <2>4. Alone(k)' /\ Sets(k)' /\ Ages(k)'
    BY <2>3 DEF Alone, Sets, Ages
  <2>5. RedisFresh(k)'
    <3>1. ~Unsettled(k)
      BY <1>0, <1>1, <1>4, <2>2, Changers DEF Unsettled
    <3> QED BY <1>1, <2>1, <3>1 DEF Fresh, RedisFresh
  <2>6. ASSUME k \notin suspect', redis'[k] # NoEntry, NEW t \in latest'[k].tags
        PROVE  Covers(k, t)'
    <3>1. ~Remaining(k, t)
      BY <1>1, <2>2 DEF Remaining
    <3>2. Covers(k, t)
      BY <1>0, <1>1, <2>6, <3>1 DEF IInv, Good, Covered
    <3> QED BY <1>1, <2>2, <3>2 DEF Covers, Lasts, Dropping
  <2> QED BY <2>4, <2>5, <2>6 DEF Fresh, Good, Covered
<1> QED BY <1>0, <1>3, <1>4

(* A step of no call, and one that only begins, moves or ends a get.         *)
LEMMA UncalledKeeps ==
  ASSUME IInv, TypeOK', NEW k \in Key, latest'[k] = latest[k], CallsKept(k), RedisKept(k),
         unsure' = unsure, suspect \subseteq suspect',
         k \notin suspect' /\ redis'[k] # NoEntry =>
           \A t \in latest[k].tags : Covers(k, t) => Covers(k, t)'
  PROVE  /\ k \notin unsure' => Fresh(k)'
         /\ k \notin suspect' => Good(k)'
<1>1. k \notin unsure' => Fresh(k)'
  BY FreshStays DEF IInv, RedisKept
<1>2. k \notin suspect' => Good(k)'
  BY Keeps
<1> QED BY <1>1, <1>2

LEMMA QuietKeeps ==
  ASSUME IInv, TypeOK', NEW k \in Key, latest'[k] = latest[k], CallsKept(k),
         UNCHANGED <<redis, index, found, unsure, suspect>>
  PROVE  /\ k \notin unsure' => Fresh(k)'
         /\ k \notin suspect' => Good(k)'
<1>1. RedisKept(k)
  BY SameRedis DEF IInv
<1>2. k \notin unsure' => Fresh(k)'
  BY <1>1, FreshStays DEF IInv, RedisKept
<1>3. k \notin suspect' => Good(k)'
  BY <1>1, Quiet
<1> QED BY <1>2, <1>3

LEMMA ProcessKeeps ==
  ASSUME IInv, TypeOK', NEW i \in Instance, Process(i), NEW k \in Key
  PROVE  /\ k \notin unsure' => Fresh(k)'
         /\ k \notin suspect' => Good(k)'
<1> DEFINE Kept == /\ k \notin unsure' => Fresh(k)'
                   /\ k \notin suspect' => Good(k)'
<1>0. TypeOK /\ latest[k].tags \subseteq Tag
  BY LatestTyped DEF IInv
<1>1. UNCHANGED <<latest, call, unsure, suspect>>
  BY DEF Process, StartBatch, ProcessKey, ListMembers, DeleteMembers, DropIndex, history,
         ofCalls
<1>2. /\ redis \in [Key -> RedisEntry] /\ index \in [Tag -> IndexEntry]
      /\ found \in [Instance -> Found]
  BY <1>0 DEF TypeOK
<1>3. redis'[k].life \in Nat
  BY NextRedisTyped
<1>4. CallsKept(k) /\ BeingChanged(k)' = BeingChanged(k)
  BY <1>1, SameCalls DEF CallsKept
<1>5. CASE StartBatch(i)
  <2>1. UNCHANGED <<redis, index, found>>
    BY <1>5 DEF StartBatch
  <2>2. RedisKept(k)
    BY <1>0, <2>1, SameRedis
  <2>3. \A t \in latest[k].tags : Covers(k, t) => Covers(k, t)'
    BY <1>1, <1>4, <2>1 DEF Covers, Lasts, Dropping
  <2> QED BY <1>0, <1>1, <1>4, <2>2, <2>3, UncalledKeeps
<1>6. ASSUME NEW key \in Key, ProcessKey(i, key) PROVE Kept
  <2>1. UNCHANGED <<index, found>>
    BY <1>2, <1>6 DEF ProcessKey, Done
  <2>2. redis'[k] = redis[k] \/ redis'[k] = NoEntry
    BY <1>2, <1>6 DEF ProcessKey, Either
  <2>3. RedisKept(k)
    BY <1>0, <2>2, SameRedis
  <2>4. \A t \in latest[k].tags : redis'[k] # NoEntry /\ Covers(k, t) => Covers(k, t)'
    BY <1>1, <1>4, <2>1, <2>2 DEF Covers, Lasts, Dropping
  <2> QED BY <1>0, <1>1, <1>4, <2>3, <2>4, UncalledKeeps
<1>7. ASSUME NEW tag \in Tag, ListMembers(i, tag) PROVE Kept
  <2>1. UNCHANGED <<redis, index>>
    BY <1>7 DEF ListMembers
  <2>2. RedisKept(k)
    BY <1>0, <2>1, SameRedis
  <2>3. /\ \A j \in Instance \ {i} : found'[j] = found[j]
        /\ \/ found'[i] = Waiting
           \/ found'[i] = [tag |-> tag, members |-> index[tag].members, step |-> "members"]
    BY <1>2, <1>7 DEF ListMembers, Done
  <2>4. ASSUME NEW t \in latest[k].tags, Covers(k, t) PROVE Covers(k, t)'
    <3>1. t \in Tag /\ t # None
      BY <1>0, DistributedAssumption
    <3>2. ASSUME NEW j \in Dropping(t)'
          PROVE  found'[j].step = "members" /\ k \in found'[j].members
      <4>1. j \in Instance /\ found'[j].tag = t
        BY DEF Dropping
      <4>2. CASE j # i
        BY <2>3, <2>4, <4>1, <4>2 DEF Covers, Dropping
      <4>3. CASE j = i
        <5>1. found'[i] # Waiting
          BY <3>1, <4>1, <4>3 DEF Waiting
        <5>2. found'[i] = [tag |-> tag, members |-> index[tag].members, step |-> "members"]
          BY <2>3, <5>1
        <5> QED BY <2>4, <4>1, <4>3, <5>2 DEF Covers
      <4> QED BY <4>2, <4>3
    <3>3. Lasts(k, t)'
      BY <1>1, <1>4, <2>1, <2>4 DEF Covers, Lasts
    <3> QED BY <2>1, <2>4, <3>2, <3>3 DEF Covers
  <2> QED BY <1>0, <1>1, <1>4, <2>2, <2>4, UncalledKeeps
<1>8. CASE DeleteMembers(i)
  <2> DEFINE after == [m \in Key |-> IF m \in found[i].members THEN NoEntry ELSE redis[m]]
  <2>1. UNCHANGED index /\ found[i].step = "members"
    BY <1>8 DEF DeleteMembers
  <2>2. redis'[k] = redis[k] \/ redis'[k] = NoEntry
    BY <1>0, <1>8 DEF DeleteMembers
  <2>3. RedisKept(k)
    BY <1>0, <2>2, SameRedis
  <2>4. /\ \A j \in Instance \ {i} : found'[j] = found[j]
        /\ \/ found'[i] = Waiting
           \/ redis' = after /\ found'[i].tag = found[i].tag
    <3>1. CASE Done(i, found[i].tag)
      BY <1>2, <3>1 DEF Done
    <3>2. CASE redis' = after /\ found' = [found EXCEPT ![i].step = "index"]
      <4>1. found[i] \in [tag : Tag, members : SUBSET Key, step : {"members", "index"}]
        BY <1>2, <2>1 DEF Found, Waiting
      <4>2. found'[i] = [found[i] EXCEPT !.step = "index"]
        BY <1>2, <3>2
      <4>3. found'[i].tag = found[i].tag
        BY <4>1, <4>2
      <4> QED BY <1>2, <3>2, <4>3
    <3> QED BY <1>8, <3>1, <3>2 DEF DeleteMembers
  <2>5. ASSUME redis'[k] # NoEntry, NEW t \in latest[k].tags, Covers(k, t) PROVE Covers(k, t)'
    <3>1. t \in Tag /\ t # None
      BY <1>0, DistributedAssumption
    <3>2. ASSUME NEW j \in Dropping(t)'
          PROVE  found'[j].step = "members" /\ k \in found'[j].members
      <4>1. j \in Instance /\ found'[j].tag = t
        BY DEF Dropping
      <4>2. CASE j # i
        BY <2>4, <2>5, <4>1, <4>2 DEF Covers, Dropping
      <4>3. CASE j = i
        <5>1. redis' = after /\ found[i].tag = t
          BY <2>4, <3>1, <4>1, <4>3 DEF Waiting
        <5>2. k \in found[i].members
          BY <2>5, <4>1, <4>3, <5>1 DEF Covers, Dropping
        <5> QED BY <1>0, <2>5, <5>1, <5>2
      <4> QED BY <4>2, <4>3
    <3>3. Lasts(k, t)'
      BY <1>1, <1>4, <2>1, <2>2, <2>5 DEF Covers, Lasts
    <3> QED BY <2>1, <2>5, <3>2, <3>3 DEF Covers
  <2> QED BY <1>0, <1>1, <1>4, <2>3, <2>5, UncalledKeeps
<1>9. CASE DropIndex(i)
  <2> DEFINE tag == found[i].tag
  <2>1. UNCHANGED redis /\ found[i].step = "index"
        /\ index' \in {index, [index EXCEPT ![tag] = NoIndex]}
    BY <1>9 DEF DropIndex, Either
  <2>2. RedisKept(k)
    BY <1>0, <2>1, SameRedis
  <2>3. found'[i] = Waiting /\ \A j \in Instance \ {i} : found'[j] = found[j]
    BY <1>2, <1>9 DEF DropIndex, Done
  <2>4. ASSUME NEW t \in latest[k].tags, Covers(k, t) PROVE Covers(k, t)'
    <3>1. t \in Tag /\ t # None
      BY <1>0, DistributedAssumption
    <3>2. t # tag
      BY <2>1, <2>4 DEF Covers, Dropping
    <3>3. index'[t] = index[t]
      BY <1>2, <2>1, <3>1, <3>2
    <3>4. \A j \in Dropping(t)' : j \in Dropping(t) /\ found'[j] = found[j]
      BY <2>3, <3>1 DEF Dropping, Waiting
    <3>5. Lasts(k, t)'
      BY <1>1, <1>4, <2>1, <2>4, <3>3 DEF Covers, Lasts
    <3> QED BY <2>4, <3>3, <3>4, <3>5 DEF Covers
  <2> QED BY <1>0, <1>1, <1>4, <2>2, <2>4, UncalledKeeps
<1> QED BY <1>5, <1>6, <1>7, <1>8, <1>9 DEF Process

LEMMA TickKeeps ==
  ASSUME IInv, TypeOK', Tick, NEW k \in Key
  PROVE  /\ k \notin unsure' => Fresh(k)'
         /\ k \notin suspect' => Good(k)'
<1>0. TypeOK /\ latest[k].tags \subseteq Tag
  BY LatestTyped DEF IInv
<1>1. UNCHANGED <<latest, call, found, unsure>> /\ suspect \subseteq suspect'
  BY DEF Tick, localVars, ofCalls
<1>2. /\ redis'[k] = Alive(redis[k], NoEntry) /\ redis[k] \in RedisEntry
      /\ \A t \in Tag : index'[t] = Alive(index[t], NoIndex) /\ index[t] \in IndexEntry
  BY <1>0 DEF Tick, TypeOK
<1>3. k \notin suspect' => \A c \in BeingChanged(k) : call[c].pc # "expiring"
  BY DEF Tick, BeingChanged, BeingSet, BeingWritten
<1>4. CallsKept(k) /\ BeingChanged(k)' = BeingChanged(k)
  BY <1>1, SameCalls DEF CallsKept
<1>5. redis[k].life \in Nat /\ redis'[k].life \in Nat
  BY <1>0, RedisTyped, NextRedisTyped
<1>6. redis'[k] # NoEntry => redis[k] # NoEntry /\ redis[k].life > 1
                             /\ redis'[k].life = redis[k].life - 1
  BY <1>2, LivedEntry
<1>7. RedisKept(k)
  <2>1. redis'[k].value \in {redis[k].value, None}
    BY <1>2, LivedEntry
  <2>2. redis'[k].life <= redis[k].life
    BY <1>5, <1>6 DEF NoEntry
  <2> QED BY <1>6, <2>1, <2>2 DEF RedisKept
<1>8. ASSUME k \notin suspect', redis'[k] # NoEntry, NEW t \in latest[k].tags, Covers(k, t) PROVE Covers(k, t)'
  <2>1. t \in Tag /\ index[t].life \in Nat
    BY <1>0, IndexTyped
  <2>2. index[t].life = Forever \/ redis[k].life <= index[t].life
    BY <1>3, <1>8 DEF Covers, Lasts
  <2>3. CASE index[t].life = Forever
    <3>1. index'[t] = index[t]
      BY <1>2, <2>1, <2>3, LivedIndex
    <3> QED BY <1>1, <1>8, <2>3, <3>1 DEF Covers, Lasts, Dropping
  <2>4. CASE index[t].life # Forever
    <3>1. index[t].life > 1 /\ redis'[k].life <= index[t].life - 1
      BY <1>5, <1>6, <1>8, <2>1, <2>2, <2>4
    <3>2. index'[t].members = index[t].members /\ index'[t].life = index[t].life - 1
      BY <1>2, <2>1, <2>4, <3>1, LivedIndex
    <3> QED BY <1>1, <1>8, <3>1, <3>2 DEF Covers, Lasts, Dropping
  <2> QED BY <2>3, <2>4
<1> QED BY <1>0, <1>1, <1>4, <1>7, <1>8, UncalledKeeps

LEMMA EvictKeeps ==
  ASSUME IInv, TypeOK', Evict, NEW k \in Key
  PROVE  /\ k \notin unsure' => Fresh(k)'
         /\ k \notin suspect' => Good(k)'
<1>0. TypeOK /\ latest[k].tags \subseteq Tag
  BY LatestTyped DEF IInv
<1>1. UNCHANGED <<latest, call, found, unsure>> /\ suspect \subseteq suspect'
  BY DEF Evict, localVars, ofCalls
<1>2. CallsKept(k) /\ BeingChanged(k)' = BeingChanged(k)
  BY <1>1, SameCalls DEF CallsKept
<1>3. redis'[k] = redis[k] \/ redis'[k] = NoEntry
  BY <1>0 DEF Evict, TypeOK
<1>4. \A t \in Tag : index'[t] = index[t] \/ k \notin index[t].members \/ k \in suspect'
  BY <1>0 DEF Evict, TypeOK
<1>5. RedisKept(k)
  BY <1>0, <1>3, SameRedis
<1>6. ASSUME k \notin suspect', redis'[k] # NoEntry, NEW t \in latest[k].tags, Covers(k, t)
      PROVE  Covers(k, t)'
  <2>1. index'[t] = index[t] /\ redis'[k] = redis[k]
    BY <1>0, <1>3, <1>4, <1>6 DEF Covers
  <2> QED BY <1>1, <1>2, <1>6, <2>1 DEF Covers, Lasts, Dropping
<1> QED BY <1>0, <1>1, <1>2, <1>5, <1>6, UncalledKeeps

(* A restart ends calls: those whose change Redis may lack leave the key     *)
(* unsure, the others suspect.                                               *)
LEMMA RestartKeeps ==
  ASSUME IInv, TypeOK', NEW i \in Instance, Restart(i), NEW k \in Key
  PROVE  /\ k \notin unsure' => Fresh(k)'
         /\ k \notin suspect' => Good(k)'
<1> DEFINE mine == {c \in Caller : call[c] # Idle /\ call[c].instance = i}
<1>0. TypeOK /\ latest[k].tags \subseteq Tag
  BY LatestTyped DEF IInv
<1>1. /\ UNCHANGED <<redis, index, latest>>
      /\ found' = [found EXCEPT ![i] = Waiting]
      /\ call' = [c \in Caller |-> IF c \in mine THEN Idle ELSE call[c]]
      /\ unsure \subseteq unsure' /\ suspect \subseteq suspect'
      /\ k \notin unsure' => BeingWritten(k) \cap mine = {}
      /\ k \notin suspect' => BeingChanged(k) \cap mine = {}
  BY DEF Restart
<1> HIDE DEF mine
<1>2. Idle.key # k
  BY DistributedAssumption DEF Idle
<1>3. \A c \in BeingChanged(k)' : c \in BeingChanged(k) /\ call'[c] = call[c]
  BY <1>1, <1>2, Changers
<1>4. k \notin unsure' => Fresh(k)'
  <2> SUFFICES ASSUME k \notin unsure' PROVE Fresh(k)'
    OBVIOUS
  <2>1. \A c \in BeingWritten(k) : call'[c] = call[c]
    BY <1>1, Changers
  <2>2. BeingWritten(k) \subseteq BeingWritten(k)'
    BY <2>1, Changers
  <2> QED BY <1>1, <1>3, <2>2, FreshKeeps DEF IInv
<1>5. k \notin suspect' => Good(k)'
  <2> SUFFICES ASSUME k \notin suspect' PROVE Good(k)'
    OBVIOUS
  <2>1. CallsKept(k)
    <3>1. \A c \in BeingChanged(k) : call'[c] = call[c]
      BY <1>1, Changers
    <3>2. BeingChanged(k) \subseteq BeingChanged(k)'
      BY <3>1, Changers
    <3> QED BY <1>3, <3>1, <3>2 DEF CallsKept
  <2>2. RedisKept(k) /\ redis'[k].life \in Nat
    BY <1>0, <1>1, SameRedis, NextRedisTyped
  <2>3. ASSUME NEW t \in latest[k].tags, Covers(k, t) PROVE Covers(k, t)'
    <3>1. t \in Tag /\ t # None
      BY <1>0, DistributedAssumption
    <3>2. \A j \in Instance : found'[j].tag = t => found'[j] = found[j]
      BY <1>0, <1>1, <3>1 DEF TypeOK, Waiting
    <3>3. redis'[k].life <= redis[k].life
      BY <2>2 DEF RedisKept
    <3> QED BY <1>0, <1>1, <2>1, <2>2, <2>3, <3>1, <3>2, <3>3, SameIndex
  <2> QED BY <1>1, <2>1, <2>2, <2>3, Keeps
<1> QED BY <1>4, <1>5

(* Gets and the local caches do not matter to Redis.                         *)
LEMMA GetKeeps ==
  ASSUME IInv, TypeOK', NEW c \in Caller, NEW k \in Key,
         \/ \E i \in Instance, key \in Key : Fetch(c, i, key)
         \/ Read(c) \/ Store(c)
  PROVE  /\ k \notin unsure' => Fresh(k)'
         /\ k \notin suspect' => Good(k)'
<1>0. TypeOK /\ Idle \in Calls \cup {Idle} /\ Idle.pc \notin Changing
  BY DEF IInv, Idle, Changing
<1>1. latest'[k] = latest[k] /\ UNCHANGED <<redis, index, found, unsure, suspect>>
  BY DEF Fetch, Read, Store, localVars
<1>2. CallsKept(k)
  <2>1. ASSUME NEW i \in Instance, NEW key \in Key, Fetch(c, i, key) PROVE CallsKept(k)
    <3> DEFINE next == [pc |-> "getting", instance |-> i, key |-> key]
    <3>1. next \in Calls \cup {Idle} /\ next.pc \notin Changing
      BY DEF Calls, Changing
    <3>2. Go(c, next) /\ call[c] = Idle
      BY <2>1 DEF Fetch
    <3> HIDE DEF next
    <3> QED BY <1>0, <3>1, <3>2, GetCalls
  <2>2. ASSUME Read(c) PROVE CallsKept(k)
    <3> DEFINE next == [pc |-> "storing", instance |-> call[c].instance, key |-> call[c].key,
                        value |-> redis[call[c].key].value]
    <3>1. call[c].pc = "getting" /\ call[c].pc \notin Changing
      BY <2>2 DEF Read, Changing
    <3>2. call[c].key \in Key /\ call[c].instance \in Instance
      BY <1>0, <3>1, CallFields DEF TypeOK
    <3>3. redis[call[c].key] # NoEntry => next \in Calls /\ next.pc \notin Changing
      BY <1>0, <3>2, RedisTyped DEF Calls, Changing
    <3>4. Go(c, Idle) \/ (redis[call[c].key] # NoEntry /\ Go(c, next))
      BY <2>2 DEF Read
    <3> HIDE DEF next
    <3> QED BY <1>0, <3>1, <3>3, <3>4, GetCalls
  <2>3. ASSUME Store(c) PROVE CallsKept(k)
    <3>1. call[c].pc \notin Changing /\ Go(c, Idle)
      BY <2>3 DEF Store, Changing
    <3> QED BY <1>0, <3>1, GetCalls
  <2> QED BY <2>1, <2>2, <2>3
<1> QED BY <1>1, <1>2, QuietKeeps

LEMMA LocalKeeps ==
  ASSUME IInv, TypeOK', NEW i \in Instance, NEW k \in Key,
         \/ \E key \in Key : Expired(i, key)
         \/ \E tags \in SUBSET Tag : InvalidateByTags(i, tags)
  PROVE  /\ k \notin unsure' => Fresh(k)'
         /\ k \notin suspect' => Good(k)'
<1>1. UNCHANGED <<call, latest, redis, index, found, unsure, suspect>>
  BY DEF Expired, InvalidateByTags, history, ofCalls
<1> QED BY <1>1, SameCalls, QuietKeeps

-----------------------------------------------------------------------------
(* The copies of the local caches.                                           *)
LEMMA LocalsKeep ==
  ASSUME Locals, UNCHANGED <<old, latest>>,
         \A i \in Instance, k \in Key : local'[i][k] \in {local[i][k], NoLocal}
  PROVE  Locals'
BY DEF Locals, NoLocal

LEMMA ChangeLocals ==
  ASSUME TypeOK, Locals, NEW i \in Instance, NEW key \in Key, NEW set,
         ChangeThrough(i, key, set), local'[i][key].value \in {set.value, None},
         \A j \in Instance : \A m \in Key :
           j # i \/ m # key => local'[j][m] \in {local[j][m], NoLocal}
  PROVE  Locals'
<1>1. /\ latest' = [latest EXCEPT ![key] = set] /\ latest \in [Key -> LocalEntry]
      /\ old' = [j \in Instance |-> IF j = i THEN old[j] \ {key} ELSE old[j] \cup {key}]
  BY DEF ChangeThrough, TypeOK
<1> SUFFICES ASSUME NEW k \in Key, NEW j \in Instance, k \notin old'[j]
             PROVE  local'[j][k].value \in {latest'[k].value, None}
  BY DEF Locals
<1>2. CASE k = key
  BY <1>1, <1>2
<1>3. CASE k # key
  BY <1>1, <1>3 DEF Locals, NoLocal
<1> QED BY <1>2, <1>3

LEMMA StoreLocals ==
  ASSUME TypeOK, Locals, Gets, NEW c \in Caller, Store(c)
  PROVE  Locals'
<1> DEFINE i == call[c].instance
           key == call[c].key
<1>1. /\ call[c].pc = "storing" /\ StoreInLocalCache(i, key, call[c].value, {})
      /\ old' = [old EXCEPT ![i] = IF c \in overtaken THEN @ \cup {key} ELSE @ \ {key}]
      /\ UNCHANGED latest
  BY DEF Store
<1>2. key \in Key /\ i \in Instance
  BY <1>1, CallFields DEF TypeOK
<1>3. /\ \A j \in Instance \ {i} : local'[j] = local[j]
      /\ local'[i][key] = [value |-> call[c].value, tags |-> {}]
      /\ \A m \in Key \ {key} : local'[i][m] \in {local[i][m], NoLocal}
  BY <1>1, <1>2, Stored
<1>4. old \in [Instance -> SUBSET Key]
  BY DEF TypeOK
<1> SUFFICES ASSUME NEW k \in Key, NEW j \in Instance, k \notin old'[j]
             PROVE  local'[j][k].value \in {latest'[k].value, None}
  BY DEF Locals
<1>5. CASE k = key /\ j = i
  <2>1. c \notin overtaken
    BY <1>1, <1>4, <1>5
  <2>2. call[c].value = latest[k].value
    BY <1>1, <1>5, <2>1 DEF Gets
  <2> QED BY <1>1, <1>3, <1>5, <2>2
<1>6. CASE ~(k = key /\ j = i)
  <2>1. k \notin old[j]
    BY <1>1, <1>4, <1>6
  <2>2. local'[j][k].value \in {local[j][k].value, None}
    BY <1>3, <1>6 DEF NoLocal
  <2> QED BY <1>1, <2>1, <2>2 DEF Locals
<1> QED BY <1>5, <1>6

LEMMA NextLocals ==
  ASSUME IInv, [Next]_cacheVars
  PROVE  Locals'
<1>0. TypeOK /\ Locals /\ Gets /\ local \in [Instance -> [Key -> LocalEntry]]
  BY DEF IInv, TypeOK
<1>1. ASSUME UNCHANGED <<old, latest, local>> PROVE Locals'
  BY <1>0, <1>1, LocalsKeep
<1>2. ASSUME NEW c \in Caller, NEW i \in Instance, Begin(c, i) PROVE Locals'
  <2>1. ASSUME NEW k \in Key, BeginDelete(c, i, k) PROVE Locals'
    <3>1. local' = [local EXCEPT ![i][k] = NoLocal] /\ ChangeThrough(i, k, NoLocal)
      BY <2>1 DEF BeginDelete
    <3>2. local'[i][k].value \in {NoLocal.value, None}
      BY <1>0, <3>1
    <3>3. \A j \in Instance : \A m \in Key :
            j # i \/ m # k => local'[j][m] \in {local[j][m], NoLocal}
      BY <1>0, <3>1
    <3> QED BY <1>0, <3>1, <3>2, <3>3, ChangeLocals
  <2>2. ASSUME NEW k \in Key, NEW v \in Value, NEW ttl \in TTL, NEW tags \in SUBSET Tag,
               BeginSet(c, i, k, v, ttl, tags)
        PROVE  Locals'
    <3> DEFINE set == [value |-> v, tags |-> tags]
    <3>1. StoreInLocalCache(i, k, v, tags) /\ ChangeThrough(i, k, set)
      BY <2>2 DEF BeginSet
    <3>2. /\ \A j \in Instance \ {i} : local'[j] = local[j]
          /\ local'[i][k] = set
          /\ \A m \in Key \ {k} : local'[i][m] \in {local[i][m], NoLocal}
      BY <1>0, <3>1, Stored
    <3> HIDE DEF set
    <3> QED BY <1>0, <3>1, <3>2, ChangeLocals
  <2>3. ASSUME NEW k \in Key, Get(c, i, k) \/ Warm(c, i, k) PROVE Locals'
    BY <1>1, <2>3 DEF Get, Warm, Fetch, localVars
  <2> QED BY <1>2, <2>1, <2>2, <2>3 DEF Begin
<1>3. ASSUME NEW c \in Caller, Continue(c) PROVE Locals'
  <2>1. ASSUME Store(c) PROVE Locals'
    BY <1>0, <2>1, StoreLocals
  <2>2. ASSUME ~Store(c) PROVE UNCHANGED <<old, latest, local>>
    BY <1>3, <2>2 DEF Continue, Read, SetEx, SAdd, Expire, DeleteFromRedis, Queue, localVars,
                      history, ofCalls
  <2> QED BY <1>1, <2>1, <2>2
<1>4. ASSUME NEW i \in Instance, NEW tags \in SUBSET Tag, InvalidateByTags(i, tags)
      PROVE  Locals'
  <2>1. UNCHANGED <<old, latest>>
    BY <1>4 DEF InvalidateByTags, ofCalls
  <2>2. \A j \in Instance, k \in Key : local'[j][k] \in {local[j][k], NoLocal}
    BY <1>0, <1>4 DEF InvalidateByTags
  <2> QED BY <1>0, <2>1, <2>2, LocalsKeep
<1>5. ASSUME NEW i \in Instance, NEW k \in Key, Expired(i, k) PROVE Locals'
  <2>1. UNCHANGED <<old, latest>>
    BY <1>5 DEF Expired, history, ofCalls
  <2>2. \A j \in Instance, m \in Key : local'[j][m] \in {local[j][m], NoLocal}
    BY <1>0, <1>5 DEF Expired
  <2> QED BY <1>0, <2>1, <2>2, LocalsKeep
<1>6. ASSUME NEW i \in Instance, Process(i) PROVE Locals'
  BY <1>1, <1>6 DEF Process, StartBatch, ProcessKey, ListMembers, DeleteMembers, DropIndex,
                    history, ofCalls
<1>7. ASSUME NEW i \in Instance, Restart(i) PROVE Locals'
  <2>1. UNCHANGED <<old, latest>>
    BY <1>7 DEF Restart
  <2>2. \A j \in Instance, m \in Key : local'[j][m] \in {local[j][m], NoLocal}
    BY <1>0, <1>7 DEF Restart
  <2> QED BY <1>0, <2>1, <2>2, LocalsKeep
<1>8. CASE Tick \/ Evict
  BY <1>1, <1>8 DEF Tick, Evict, localVars, ofCalls
<1>9. CASE UNCHANGED cacheVars
  BY <1>1, <1>9 DEF cacheVars, localVars, history, ofCalls
<1> QED BY <1>2, <1>3, <1>4, <1>5, <1>6, <1>7, <1>8, <1>9 DEF Next

-----------------------------------------------------------------------------
(* The gets in progress.                                                     *)

\* A step that begins no change and no get: a call stays, ends, or goes on as the one
\* it is.
LEMMA GetsKeep ==
  ASSUME Gets, UNCHANGED latest,
         \A c \in Caller : c \notin overtaken' => c \notin overtaken \/ call'[c] = Idle,
         \A c \in Caller :
           \/ call'[c] = call[c] \/ call'[c] = Idle
           \/ /\ call[c].pc \in Changing /\ call'[c].pc \in Changing
              /\ call'[c].key = call[c].key
  PROVE  Gets'
<1>0. Idle.pc \notin Changing \cup {"getting", "storing"}
      /\ "getting" \notin Changing /\ "storing" \notin Changing
  BY DEF Idle, Changing
<1>1. \A k : BeingChanged(k) = {} => BeingChanged(k)' = {}
  BY <1>0, Changers
<1>2. ASSUME NEW c \in Caller \ overtaken', call'[c].pc \in {"getting", "storing"}
      PROVE  /\ BeingChanged(call[c].key)' = {}
             /\ call'[c].pc = "storing" => call'[c].value = latest'[call'[c].key].value
  <2>1. call'[c] = call[c] /\ c \notin overtaken
    BY <1>0, <1>2
  <2>2. /\ BeingChanged(call[c].key) = {}
        /\ call[c].pc = "storing" => call[c].value = latest[call[c].key].value
    BY <1>2, <2>1 DEF Gets
  <2> QED BY <1>1, <2>1, <2>2
<1> QED BY <1>2 DEF Gets

LEMMA ChangeGets ==
  ASSUME TypeOK, Gets, NEW c \in Caller, NEW i \in Instance, NEW key \in Key, NEW set,
         NEW next \in Calls, next.key = key, next.pc \in Changing, call[c] = Idle,
         Go(c, next), ChangeThrough(i, key, set)
  PROVE  Gets'
<1>1. call'[c] = next /\ \A d \in Caller \ {c} : call'[d] = call[d]
  BY Goes
<1>2. /\ latest' = [latest EXCEPT ![key] = set] /\ latest \in [Key -> LocalEntry]
      /\ overtaken' = overtaken \cup BeingRead(key)
  BY DEF ChangeThrough, TypeOK
<1> SUFFICES ASSUME NEW d \in Caller \ overtaken', call'[d].pc \in {"getting", "storing"}
             PROVE  /\ BeingChanged(call[d].key)' = {}
                    /\ call'[d].pc = "storing" => call'[d].value = latest'[call'[d].key].value
  BY DEF Gets
<1>3. d # c /\ call'[d] = call[d] /\ d \notin overtaken
  BY <1>1, <1>2 DEF Changing
<1>4. call[d].key # key
  BY <1>2, <1>3 DEF BeingRead, InProgress
<1>5. latest'[call[d].key] = latest[call[d].key]
  BY <1>2, <1>4
<1>6. /\ BeingChanged(call[d].key) = {}
      /\ call[d].pc = "storing" => call[d].value = latest[call[d].key].value
  BY <1>3 DEF Gets
<1>7. \A e \in Caller : ~(call'[e].key = call[d].key /\ call'[e].pc \in Changing)
  BY <1>1, <1>4, <1>6, Changers
<1>8. BeingChanged(call[d].key)' = {}
  BY <1>3, <1>7, Changers
<1> QED BY <1>3, <1>5, <1>6, <1>8

\* A step of a get: no call that changes a key moves.
LEMMA GetMoves ==
  ASSUME TypeOK, Gets, NEW c \in Caller, NEW next \in Calls \cup {Idle}, Go(c, next),
         call[c].pc \notin Changing, next.pc \notin Changing, UNCHANGED latest,
         \A d \in Caller \ {c} : d \in overtaken => d \in overtaken',
         c \notin overtaken' /\ next.pc \in {"getting", "storing"} =>
           /\ BeingChanged(next.key) = {}
           /\ next.pc = "storing" => next.value = latest[next.key].value
  PROVE  Gets'
<1>1. call'[c] = next /\ \A d \in Caller \ {c} : call'[d] = call[d]
  BY Goes
<1>2. \A k : BeingChanged(k)' = BeingChanged(k)
  BY GetCalls DEF CallsKept
<1> SUFFICES ASSUME NEW d \in Caller \ overtaken', call'[d].pc \in {"getting", "storing"}
             PROVE  /\ BeingChanged(call[d].key)' = {}
                    /\ call'[d].pc = "storing" => call'[d].value = latest'[call'[d].key].value
  BY DEF Gets
<1>3. CASE d = c
  BY <1>1, <1>2, <1>3
<1>4. CASE d # c
  <2>1. call'[d] = call[d] /\ d \notin overtaken
    BY <1>1, <1>4
  <2>2. /\ BeingChanged(call[d].key) = {}
        /\ call[d].pc = "storing" => call[d].value = latest[call[d].key].value
    BY <2>1 DEF Gets
  <2> QED BY <1>2, <2>1, <2>2
<1> QED BY <1>3, <1>4

LEMMA ReadGets ==
  ASSUME IInv, NEW c \in Caller, Read(c)
  PROVE  Gets'
<1> DEFINE k == call[c].key
           next == [pc |-> "storing", instance |-> call[c].instance, key |-> k,
                    value |-> redis[k].value]
<1>0. TypeOK /\ Gets /\ call[c].pc = "getting" /\ call[c].pc \notin Changing
      /\ Idle.pc \notin Changing \cup {"getting", "storing"}
  BY DEF Read, IInv, Changing, Idle
<1>1. k \in Key /\ call[c].instance \in Instance
  BY <1>0, CallFields DEF TypeOK
<1>2. /\ UNCHANGED latest
      /\ overtaken' = IF k \in unsure THEN overtaken \cup {c} ELSE overtaken
      /\ Go(c, Idle) \/ (redis[k] # NoEntry /\ Go(c, next))
  BY DEF Read
<1>3. CASE Go(c, Idle)
  BY <1>0, <1>2, <1>3, GetMoves
<1>4. CASE redis[k] # NoEntry /\ Go(c, next)
  <2>1. redis[k].value \in Value /\ redis[k].value # None
    BY <1>0, <1>1, <1>4, RedisTyped, DistributedAssumption
  <2>2. next \in Calls /\ next.pc = "storing" /\ next.key = k /\ next.value = redis[k].value
    BY <1>1, <2>1 DEF Calls
  <2>3. ASSUME c \notin overtaken'
        PROVE  BeingChanged(k) = {} /\ redis[k].value = latest[k].value
    <3>1. c \notin overtaken /\ k \notin unsure
      BY <1>2, <2>3
    <3>2. BeingChanged(k) = {}
      BY <1>0, <3>1 DEF Gets
    <3>3. Fresh(k) /\ ~Unsettled(k)
      BY <1>1, <3>1, <3>2, Changers DEF IInv, Unsettled
    <3> QED BY <2>1, <3>2, <3>3 DEF Fresh, RedisFresh
  <2>4. next.pc \notin Changing /\ Go(c, next)
    BY <1>4, <2>2 DEF Changing
  <2> HIDE DEF next
  <2> QED BY <1>0, <1>2, <2>2, <2>3, <2>4, GetMoves
<1> QED BY <1>2, <1>3, <1>4

LEMMA NextGets ==
  ASSUME IInv, [Next]_cacheVars
  PROVE  Gets'
<1>0. /\ TypeOK /\ Gets /\ call \in [Caller -> Calls \cup {Idle}]
      /\ Idle \in Calls \cup {Idle} /\ Idle.pc \notin Changing \cup {"getting", "storing"}
  BY DEF IInv, TypeOK, Idle, Changing
<1>1. ASSUME UNCHANGED <<overtaken, latest, call>> PROVE Gets'
  BY <1>0, <1>1, GetsKeep
\* A call that changes its key goes on or ends.
<1>2. ASSUME NEW c \in Caller, UNCHANGED <<overtaken, latest>>, NEW next, Go(c, next),
             call[c].pc \in Changing,
             next = Idle \/ (next.pc \in Changing /\ next.key = call[c].key)
      PROVE  Gets'
  <2>1. call'[c] = next /\ \A d \in Caller \ {c} : call'[d] = call[d]
    BY <1>0, <1>2 DEF Go
  <2> QED BY <1>0, <1>2, <2>1, GetsKeep
<1>3. ASSUME NEW c \in Caller, NEW tags, UNCHANGED <<overtaken, latest>>,
             NextTag(c, tags) \/ SetFails(c), call[c].pc \in Changing
      PROVE  Gets'
  <2> DEFINE next == [pc |-> "adding", instance |-> call[c].instance, key |-> call[c].key,
                      ttl |-> call[c].ttl, tags |-> tags]
  <2>1. next.pc \in Changing /\ next.key = call[c].key
    BY DEF Changing
  <2>2. Go(c, Idle) \/ Go(c, next)
    BY <1>3 DEF NextTag, SetFails
  <2> HIDE DEF next
  <2> QED BY <1>2, <1>3, <2>1, <2>2
<1>4. ASSUME NEW c \in Caller, NEW i \in Instance, Begin(c, i) PROVE Gets'
  <2>1. ASSUME NEW k \in Key, BeginDelete(c, i, k) PROVE Gets'
    <3> DEFINE next == [pc |-> "deleting", instance |-> i, key |-> k]
    <3>1. next \in Calls /\ next.key = k /\ next.pc \in Changing
      BY DEF Calls, Changing
    <3>2. call[c] = Idle /\ Go(c, next) /\ ChangeThrough(i, k, NoLocal)
      BY <2>1 DEF BeginDelete
    <3> HIDE DEF next
    <3> QED BY <1>0, <3>1, <3>2, ChangeGets
  <2>2. ASSUME NEW k \in Key, NEW v \in Value, NEW ttl \in TTL, NEW tags \in SUBSET Tag,
               BeginSet(c, i, k, v, ttl, tags)
        PROVE  Gets'
    <3> DEFINE set == [value |-> v, tags |-> tags]
               next == [pc |-> "setting", instance |-> i, key |-> k, value |-> v,
                        ttl |-> ttl, tags |-> tags]
    <3>1. next \in Calls /\ next.key = k /\ next.pc \in Changing
      BY DEF Calls, Changing
    <3>2. call[c] = Idle /\ Go(c, next) /\ ChangeThrough(i, k, set)
      BY <2>2 DEF BeginSet
    <3> HIDE DEF next, set
    <3> QED BY <1>0, <3>1, <3>2, ChangeGets
  <2>3. ASSUME NEW k \in Key, Fetch(c, i, k) PROVE Gets'
    <3> DEFINE next == [pc |-> "getting", instance |-> i, key |-> k]
    <3>1. next \in Calls /\ next.key = k /\ next.pc = "getting" /\ next.pc \notin Changing
      BY DEF Calls, Changing
    <3>2. call[c] = Idle /\ Go(c, next) /\ UNCHANGED latest
          /\ overtaken' = IF BeingChanged(k) = {} THEN overtaken \ {c} ELSE overtaken \cup {c}
      BY <2>3 DEF Fetch
    <3> HIDE DEF next
    <3> QED BY <1>0, <3>1, <3>2, GetMoves
  <2> QED BY <1>4, <2>1, <2>2, <2>3 DEF Begin, Get, Warm
<1>5. ASSUME NEW c \in Caller, Continue(c) PROVE Gets'
  <2>1. ASSUME Store(c) PROVE Gets'
    <3>1. /\ call[c].pc \notin Changing /\ Go(c, Idle) /\ UNCHANGED latest
          /\ overtaken' = overtaken \ {c}
      BY <2>1 DEF Store, Changing
    <3> QED BY <1>0, <3>1, GetMoves
  <2>2. ASSUME SetEx(c) PROVE Gets'
    BY <1>3, <2>2 DEF SetEx, Changing
  <2>3. ASSUME NEW t \in Tag, SAdd(c, t) PROVE Gets'
    <3> DEFINE next == [pc |-> "expiring", instance |-> call[c].instance,
                        key |-> call[c].key, ttl |-> call[c].ttl, tag |-> t,
                        tags |-> call[c].tags \ {t}]
    <3>1. next.pc \in Changing /\ next.key = call[c].key
      BY DEF Changing
    <3>2. (SetFails(c) \/ Go(c, next)) /\ UNCHANGED <<overtaken, latest>>
          /\ call[c].pc \in Changing
      BY <2>3 DEF SAdd, ofCalls, Changing
    <3> HIDE DEF next
    <3> QED BY <1>2, <1>3, <3>1, <3>2
  <2>4. ASSUME Expire(c) PROVE Gets'
    BY <1>3, <2>4 DEF Expire, ofCalls, Changing
  <2>5. ASSUME DeleteFromRedis(c) PROVE Gets'
    <3> DEFINE next(b) == [pc |-> "queueing", instance |-> call[c].instance,
                           key |-> call[c].key, answered |-> b]
    <3>1. \A b \in BOOLEAN : next(b).pc \in Changing /\ next(b).key = call[c].key
      BY DEF Changing
    <3>2. (Go(c, next(TRUE)) \/ Go(c, next(FALSE))) /\ UNCHANGED <<overtaken, latest>>
          /\ call[c].pc \in Changing
      BY <2>5 DEF DeleteFromRedis, history, ofCalls, Changing
    <3> HIDE DEF next
    <3> QED BY <1>2, <3>1, <3>2
  <2>6. ASSUME Queue(c) PROVE Gets'
    BY <1>2, <2>6 DEF Queue, Changing
  <2> QED BY <1>5, <2>1, <2>2, <2>3, <2>4, <2>5, <2>6, ReadGets DEF Continue
<1>6. ASSUME NEW i \in Instance, Restart(i) PROVE Gets'
  <2>1. /\ UNCHANGED latest
        /\ \A c \in Caller : call'[c] = call[c] \/ call'[c] = Idle
        /\ \A c \in Caller : c \notin overtaken' => c \notin overtaken \/ call'[c] = Idle
    BY <1>6 DEF Restart
  <2> QED BY <1>0, <2>1, GetsKeep
<1>7. ASSUME NEW i \in Instance, Process(i) PROVE Gets'
  BY <1>1, <1>7 DEF Process, StartBatch, ProcessKey, ListMembers, DeleteMembers, DropIndex,
                    history, ofCalls
<1>8. ASSUME NEW i \in Instance, NEW tags \in SUBSET Tag, InvalidateByTags(i, tags)
      PROVE  Gets'
  BY <1>1, <1>8 DEF InvalidateByTags, ofCalls
<1>9. ASSUME NEW i \in Instance, NEW k \in Key, Expired(i, k) PROVE Gets'
  BY <1>1, <1>9 DEF Expired, history, ofCalls
<1>10. CASE Tick \/ Evict
  BY <1>1, <1>10 DEF Tick, Evict, ofCalls
<1>11. CASE UNCHANGED cacheVars
  BY <1>1, <1>11 DEF cacheVars, history, ofCalls
<1> QED BY <1>4, <1>5, <1>6, <1>7, <1>8, <1>9, <1>10, <1>11 DEF Next

-----------------------------------------------------------------------------
(* Sets of keys expire.                                                      *)
LEMMA ExpiryKept ==
  ASSUME IndexesExpire,
         \A t \in Tag : index'[t].members # {} /\ index'[t].life = Forever /\ t \notin endless' =>
           index[t].members # {} /\ index[t].life = Forever /\ t \notin endless,
         \A t \in Tag \ endless', c \in Caller :
           call[c].pc = "expiring" /\ call[c].tag = t => call'[c] = call[c]
  PROVE  IndexesExpire'
BY DEF IndexesExpire

\* Tags stay endless as long as their set stays without an expiry.
LEMMA Lost ==
  ASSUME NEW tags, Lose(tags), NEW t \in Tag \ endless', index'[t].members # {},
         index'[t].life = Forever
  PROVE  t \notin endless /\ t \notin tags
BY DEF Lose, NoIndex

LEMMA NextExpiry ==
  ASSUME TypeOK, IndexesExpire, [Next]_cacheVars
  PROVE  IndexesExpire'
<1>0. call \in [Caller -> Calls \cup {Idle}] /\ index \in [Tag -> IndexEntry]
      /\ Idle.pc # "expiring"
  BY DEF TypeOK, Idle
<1>1. ASSUME UNCHANGED <<index, endless>>, NEW c \in Caller, call[c].pc # "expiring",
             NEW next, Go(c, next)
      PROVE  IndexesExpire'
  <2>1. \A d \in Caller \ {c} : call'[d] = call[d]
    BY <1>0, <1>1 DEF Go
  <2> QED BY <1>1, <2>1, ExpiryKept
<1>2. ASSUME UNCHANGED <<index, call, endless>> PROVE IndexesExpire'
  BY <1>2, ExpiryKept
<1>3. ASSUME NEW c \in Caller, NEW i \in Instance, Begin(c, i) PROVE IndexesExpire'
  <2>1. ASSUME NEW k \in Key, BeginDelete(c, i, k) PROVE IndexesExpire'
    BY <1>0, <1>1, <2>1 DEF BeginDelete, ChangeThrough
  <2>2. ASSUME NEW k \in Key, NEW v \in Value, NEW ttl \in TTL, NEW tags \in SUBSET Tag,
               BeginSet(c, i, k, v, ttl, tags)
        PROVE  IndexesExpire'
    BY <1>0, <1>1, <2>2 DEF BeginSet, ChangeThrough
  <2>3. ASSUME NEW k \in Key, Fetch(c, i, k) PROVE IndexesExpire'
    BY <1>0, <1>1, <2>3 DEF Fetch
  <2> QED BY <1>3, <2>1, <2>2, <2>3 DEF Begin, Get, Warm
<1>4. ASSUME NEW c \in Caller, Continue(c) PROVE IndexesExpire'
  <2>1. ASSUME Read(c) PROVE IndexesExpire'
    BY <1>1, <2>1 DEF Read
  <2>2. ASSUME Store(c) PROVE IndexesExpire'
    BY <1>1, <2>2 DEF Store
  <2>3. ASSUME SetEx(c) PROVE IndexesExpire'
    BY <1>1, <2>3 DEF SetEx, NextTag, SetFails
  <2>4. ASSUME NEW t \in Tag, SAdd(c, t) PROVE IndexesExpire'
    <3> DEFINE next == [pc |-> "expiring", instance |-> call[c].instance,
                        key |-> call[c].key, ttl |-> call[c].ttl, tag |-> t,
                        tags |-> call[c].tags \ {t}]
    <3>1. call[c].pc = "adding" /\ \A u \in Tag \ {t} : index'[u] = index[u]
      BY <1>0, <2>4 DEF SAdd
    <3>2. next.pc = "expiring" /\ next.tag = t
      OBVIOUS
    <3>3. \/ Go(c, next) /\ UNCHANGED endless
          \/ Go(c, Idle) /\ Lose({t})
      BY <2>4 DEF SAdd, SetFails
    <3> HIDE DEF next
    <3>4. \A d \in Caller \ {c} : call'[d] = call[d]
      BY <1>0, <3>3 DEF Go
    <3> SUFFICES ASSUME NEW u \in Tag \ endless', index'[u].members # {},
                        index'[u].life = Forever
                 PROVE  \E d \in Caller : call'[d].pc = "expiring" /\ call'[d].tag = u
      BY DEF IndexesExpire
    <3>5. CASE Go(c, next) /\ u = t
      <4>1. call'[c] = next
        BY <1>0, <3>5 DEF Go
      <4> QED BY <3>2, <3>5, <4>1
    <3>6. CASE u # t
      <4>1. u \notin endless
        BY <3>3, Lost
      <4>2. PICK d \in Caller : call[d].pc = "expiring" /\ call[d].tag = u
        BY <3>1, <3>6, <4>1 DEF IndexesExpire
      <4> QED BY <3>1, <3>4, <4>2
    <3>7. CASE Lose({t}) /\ u = t
      BY <3>7, Lost
    <3> QED BY <3>3, <3>5, <3>6, <3>7
  <2>5. ASSUME Expire(c) PROVE IndexesExpire'
    <3> DEFINE tag == call[c].tag
    <3>1. call[c].pc = "expiring" /\ tag \in Tag /\ call[c].ttl \in Nat \ {0}
      BY <1>0, <2>5, CallFields, LifeBounds DEF Expire
    <3>2. \A u \in Tag \ {tag} : index'[u] = index[u]
      BY <1>0, <2>5 DEF Expire
    <3>3. \A d \in Caller \ {c} : call'[d] = call[d]
      BY <1>0, <2>5 DEF Expire, NextTag, SetFails, Go
    <3>4. Lose({}) \/ Lose({tag})
      BY <2>5 DEF Expire
    <3> SUFFICES ASSUME NEW u \in Tag \ endless', index'[u].members # {},
                        index'[u].life = Forever
                 PROVE  \E d \in Caller : call'[d].pc = "expiring" /\ call'[d].tag = u
      BY DEF IndexesExpire
    <3>5. u # tag
      <4> SUFFICES ASSUME u = tag PROVE FALSE
        OBVIOUS
      <4>1. index' = IF index[tag].members = {} THEN index
                     ELSE [index EXCEPT ![tag].life = call[c].ttl]
        BY <2>5, Lost DEF Expire
      <4>2. index[tag].members # {}
        BY <4>1
      <4>3. index[tag] \in [members : (SUBSET Key) \ {{}}, life : Life \cup {Forever}]
        BY <1>0, <3>1, <4>2 DEF IndexEntry, NoIndex
      <4>4. index'[tag] = [index[tag] EXCEPT !.life = call[c].ttl]
        BY <1>0, <3>1, <4>1, <4>2
      <4>5. index'[tag].life = call[c].ttl
        BY <4>3, <4>4
      <4> QED BY <3>1, <4>5 DEF Forever
    <3>6. u \notin endless
      BY <3>4, Lost
    <3>7. PICK d \in Caller : call[d].pc = "expiring" /\ call[d].tag = u
      BY <3>2, <3>5, <3>6 DEF IndexesExpire
    <3> QED BY <3>3, <3>5, <3>7
  <2>6. ASSUME DeleteFromRedis(c) PROVE IndexesExpire'
    BY <1>1, <2>6 DEF DeleteFromRedis, history
  <2>7. ASSUME Queue(c) PROVE IndexesExpire'
    BY <1>1, <2>7 DEF Queue
  <2> QED BY <1>4, <2>1, <2>2, <2>3, <2>4, <2>5, <2>6, <2>7 DEF Continue
\* Sets without an expiry stay as they are or go.
<1>5. ASSUME UNCHANGED call, Lose({}),
             \A t \in Tag : index'[t].members # {} /\ index'[t].life = Forever =>
               index[t].members # {} /\ index[t].life = Forever
      PROVE  IndexesExpire'
  BY <1>5, Lost, ExpiryKept
<1>6. ASSUME NEW i \in Instance, Process(i) PROVE IndexesExpire'
  <2>1. CASE DropIndex(i)
    <3>1. \A t \in Tag : index'[t] = index[t] \/ index'[t] = NoIndex
      BY <1>0, <2>1 DEF DropIndex, Either
    <3> QED BY <1>5, <2>1, <3>1 DEF DropIndex, NoIndex
  <2>2. CASE ~DropIndex(i)
    BY <1>2, <1>6, <2>2 DEF Process, StartBatch, ProcessKey, ListMembers, DeleteMembers, history
  <2> QED BY <2>1, <2>2
<1>7. ASSUME Tick PROVE IndexesExpire'
  <2>1. UNCHANGED call /\ Lose({})
    BY <1>7 DEF Tick
  <2>2. ASSUME NEW t \in Tag, index'[t].members # {}, index'[t].life = Forever
        PROVE  index[t].members # {} /\ index[t].life = Forever
    <3>1. index'[t] = Alive(index[t], NoIndex) /\ index[t] \in IndexEntry
      BY <1>0, <1>7 DEF Tick
    <3>2. index[t].life \in Nat
      BY IndexTyped
    <3>3. CASE index[t].life = Forever
      BY <2>2, <3>1, <3>3, LivedIndex
    <3>4. CASE index[t].life # Forever
      <4>1. index[t].life # 1
        BY <2>2, <3>1, LivedIndex DEF NoIndex
      <4>2. index'[t].life = index[t].life - 1
        BY <3>1, <3>4, <4>1, LivedIndex
      <4> QED BY <2>2, <3>2, <3>4, <4>1, <4>2 DEF Forever
    <3> QED BY <3>3, <3>4
  <2> QED BY <1>5, <2>1, <2>2
<1>8. ASSUME Evict PROVE IndexesExpire'
  <2>1. UNCHANGED call /\ Lose({})
    BY <1>8 DEF Evict
  <2>2. \A t \in Tag : index'[t] = index[t] \/ index'[t] = NoIndex
    BY <1>0, <1>8 DEF Evict
  <2> QED BY <1>5, <2>1, <2>2 DEF NoIndex
<1>9. ASSUME NEW i \in Instance, Restart(i) PROVE IndexesExpire'
  <2> DEFINE mine == {c \in Caller : call[c] # Idle /\ call[c].instance = i}
             lost == {t \in Tag : \E c \in mine : call[c].pc = "expiring" /\ call[c].tag = t}
  <2>1. /\ UNCHANGED index /\ Lose(lost)
        /\ call' = [c \in Caller |-> IF c \in mine THEN Idle ELSE call[c]]
    BY <1>9 DEF Restart
  <2> SUFFICES ASSUME NEW t \in Tag \ endless', index'[t].members # {}, index'[t].life = Forever
               PROVE  \E d \in Caller : call'[d].pc = "expiring" /\ call'[d].tag = t
    BY DEF IndexesExpire
  <2>2. t \notin endless /\ t \notin lost
    <3> HIDE DEF lost
    <3> QED BY <2>1, Lost
  <2>3. PICK c \in Caller : call[c].pc = "expiring" /\ call[c].tag = t
    BY <2>1, <2>2 DEF IndexesExpire
  <2>4. call'[c] = call[c]
    BY <2>1, <2>2, <2>3
  <2> QED BY <2>3, <2>4
<1>10. ASSUME NEW i \in Instance, NEW tags \in SUBSET Tag, InvalidateByTags(i, tags)
       PROVE  IndexesExpire'
  BY <1>2, <1>10 DEF InvalidateByTags
<1>11. ASSUME NEW i \in Instance, NEW k \in Key, Expired(i, k) PROVE IndexesExpire'
  BY <1>2, <1>11 DEF Expired, history
<1>12. CASE UNCHANGED cacheVars
  BY <1>2, <1>12 DEF cacheVars, history
<1> QED BY <1>3, <1>4, <1>6, <1>7, <1>8, <1>9, <1>10, <1>11, <1>12 DEF Next

-----------------------------------------------------------------------------
LEMMA InitIInv == Init => IInv /\ IndexesExpire
<1> SUFFICES ASSUME Init PROVE IInv /\ IndexesExpire
  OBVIOUS
<1>1. /\ NoLocal \in LocalEntry /\ NoEntry \in RedisEntry /\ NoIndex \in IndexEntry
      /\ Waiting \in Found
  BY DEF LocalEntry, RedisEntry, IndexEntry, Found
<1>2. TypeOK
  BY <1>1, DistributedAssumption DEF Init, TypeOK
<1>3. ASSUME NEW k \in Key PROVE Fresh(k) /\ Good(k)
  <2>1. BeingChanged(k) = {}
    BY Changers DEF Init, Idle, Changing
  <2> QED BY <2>1 DEF Init, Fresh, Good, Alone, Sets, Ages, RedisFresh, Covered, NoLocal, NoEntry
<1>4. Locals /\ Gets
  BY DEF Init, Locals, Gets, Idle
<1>5. IndexesExpire
  BY DEF Init, IndexesExpire, NoIndex
<1> QED BY <1>2, <1>3, <1>4, <1>5 DEF IInv

LEMMA NextTyped == ASSUME TypeOK, [Next]_cacheVars PROVE TypeOK'
<1>1. ASSUME NEW c \in Caller, NEW i \in Instance, Begin(c, i) PROVE TypeOK'
  BY <1>1, FetchTyped, BeginDeleteTyped, BeginSetTyped DEF Begin, Get, Warm
<1>2. ASSUME NEW c \in Caller, Continue(c) PROVE TypeOK'
  BY <1>2, ReadTyped, StoreTyped, SetExTyped, SAddTyped, ExpireTyped, DeleteFromRedisTyped,
     QueueTyped DEF Continue
<1>3. CASE UNCHANGED cacheVars
  BY <1>3 DEF cacheVars, localVars, history, ofCalls, TypeOK
<1> QED BY <1>1, <1>2, <1>3, InvalidateTyped, ExpiredTyped, ProcessTyped, EnvironmentTyped
        DEF Next

LEMMA NextIInv == ASSUME IInv, [Next]_cacheVars PROVE IInv'
<1>1. TypeOK' /\ Locals' /\ Gets'
  BY NextTyped, NextLocals, NextGets DEF IInv
<1>2. ASSUME NEW k \in Key
      PROVE  /\ k \notin unsure' => Fresh(k)'
             /\ k \notin suspect' => Good(k)'
  <2> DEFINE Kept == /\ k \notin unsure' => Fresh(k)'
                     /\ k \notin suspect' => Good(k)'
  <2>1. ASSUME NEW c \in Caller, NEW i \in Instance, Begin(c, i) PROVE Kept
    BY <1>1, <2>1, GetKeeps, BeginDeleteKeeps, BeginSetKeeps DEF Begin, Get, Warm
  <2>2. ASSUME NEW c \in Caller, Continue(c) PROVE Kept
    BY <1>1, <2>2, GetKeeps, SetExKeeps, SAddKeeps, ExpireKeeps, DeleteFromRedisKeeps,
       QueueKeeps DEF Continue
  <2>3. CASE UNCHANGED cacheVars
    BY <1>1, <2>3, SameCalls, QuietKeeps DEF cacheVars, localVars, history, ofCalls
  <2>4. ASSUME NEW i \in Instance, NEW tags \in SUBSET Tag, InvalidateByTags(i, tags)
        PROVE  Kept
    BY <1>1, <2>4, LocalKeeps
  <2>5. ASSUME NEW i \in Instance, NEW key \in Key, Expired(i, key) PROVE Kept
    BY <1>1, <2>5, LocalKeeps
  <2>6. ASSUME NEW i \in Instance, Process(i) \/ Restart(i) PROVE Kept
    BY <1>1, <2>6, ProcessKeeps, RestartKeeps
  <2>7. CASE Tick \/ Evict
    BY <1>1, <2>7, TickKeeps, EvictKeeps
  <2> QED BY <2>1, <2>2, <2>3, <2>4, <2>5, <2>6, <2>7 DEF Next
<1> QED BY <1>1, <1>2 DEF IInv

(* The inductive invariant.                                                  *)
THEOREM DistributedInvariance == Spec => [](IInv /\ IndexesExpire)
<1>1. Init => IInv /\ IndexesExpire
  BY InitIInv
<1>2. IInv /\ IndexesExpire /\ [Next]_cacheVars => (IInv /\ IndexesExpire)'
  BY NextIInv, NextExpiry DEF IInv
<1> QED BY <1>1, <1>2, PTL DEF Spec

(* Types, for any instances, callers, keys, tags, lives and faults.          *)
THEOREM DistributedTypeCorrect == Spec => []TypeOK
<1>1. IInv => TypeOK
  BY DEF IInv
<1> QED BY <1>1, DistributedInvariance, PTL

(* While Redis has an entry, the set of each of its tags holds its key.      *)
(* Excepted (suspect) are keys whose last change overlapped another one,     *)
(* failed or was cut off, met a processor dropping the set or a tick between *)
(* sadd and expire, or was followed by a set of another key that shortened   *)
(* the life of the whole set, or whose set Redis evicted.                    *)
THEOREM IndexesCover == Spec => []IndexCovers
<1>1. IInv => IndexCovers
  <2> SUFFICES ASSUME IInv, NEW k \in Key \ suspect, redis[k] # NoEntry, BeingChanged(k) = {},
                      NEW t \in latest[k].tags
               PROVE  k \in index[t].members
    BY DEF IndexCovers
  <2>1. ~Remaining(k, t)
    BY DEF Remaining
  <2> QED BY <2>1 DEF IInv, Good, Covered, Covers
<1> QED BY <1>1, DistributedInvariance, PTL

(* Whatever requests fail and instances restart, a set of keys that has no   *)
(* expiry is about to get one, unless a set call of its tag was lost between *)
(* its own sadd and expire (endless).                                        *)
THEOREM EveryIndexExpires == Spec => []IndexesExpire
<1> QED BY DistributedInvariance, PTL

(* Whatever fails, an old answer comes from a copy of which another instance *)
(* changed the key, or one that a get stored although a change overlapped it *)
(* or the key was unsure (old).                                              *)
THEOREM OnlyForeignUnseen == Spec => []OnlyForeignWritesUnseen
<1>1. IInv => OnlyForeignWritesUnseen
  <2> SUFFICES ASSUME IInv, NEW k \in Key, BeingChanged(k) = {}, k \notin unsure
               PROVE  redis[k].value \in {latest[k].value, None}
    BY DEF OnlyForeignWritesUnseen, IInv, Locals
  <2>1. ~Unsettled(k)
    BY Changers DEF Unsettled
  <2> QED BY <2>1 DEF IInv, Fresh, RedisFresh
<1> QED BY <1>1, DistributedInvariance, PTL

=============================================================================
