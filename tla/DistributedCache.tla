---------------------------- MODULE DistributedCache ----------------------------
(***************************************************************************)
(* backend/microservices/DistributedCache.py: every instance of a service  *)
(* has a local cache (L1) over a Redis that all of them share (L2).  Redis *)
(* keeps, beside the entries, an index of the keys of each tag.  What is   *)
(* invalidated goes into a queue that a task of the instance works off     *)
(* every ten seconds.                                                      *)
(*                                                                         *)
(* An await of Redis is a step of its own, at the moment Redis executes the*)
(* request; a request may fail, and then may have been executed or not.    *)
(* Life is relative: an entry holds the ticks of the clock it has left.    *)
(***************************************************************************)
EXTENDS Naturals, FiniteSetsExt

CONSTANTS
  Instance,
  Caller,         \* calls that can be in progress at the same time
  Key, Value, Tag,
  None,           \* no value
  TTL,            \* ttl_seconds the callers pass, in ticks
  MaxLocal,       \* local_cache_max_size
  MaxOperations,  \* bound: how many calls begin
  MaxFaults       \* bound: requests that fail, restarts, evicted indexes

ASSUME DistributedAssumption ==
  /\ None \notin Key \cup Value \cup Tag /\ Key \cap Tag = {}
  /\ TTL \subseteq Nat \ {0} /\ MaxLocal \in Nat /\ MaxOperations \in Nat /\ MaxFaults \in Nat

VARIABLES
  local,        \* local_cache of each instance
  queue,        \* invalidation_queue of each instance
  batch,        \* keys_to_process of each instance's _invalidation_processor
  found,        \* the tag it is at and the keys smembers returned
  redis,        \* the entries
  index,        \* the sets tag:<tag>
  call,         \* the call each caller is in
  latest,       \* history: what was set last for a key
  unsure,       \* history: keys of which the last change overlapped another one, failed or
                \* was cut off by a restart before Redis had it
  suspect,      \* history: those, and keys the set of a tag of theirs may have lost
  endless,      \* history: tags whose set has no expiry and lost a call that was to give
                \* it one
  overtaken,    \* history: gets in progress that a change overlapped, or that read an
                \* unsure key
  old,          \* history: keys an instance stored in such a get, or that were changed
                \* through another instance since
  deleted,      \* history: keys whose deletion has returned and Redis still holds
  invalidated,  \* history: keys Redis holds whose tag was invalidated since their set, and
                \* whose invalidation has not failed or been lost
  operations, faults

localVars == <<local, queue, batch, found>>
ofCalls == <<latest, unsure, overtaken, old, deleted>>
history == <<ofCalls, suspect, endless, invalidated>>
cacheVars == <<localVars, redis, index, call, history, operations, faults>>

-----------------------------------------------------------------------------
NoLocal == [value |-> None, tags |-> {}]
NoEntry == [value |-> None, life |-> 0]
NoIndex == [members |-> {}, life |-> 0]
Forever == 0            \* the life of a set that has members and no expiry
Waiting == [tag |-> None, members |-> {}, step |-> "idle"]

Idle == [pc |-> "idle", key |-> None]
Go(c, next) == call' = [call EXCEPT ![c] = next]

InProgress(k) == {c \in Caller : call[c].key = k}
BeingSet(k) == {c \in InProgress(k) : call[c].pc \in {"setting", "adding", "expiring"}}
BeingRead(k) == {c \in InProgress(k) : call[c].pc \in {"getting", "storing"}}
BeingWritten(k) == {c \in InProgress(k) : call[c].pc \in {"setting", "deleting", "queueing"}}
BeingChanged(k) == BeingSet(k) \cup BeingWritten(k)

\* _store_in_local_cache: a full cache first evicts a fifth of its entries, those used
\* least recently (any of that number here).
StoreInLocalCache(i, k, value, tags) ==
  LET stored == {m \in Key : local[i][m] # NoLocal}
      evicted == IF Cardinality(stored) < MaxLocal THEN 0
                 ELSE Max({1, Cardinality(stored) \div 5})
      entry == [value |-> value, tags |-> tags]
  IN  \E gone \in kSubset(evicted, stored) :
        local' = [local EXCEPT ![i] =
                    [m \in Key |-> IF m = k THEN entry
                                   ELSE IF m \in gone THEN NoLocal ELSE @[m]]]

\* A change of k through instance i makes the copies of the others old.
ChangeThrough(i, k, set) ==
  /\ latest' = [latest EXCEPT ![k] = set]
  /\ old' = [j \in Instance |-> IF j = i THEN old[j] \ {k} ELSE old[j] \cup {k}]
  /\ overtaken' = overtaken \cup BeingRead(k)
  /\ IF BeingChanged(k) = {}
     THEN unsure' = unsure \ {k} /\ suspect' = suspect \ {k}
     ELSE unsure' = unsure \cup {k} /\ suspect' = suspect \cup {k}
  /\ UNCHANGED endless

\* The sets without an expiry that nobody is left to give one, with one of t just lost.
Lose(tags) ==
  endless' = {t \in endless \cup tags : index'[t] # NoIndex /\ index'[t].life = Forever}

Operation == operations < MaxOperations /\ operations' = operations + 1
Fault == faults < MaxFaults /\ faults' = faults + 1

-----------------------------------------------------------------------------
\* The request for a key that get or the cache warmer sends.
Fetch(c, i, k) ==
  /\ call[c] = Idle /\ Operation
  /\ Go(c, [pc |-> "getting", instance |-> i, key |-> k])
  /\ overtaken' = IF BeingChanged(k) = {} THEN overtaken \ {c} ELSE overtaken \cup {c}
  /\ UNCHANGED <<localVars, redis, index, latest, unsure, suspect, endless, old, deleted,
                 invalidated, faults>>

\* get: an entry of the local cache is the answer; otherwise Redis is asked.
Get(c, i, k) == local[i][k] = NoLocal /\ Fetch(c, i, k)

\* _cache_warmer asks for keys of a list it made before its first await: by now
\* the key may be in the local cache.
Warm(c, i, k) == local[i][k] # NoLocal /\ Fetch(c, i, k)

\* _get_from_distributed_cache: a request that fails finds nothing.
Read(c) ==
  LET k == call[c].key
      miss == Go(c, Idle)
      hit == Go(c, [pc |-> "storing", instance |-> call[c].instance, key |-> k,
                    value |-> redis[k].value])
  IN  /\ call[c].pc = "getting"
      /\ \/ redis[k] # NoEntry /\ hit /\ UNCHANGED faults
         \/ redis[k] = NoEntry /\ miss /\ UNCHANGED faults
         \/ Fault /\ miss
      /\ overtaken' = IF k \in unsure THEN overtaken \cup {c} ELSE overtaken
      /\ UNCHANGED <<localVars, redis, index, latest, unsure, suspect, endless, old, deleted,
                     invalidated, operations>>

\* What was found is stored locally, without its tags, over whatever is there now.
Store(c) ==
  LET i == call[c].instance
      k == call[c].key
  IN  /\ call[c].pc = "storing"
      /\ StoreInLocalCache(i, k, call[c].value, {})
      /\ old' = [old EXCEPT ![i] = IF c \in overtaken THEN @ \cup {k} ELSE @ \ {k}]
      /\ overtaken' = overtaken \ {c}
      /\ Go(c, Idle)
      /\ UNCHANGED <<queue, batch, found, redis, index, latest, unsure, suspect, endless,
                     deleted, invalidated, operations, faults>>

\* A local entry expires: get and _local_cache_cleaner delete it.
Expired(i, k) ==
  /\ local[i][k] # NoLocal
  /\ local' = [local EXCEPT ![i][k] = NoLocal]
  /\ UNCHANGED <<queue, batch, found, redis, index, call, history, operations, faults>>

-----------------------------------------------------------------------------
\* set: the local cache first, then Redis.
BeginSet(c, i, k, v, ttl, tags) ==
  /\ call[c] = Idle /\ Operation
  /\ StoreInLocalCache(i, k, v, tags)
  /\ Go(c, [pc |-> "setting", instance |-> i, key |-> k, value |-> v, ttl |-> ttl,
            tags |-> tags])
  /\ ChangeThrough(i, k, [value |-> v, tags |-> tags])
  /\ deleted' = deleted \ {k}
  /\ invalidated' = invalidated \ {k}
  /\ UNCHANGED <<queue, batch, found, redis, index, faults>>

\* A request of a set that fails ends it.
SetFails(c) ==
  /\ Fault
  /\ Go(c, Idle)

\* The next tag, or the end.
NextTag(c, tags) ==
  Go(c, IF tags = {} THEN Idle
        ELSE [pc |-> "adding", instance |-> call[c].instance, key |-> call[c].key,
              ttl |-> call[c].ttl, tags |-> tags])

\* Mutant: a tick is lost where the life is converted.
SetExShort(c) ==
  LET k == call[c].key
      after == [redis EXCEPT ![k] = [value |-> call[c].value, life |-> call[c].ttl - 1]]
  IN  /\ call[c].pc = "setting"
      /\ \/ /\ redis' = after
            /\ NextTag(c, call[c].tags)
            /\ UNCHANGED <<unsure, suspect, faults>>
         \/ /\ SetFails(c)
            /\ redis' \in {redis, after}
            /\ unsure' = unsure \cup {k} /\ suspect' = suspect \cup {k}
      /\ UNCHANGED <<localVars, index, latest, endless, overtaken, old, deleted, invalidated,
                     operations>>

\* setex
SetEx(c) ==
  LET k == call[c].key
      after == [redis EXCEPT ![k] = [value |-> call[c].value, life |-> call[c].ttl]]
  IN  /\ call[c].pc = "setting"
      /\ \/ /\ redis' = after
            /\ NextTag(c, call[c].tags)
            /\ UNCHANGED <<unsure, suspect, faults>>
         \/ /\ SetFails(c)
            /\ redis' \in {redis, after}
            /\ unsure' = unsure \cup {k} /\ suspect' = suspect \cup {k}
      /\ UNCHANGED <<localVars, index, latest, endless, overtaken, old, deleted, invalidated,
                     operations>>

\* The processors that have read the set of a tag and will delete it.
Dropping(t) == {i \in Instance : found[i].tag = t}

\* sadd
SAdd(c, t) ==
  LET k == call[c].key
      after == [index EXCEPT ![t].members = @ \cup {k}]
  IN  /\ call[c].pc = "adding" /\ t \in call[c].tags
      /\ \/ /\ index' = after
            /\ Go(c, [pc |-> "expiring", instance |-> call[c].instance, key |-> k,
                      ttl |-> call[c].ttl, tag |-> t, tags |-> call[c].tags \ {t}])
            /\ suspect' = IF Dropping(t) = {} THEN suspect ELSE suspect \cup {k}
            /\ UNCHANGED <<endless, faults>>
         \/ /\ SetFails(c)
            /\ index' \in {index, after}
            /\ suspect' = suspect \cup {k}
            /\ Lose({t})
      /\ UNCHANGED <<localVars, redis, ofCalls, invalidated, operations>>

\* Mutant: a set that has a life keeps it.
ExpireOnce(c) ==
  LET k == call[c].key
      t == call[c].tag
      after == IF index[t].members = {} \/ index[t].life # Forever THEN index
               ELSE [index EXCEPT ![t].life = call[c].ttl]
      outlive == {m \in index[t].members : redis[m].life > call[c].ttl}
  IN  /\ call[c].pc = "expiring"
      /\ \/ /\ index' = after
            /\ NextTag(c, call[c].tags)
            /\ suspect' = suspect \cup outlive
            /\ Lose({})
            /\ UNCHANGED faults
         \/ /\ SetFails(c)
            /\ index' \in {index, after}
            /\ suspect' = suspect \cup {k} \cup outlive
            /\ Lose({t})
      /\ UNCHANGED <<localVars, redis, ofCalls, invalidated, operations>>

\* Mutant: a set without a life gets none.
ExpireAgain(c) ==
  LET k == call[c].key
      t == call[c].tag
      after == IF index[t].members = {} \/ index[t].life = Forever THEN index
               ELSE [index EXCEPT ![t].life = call[c].ttl]
      outlive == {m \in index[t].members : redis[m].life > call[c].ttl}
  IN  /\ call[c].pc = "expiring"
      /\ \/ /\ index' = after
            /\ NextTag(c, call[c].tags)
            /\ suspect' = suspect \cup outlive
            /\ Lose({})
            /\ UNCHANGED faults
         \/ /\ SetFails(c)
            /\ index' \in {index, after}
            /\ suspect' = suspect \cup {k} \cup outlive
            /\ Lose({t})
      /\ UNCHANGED <<localVars, redis, ofCalls, invalidated, operations>>

\* expire: the whole set of the tag gets the life of this key, if it still exists.
Expire(c) ==
  LET k == call[c].key
      t == call[c].tag
      after == IF index[t].members = {} THEN index
               ELSE [index EXCEPT ![t].life = call[c].ttl]
      outlive == {m \in index[t].members : redis[m].life > call[c].ttl}
  IN  /\ call[c].pc = "expiring"
      /\ \/ /\ index' = after
            /\ NextTag(c, call[c].tags)
            /\ suspect' = suspect \cup outlive
            /\ Lose({})
            /\ UNCHANGED faults
         \/ /\ SetFails(c)
            /\ index' \in {index, after}
            /\ suspect' = suspect \cup {k} \cup outlive
            /\ Lose({t})
      /\ UNCHANGED <<localVars, redis, ofCalls, invalidated, operations>>

-----------------------------------------------------------------------------
\* Mutant: the local entry stays until the request has returned.
BeginDeleteLater(c, i, k) ==
  /\ call[c] = Idle /\ Operation
  /\ Go(c, [pc |-> "deleting", instance |-> i, key |-> k])
  /\ ChangeThrough(i, k, NoLocal)
  /\ UNCHANGED <<localVars, redis, index, deleted, invalidated, faults>>

\* delete: the local entry, ...
BeginDelete(c, i, k) ==
  /\ call[c] = Idle /\ Operation
  /\ local' = [local EXCEPT ![i][k] = NoLocal]
  /\ Go(c, [pc |-> "deleting", instance |-> i, key |-> k])
  /\ ChangeThrough(i, k, NoLocal)
  /\ UNCHANGED <<queue, batch, found, redis, index, deleted, invalidated, faults>>

\* ... then the one in Redis, ...
DeleteFromRedis(c) ==
  LET k == call[c].key
      after == [redis EXCEPT ![k] = NoEntry]
      queueing(answered) ==
        Go(c, [pc |-> "queueing", instance |-> call[c].instance, key |-> k,
               answered |-> answered])
  IN  /\ call[c].pc = "deleting"
      /\ \/ redis' = after /\ queueing(TRUE) /\ UNCHANGED faults
         \/ Fault /\ redis' \in {redis, after} /\ queueing(FALSE)
      /\ UNCHANGED <<localVars, index, history, operations>>

\* Mutant: only a deletion Redis has answered is queued.
QueueIfDeleted(c) ==
  LET i == call[c].instance
      k == call[c].key
  IN  /\ call[c].pc = "queueing"
      /\ queue' = [queue EXCEPT ![i] = IF call[c].answered THEN @ \cup {k} ELSE @]
      /\ deleted' = IF k \in unsure \/ redis[k] = NoEntry THEN deleted ELSE deleted \cup {k}
      /\ IF call[c].answered THEN UNCHANGED <<unsure, suspect>>
         ELSE unsure' = unsure \cup {k} /\ suspect' = suspect \cup {k}
      /\ Go(c, Idle)
      /\ UNCHANGED <<local, batch, found, redis, index, latest, endless, overtaken, old,
                     invalidated, operations, faults>>

\* ... and the key is queued, whether that succeeded or not.
Queue(c) ==
  LET i == call[c].instance
      k == call[c].key
  IN  /\ call[c].pc = "queueing"
      /\ queue' = [queue EXCEPT ![i] = @ \cup {k}]
      /\ deleted' = IF k \in unsure \/ redis[k] = NoEntry THEN deleted ELSE deleted \cup {k}
      /\ IF call[c].answered THEN UNCHANGED <<unsure, suspect>>
         ELSE unsure' = unsure \cup {k} /\ suspect' = suspect \cup {k}
      /\ Go(c, Idle)
      /\ UNCHANGED <<local, batch, found, redis, index, latest, endless, overtaken, old,
                     invalidated, operations, faults>>

Tagged(i, tags) == {k \in Key : local[i][k].tags \cap tags # {}}

\* Mutant: tags of no local entry are not queued.
InvalidateKnownTags(i, tags) ==
  /\ Operation
  /\ local' = [local EXCEPT ![i] = [k \in Key |-> IF k \in Tagged(i, tags) THEN NoLocal ELSE @[k]]]
  /\ queue' = [queue EXCEPT ![i] = IF Tagged(i, tags) = {} THEN @ ELSE @ \cup tags]
  /\ invalidated' = invalidated \cup
       {k \in Key \ suspect : /\ BeingSet(k) = {} /\ redis[k] # NoEntry
                              /\ latest[k].tags \cap tags # {}}
  /\ UNCHANGED <<batch, found, redis, index, call, ofCalls, suspect, endless, faults>>

\* invalidate_by_tags
InvalidateByTags(i, tags) ==
  /\ Operation
  /\ local' = [local EXCEPT ![i] = [k \in Key |-> IF k \in Tagged(i, tags) THEN NoLocal ELSE @[k]]]
  /\ queue' = [queue EXCEPT ![i] = @ \cup tags]
  /\ invalidated' = invalidated \cup
       {k \in Key \ suspect : /\ BeingSet(k) = {} /\ redis[k] # NoEntry
                              /\ latest[k].tags \cap tags # {}}
  /\ UNCHANGED <<batch, found, redis, index, call, ofCalls, suspect, endless, faults>>

-----------------------------------------------------------------------------
(* _invalidation_processor                                                   *)
StartBatch(i) ==
  /\ batch[i] = {} /\ queue[i] # {}
  /\ batch' = [batch EXCEPT ![i] = queue[i]]
  /\ queue' = [queue EXCEPT ![i] = {}]
  /\ UNCHANGED <<local, found, redis, index, call, history, operations, faults>>

Done(i, item) ==
  /\ batch' = [batch EXCEPT ![i] = @ \ {item}]
  /\ found' = [found EXCEPT ![i] = Waiting]

\* A request takes effect, or fails and takes effect or not.
Either(variable, after) ==
  \/ variable' = after /\ UNCHANGED faults
  \/ Fault /\ variable' \in {variable, after}

ProcessKey(i, k) ==
  /\ k \in batch[i] /\ found[i] = Waiting
  /\ Either(redis, [redis EXCEPT ![k] = NoEntry])
  /\ Done(i, k)
  /\ UNCHANGED <<local, queue, index, call, history, operations>>

\* The invalidation of tags fails or is lost: it is not repeated.
Forget(tags) ==
  invalidated' = {k \in invalidated : latest[k].tags \cap tags = {}}

\* _invalidate_by_tag_distributed: smembers, ...
ListMembers(i, t) ==
  /\ t \in batch[i] /\ found[i] = Waiting
  /\ \/ /\ index[t].members # {}
        /\ found' = [found EXCEPT ![i] = [tag |-> t, members |-> index[t].members,
                                          step |-> "members"]]
        /\ UNCHANGED <<batch, invalidated, faults>>
     \/ index[t].members = {} /\ Done(i, t) /\ UNCHANGED <<invalidated, faults>>
     \/ Fault /\ Done(i, t) /\ Forget({t})
  /\ UNCHANGED <<local, queue, redis, index, call, ofCalls, suspect, endless, operations>>

\* ... delete(*keys), ...
DeleteMembers(i) ==
  LET t == found[i].tag
      after == [k \in Key |-> IF k \in found[i].members THEN NoEntry ELSE redis[k]]
  IN  /\ found[i].step = "members"
      /\ \/ /\ redis' = after
            /\ found' = [found EXCEPT ![i].step = "index"]
            /\ UNCHANGED <<batch, invalidated, faults>>
         \/ Fault /\ redis' \in {redis, after} /\ Done(i, t) /\ Forget({t})
      /\ UNCHANGED <<local, queue, index, call, ofCalls, suspect, endless, operations>>

\* ... and the set of the tag as it is by now.
DropIndex(i) ==
  /\ found[i].step = "index"
  /\ Either(index, [index EXCEPT ![found[i].tag] = NoIndex])
  /\ Lose({})
  /\ Done(i, found[i].tag)
  /\ UNCHANGED <<local, queue, redis, call, ofCalls, suspect, invalidated, operations>>

-----------------------------------------------------------------------------
Alive(thing, none) ==
  CASE thing.life = Forever -> thing
    [] thing.life = 1 -> none
    [] OTHER -> [thing EXCEPT !.life = @ - 1]

\* Time passes in Redis; a set without members does not exist.
Tick ==
  /\ redis' = [k \in Key |-> Alive(redis[k], NoEntry)]
  /\ index' = [t \in Tag |-> Alive(index[t], NoIndex)]
  /\ suspect' = suspect \cup {k \in Key : \E c \in BeingSet(k) : call[c].pc = "expiring"}
  /\ Lose({})
  /\ <<redis', index'>> # <<redis, index>>
  /\ UNCHANGED <<localVars, call, ofCalls, invalidated, operations, faults>>

\* Redis at its limit evicts an entry or the set of a tag.
Evict ==
  /\ \/ \E k \in Key : /\ redis[k] # NoEntry
                       /\ redis' = [redis EXCEPT ![k] = NoEntry]
                       /\ UNCHANGED <<index, suspect, faults>>
     \/ \E t \in Tag : /\ index[t] # NoIndex /\ Fault
                       /\ index' = [index EXCEPT ![t] = NoIndex]
                       /\ suspect' = suspect \cup index[t].members
                       /\ UNCHANGED redis
  /\ Lose({})
  /\ UNCHANGED <<localVars, call, ofCalls, invalidated, operations>>

\* An instance stops and starts again: all it had in memory is gone.
Restart(i) ==
  LET mine == {c \in Caller : call[c] # Idle /\ call[c].instance = i}
  IN  /\ Fault
      /\ local' = [local EXCEPT ![i] = [k \in Key |-> NoLocal]]
      /\ queue' = [queue EXCEPT ![i] = {}]
      /\ batch' = [batch EXCEPT ![i] = {}]
      /\ found' = [found EXCEPT ![i] = Waiting]
      /\ call' = [c \in Caller |-> IF c \in mine THEN Idle ELSE call[c]]
      /\ unsure' = unsure \cup {k \in Key : BeingWritten(k) \cap mine # {}}
      /\ suspect' = suspect \cup {k \in Key : BeingChanged(k) \cap mine # {}}
      /\ Forget(queue[i] \cup batch[i])
      /\ overtaken' = overtaken \ mine
      /\ UNCHANGED <<redis, index, latest, old, deleted, operations>>
      /\ Lose({t \in Tag : \E c \in mine : call[c].pc = "expiring" /\ call[c].tag = t})

-----------------------------------------------------------------------------
Init ==
  /\ local = [i \in Instance |-> [k \in Key |-> NoLocal]]
  /\ queue = [i \in Instance |-> {}]
  /\ batch = [i \in Instance |-> {}]
  /\ found = [i \in Instance |-> Waiting]
  /\ redis = [k \in Key |-> NoEntry]
  /\ index = [t \in Tag |-> NoIndex]
  /\ call = [c \in Caller |-> Idle]
  /\ latest = [k \in Key |-> NoLocal]
  /\ unsure = {} /\ suspect = {} /\ endless = {} /\ overtaken = {}
  /\ old = [i \in Instance |-> {}] /\ deleted = {} /\ invalidated = {}
  /\ operations = 0 /\ faults = 0

Begin(c, i) ==
  \E k \in Key :
    \/ Get(c, i, k) \/ Warm(c, i, k) \/ BeginDelete(c, i, k)
    \/ \E v \in Value, ttl \in TTL, tags \in SUBSET Tag : BeginSet(c, i, k, v, ttl, tags)

Continue(c) ==
  \/ Read(c) \/ Store(c)
  \/ SetEx(c) \/ (\E t \in Tag : SAdd(c, t)) \/ Expire(c)
  \/ DeleteFromRedis(c) \/ Queue(c)

Process(i) ==
  \/ StartBatch(i)
  \/ (\E k \in Key : ProcessKey(i, k)) \/ (\E t \in Tag : ListMembers(i, t))
  \/ DeleteMembers(i) \/ DropIndex(i)

Next ==
  \/ \E c \in Caller : (\E i \in Instance : Begin(c, i)) \/ Continue(c)
  \/ \E i \in Instance :
       \/ \E tags \in (SUBSET Tag) \ {{}} : InvalidateByTags(i, tags)
       \/ (\E k \in Key : Expired(i, k)) \/ Process(i) \/ Restart(i)
  \/ Tick \/ Evict

Spec == Init /\ [][Next]_cacheVars

\* A request is answered or fails, and the processor's task never ends.  That some
\* call, and some processor, that can go on does so is enough for each of them, as
\* only MaxOperations calls begin.
Fairness ==
  /\ WF_cacheVars(\E c \in Caller : Continue(c))
  /\ WF_cacheVars(\E i \in Instance : Process(i))

FairSpec == Spec /\ Fairness

-----------------------------------------------------------------------------
Life == UNION {1..ttl : ttl \in TTL}
LocalEntry == [value : Value, tags : SUBSET Tag] \cup {NoLocal}
RedisEntry == [value : Value, life : Life] \cup {NoEntry}
IndexEntry == [members : (SUBSET Key) \ {{}}, life : Life \cup {Forever}] \cup {NoIndex}
Found == [tag : Tag, members : SUBSET Key, step : {"members", "index"}] \cup {Waiting}
Calls ==
  [pc : {"getting", "deleting"}, instance : Instance, key : Key]
  \cup [pc : {"storing"}, instance : Instance, key : Key, value : Value]
  \cup [pc : {"setting"}, instance : Instance, key : Key, value : Value, ttl : TTL,
        tags : SUBSET Tag]
  \cup [pc : {"adding"}, instance : Instance, key : Key, ttl : TTL, tags : SUBSET Tag]
  \cup [pc : {"expiring"}, instance : Instance, key : Key, ttl : TTL, tag : Tag,
        tags : SUBSET Tag]
  \cup [pc : {"queueing"}, instance : Instance, key : Key, answered : BOOLEAN]

\* Types; an entry of Redis and a set with an expiry have time left, a set that has no
\* members does not exist, and a processor is at a tag of its batch.
TypeOK ==
  /\ local \in [Instance -> [Key -> LocalEntry]]
  /\ queue \in [Instance -> SUBSET (Key \cup Tag)]
  /\ batch \in [Instance -> SUBSET (Key \cup Tag)]
  /\ found \in [Instance -> Found]
  /\ \A i \in Instance : found[i] # Waiting => found[i].tag \in batch[i]
  /\ redis \in [Key -> RedisEntry] /\ index \in [Tag -> IndexEntry]
  /\ call \in [Caller -> Calls \cup {Idle}]
  /\ latest \in [Key -> LocalEntry]
  /\ unsure \subseteq suspect /\ suspect \subseteq Key /\ endless \subseteq Tag
  /\ overtaken \subseteq Caller /\ old \in [Instance -> SUBSET Key]
  /\ deleted \subseteq Key /\ invalidated \subseteq Key
  /\ operations \in 0..MaxOperations /\ faults \in 0..MaxFaults

\* As long as an entry is in Redis the set of each of its tags holds its key, so
\* that invalidating the tag finds it: whatever else is set, deleted, invalidated
\* or expires.  Excepted are keys (suspect) whose last change overlapped another one
\* of the key, failed or was cut off by a restart, met a processor that was dropping
\* the set or a tick between sadd and expire, or was followed by a set of another key
\* that gave the whole set of the tag a shorter life (DistributedCache.py:426), or
\* whose set Redis evicted.
IndexCovers ==
  \A k \in Key \ suspect :
    redis[k] # NoEntry /\ BeingChanged(k) = {} =>
      \A t \in latest[k].tags : k \in index[t].members

\* A set of keys that has no expiry is about to get one, whatever other requests fail:
\* what stays in Redis for ever is a set of a tag whose set call ended between its own
\* sadd and expire, by a failed request or a restart, and to which no call gave a life
\* since (endless).
IndexesExpire ==
  \A t \in Tag \ endless : index[t].members # {} /\ index[t].life = Forever =>
    \E c \in Caller : call[c].pc = "expiring" /\ call[c].tag = t

\* Once the calls that changed a key are over, Redis has its latest value or none,
\* unless those calls overlapped, failed or were cut off (unsure), and no instance
\* answers with an old one from its local cache, failures or not.  Excepted are a
\* copy of which another instance changed the key since, as nobody invalidates the
\* local caches of others, and a copy that get or the cache warmer stored although
\* the key was changed while they waited or was unsure when they read it
\* (DistributedCache.py:276-279): such copies (old) stay until their time is up, or
\* the key is changed through this instance or read again.
OnlyForeignWritesUnseen ==
  \A k \in Key : BeingChanged(k) = {} =>
    /\ k \notin unsure => redis[k].value \in {latest[k].value, None}
    /\ \A i \in Instance : k \notin old[i] => local[i][k].value \in {latest[k].value, None}

\* A key that was deleted while its request failed does not stay in Redis: the
\* queue repeats the deletion, unless the key is set again or the deletion overlapped
\* another change of the key.  (One fault.)
FailedDeletesRepeated == []<>(\A k \in deleted : redis[k] = NoEntry)

\* A key that had a tag when the tag was invalidated leaves Redis, on whichever
\* instance it was set.  Excepted are a key that is set again, one of which the
\* processor's request for its tag failed or was lost in a restart, and one that the
\* set of its tag may not hold, for the reasons IndexCovers names (suspect).
InvalidatedLeave == []<>(\A k \in invalidated \ suspect : redis[k] = NoEntry)

=============================================================================
