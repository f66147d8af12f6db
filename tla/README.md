# SizeWise Suite: TLA+ models of the offline-first core

SizeWise is an HVAC design suite: a Next.js front end that works offline on an
IndexedDB database, an Electron shell, and Python and TypeScript back ends for
collaboration, tiers and calculations.  This directory holds TLA+ modules of its
stateful parts, TLC configurations for small instances, and TLAPS proofs.

## Inventory

| Part | State | Operations | Talks to | What is hard | What makes it correct |
|---|---|---|---|---|---|
| Offline database, `DexieDatabase.ts` | entity tables, outbox `syncOperations` | create, update, delete, bulk save, mark, clear | everyone, by transactions | duplicates of a uuid, cascades, outbox in step with tables | a server that applies the outbox holds what the tables hold; nothing undelivered is lost |
| Project service, `EnhancedProjectService.ts` | none of its own; a call is several transactions | saveProject, loadProject, deleteProject | database | interruption between transactions, two callers | no orphaned segments; an acknowledged save is complete and reads back |
| Offline service and hook, `EnhancedOfflineService.ts`, `useEnhancedOfflineService.ts` | query cache per hook, shared connection, hook phase | cached reads, writes with invalidation, mount, unmount, option change, close | database, React | stale entries, close of the shared database, unmount while opening | own writes are visible; an initialized hook is usable |
| Project hook, `useEnhancedProjectService.ts` | the open project and the list, as React state | create, save, load, delete, edit segments | project service | calls that stop half-way, a page that closes | what is shown is what is stored, and nothing is shown before it is |
| Advanced caching, `AdvancedCachingService.ts` | memory map, IndexedDB map | get, set, delete, clear, evict, prefetch | database | unordered writes to two levels, capacity, expiry | deleted keys stay deleted, capacity is kept but for a bounded overrun, nothing is served past its time |
| Collaboration server, `collaboration_server.py` | sessions, rooms, documents with their operations, locks | connect, join, leave, operation, lock, disconnect, clean-up | clients by Socket.IO, Redis | late disconnects, resent operations, restarts | one growing log per document, seen by everyone in its room; no entry without a session but those joins leave that were served while their session ended |
| Collaboration client, `CollaborationService.ts` | current document, queue of operations | join, leave, apply, lock, reconnect, resend | server | lost answers, resends, a queue dropped on leaving | no edit is lost; every edit reaches a document |
| Local data service and containers | SQLite tables, in-memory change queue | CRUD, sync queue | Electron | queue lost on restart | queued changes survive |
| Tier enforcement | usage counters | check, consume | database | check and use apart | quota never exceeded |
| Feature manager | flags, cache | query, update | database | stale flags | a change becomes visible |
| Service registry and gateway, `ServiceRegistry.ts` | services with their health, circuit breakers, rate limiters | register, discover, call, ping, route | network | calls that end after their breaker opened or their service was replaced, or never; pings and requests that go to different addresses; limits at a window's ends | a failing service leaves the rotation and, once its pings are answered, comes back; a limit is never doubled |
| Backend microservices: `DistributedCache.py`, balancer, mesh | local cache and invalidation queue per instance, Redis with its entries and tag sets | get, set, delete, invalidate, warm, process the queue | Redis | calls of several requests that overlap or fail, expiry between them, late invalidations | the set of a tag covers its keys; deleted and invalidated entries go; no instance answers with what it replaced itself, but for a `get` the change overlapped |
| State manager, UI stores | UI state, undo history | set, undo | React | batching | undo restores |
| Authentication, licensing, server databases | tokens, connections | login, validate, check | external services | mostly request and response | - |
| Calculation engines | none | formulas | - | floating point | outside TLC |

The first seven rows, the service registry and the distributed cache are modelled; the others
are not yet.
`PROJECT.json` gives the reason for each part and the list of hazards with the
properties that cover them.

## Modules

| Module | Models |
|---|---|
| `OfflineDatabase` | `DexieDatabase.ts`: one action per write transaction |
| `OfflineDatabaseProofs` | theorems about `OfflineDatabase` |
| `ProjectService` | `EnhancedProjectService.ts` over `OfflineDatabase` |
| `OfflineService` | `EnhancedOfflineService.ts` and its hook over `OfflineDatabase` |
| `ProjectStore` | abstract: the store the offline service promises one component |
| `OfflineServiceProofs` | theorems about the offline services, on top of those about the database; that one hook's service implements `ProjectStore` |
| `AdvancedCaching` | `AdvancedCachingService.ts`: the memory map with its order of accesses, and the table |
| `AdvancedCachingProofs` | theorems about `AdvancedCaching` |
| `ProjectHook` | `useEnhancedProjectService.ts` over `ProjectService` |
| `ProjectProofs` | theorems about `ProjectService` and, on top of them, about `ProjectHook` |
| `CollaborationServer` | `collaboration_server.py`: one action for each stretch of a handler between its suspensions, the connections and a restart |
| `Collaboration` | `CollaborationService.ts`: the clients, composed with the server |
| `SharedLog` | abstract: one growing log per document, edits that stay with their author until a log holds them |
| `CollaborationProofs` | theorems about `Collaboration`, among them that it implements `SharedLog` |
| `ServiceRegistry` | the registry and the circuit breakers of `ServiceRegistry.ts` |
| `APIGateway` | the gateway of the same file, composed with the registry |
| `APIGatewayProofs` | theorems about `APIGateway` |
| `DistributedCache` | `DistributedCache.py`: the instances of a service over their Redis |
| `DistributedCacheProofs` | theorems about `DistributedCache` |
| `FoldTheorems` | lemmas about the folds of the community modules, which three of the proofs cite |
| `MC...` | instances for TLC |

### OfflineDatabase

`rows` is the union of the tables `projects`, `projectSegments`, `calculations` and
`spatialData`: the uuid of a row says which table it is in.  The index on uuid is not
unique, so `rows` may hold several rows of a uuid, ordered by `id`; `getProject`'s
`.first()` is the row with the lowest key.  `id` is the number of the transaction that
added the row, which orders the rows of one uuid as their auto-incremented keys do;
rows added by one bulk transaction have different uuids and share an `id`.

Every write in the code is one Dexie transaction over its table and the outbox, so it
is one action.  The `modify()` counts that decide whether an update is queued are
guards (an update that queues nothing and changes nothing is a stutter).
`updateProjectSegment` has no such guard in the code and has none here.

`replica` is a history variable.  The repository has no sync server: the outbox is
written for one ("Sync Queue" in `docs/DATABASE_ARCHITECTURE.md`).  `replica` is what a
server that starts empty and applies each queued operation in order would hold, with a
project's deletion removing its calculations and layers as the client's does.  It turns
the promise of the outbox into a property.  Its three operators are marked external.

Properties: `OutboxReplicates` (tables and outbox agree), `UpdatesReachEntity` (no
update of a missing project or layer is queued), `UndeliveredKept` (marks and
clean-ups never lose an operation that is not completed).

### ProjectService

A client's call is a job: `saveProject` is a project transaction, then one for the duct
segments and one for the fitting segments, empty lists skipped; `deleteProject` reads
the segments, deletes them one transaction at a time, and then the project.  `Stop` ends
a call anywhere: a transaction that aborts, or a page that is closed.  `saved` remembers
the last acknowledged save of a project until another call on it begins.

Any project may use any segment id.  The service stores `segment_id` as it comes
(`EnhancedProjectService.ts:178`, `:247`), a deletion deletes every row of an id (`:322`),
and the repository's sample page gives each project it creates the same `duct-001`,
`duct-002` and `fitting-001` (`app/test-project-saving/page.tsx:29`, `:58`, `:91`).  The
projects of the runs share all their ids.  `taken` is a history variable: for each
project, the ids that a call on another project has saved or deleted since the project's
last save.  A server has one copy of an id, so these copies are lost to the project.

`NoOrphanedSegments` holds for one client, however often its calls stop half-way, and
fails for two.  `AcknowledgedSaveReplicated` says that an acknowledged save is complete
in the outbox, but for the segments in `taken`.  `SavedEditsReadBack` fails.

`LoadProject` is an outcome: "null" when there is no row, and otherwise an error, because
the queries name the index `[projectUuid+segmentType]` (`DexieDatabase.ts:426`) and the
schema of `projectSegments` does not declare it; Dexie refuses such a query.  So loading a
saved project throws, always and without any interleaving.

### ProjectHook

A client of `ProjectService` is now a component with state: `current`, the project it
shows, and `projects`, its list.  It makes one call at a time (the page that uses it disables its
buttons while `isSaving`; calls that overlap within one component are not modelled).  The state
changes after the `await` only, so `Saved` and `RemoveDeleted` apply when the call ends,
and a call that throws leaves it alone (`Failed`).  `PutSegment` adds or changes a
segment of the shown project and saves all of it; `LeaveOutSegment` saves it without one,
which leaves that segment's row where it is.  `LoadNothing` and `LoadProjectList` are the
loads that do not throw, those that find nothing.  `Reopen` closes the page, perhaps
during a call.

`ShowsWhatIsStored` relates list and current project to rows and outbox, with the same
exception for segments that another project has taken;
`ShowsOnlySaved` is about the moment something appears.

### OfflineService

Each mounted hook makes a service with a cache of its own; all share the singleton
database.  A write is `CommitWrite` and `FinishWrite` (the continuation that
invalidates).  A cached read changes nothing; `Query` is the miss, and also an expired
entry.  Time is not modelled: an entry may expire at any moment.

Why a miss is one step: the read's transaction excludes writers until its result is
delivered, and its continuation runs before the next transaction's completion is
delivered.  Why one write in flight per service is enough: completions are delivered one
at a time, each followed by its continuation.

The life of a hook follows its effect: `Mount`, `Opened` (attached, or abandoned when the
component is already gone), `Started`, `Unmount`, `RerunEffect` (an option changed: the
clean-up closes the service and the effect takes the same one again), `Close` (the
unawaited part of `close()`).  A hook that remounts is a new component; it does so after
its earlier close has finished, and another hook stands for one that does not.

History variables: `foreign` (cached keys others changed) and `overlapped` (a service
started while another could still close the database).

`OwnWritesVisible` relates every cache entry to the database.  `AloneStaysOpen` says
when the shared connection is safe.  `ServesStore` is the refinement: for a single hook
`ProjectStore` is implemented with `stored` mapped to the database's contents and
`served` to what `getProject` would return.

### AdvancedCaching

`memoryCache` and `accessOrder` are the two maps of the service.  The code keeps a
counter per key and evicts the lowest; `accessOrder` is the keys in that order.
`cacheEntries` is the table.  Calls are not serialised: a caller's `call` says which
await it has reached, and between two awaits any other caller steps.  The eviction loop
removes the least recently used keys up to the first number of them that makes room;
`Forget` is what `delete` and `clear` have in common.

| `call[c].pc` | The call waits at |
|---|---|
| `reading` | `get`: `await cacheEntries.get` |
| `promoting` | `get`: `await setMemoryCache`, whose `await ensureMemoryCapacity` has made room |
| `setting` | `set`: the same await |
| `storing` | `set`: `setMemoryCache` has returned, the write to the table is not issued |

`delete` and `clear` change memory and issue their request without an await between, so
they are one step.  A request to the table takes effect when it is issued, since
IndexedDB orders overlapping transactions of one connection by the time they are
issued; a read's answer is delivered later (`GetDelivered`).  This supposes an open
database.  Any request may fail: the service logs a warning and goes on.  `Reload` ends
every call and keeps the table.  The size of a value is a constant function.  A
`prefetchProjectData` or `warmCache` is a caller that issues sets or gets.

History: `origin` in an entry (its timestamp before it was promoted, because promoting
stamps it again), `latest` (what was set last), `suspect` (keys whose calls overlapped
or whose write failed; a later quiet set or delete clears the key).

`QuietKeysFresh` says that overlap and failure are the only ways to a stale answer.
`OverrunIsBounded` says how far two checks before two insertions can exceed the
capacity.  `OrderIsOfCachedKeys` keeps the eviction loop from spinning.
`ServedWithinTwoLives` is the age an answer can reach: one time to live would be too
little, because a promotion stamps an entry found in the table with the present time and
its whole time to live again (`AdvancedCachingService.ts:122`).

### CollaborationServer, Collaboration and SharedLog

The server is one asyncio process.  A handler runs undisturbed up to its next real
suspension, and there other handlers run, so it is one action for each stretch between
two suspensions:

| Handler | Suspends at | Actions |
|---|---|---|
| `join_document` | `lrange`, with Redis and a new document (`collaboration_server.py:424`); the emit of `user_joined`, when others are in the room (`:325`) | `JoinDocument`, `Loaded`, `AnswerJoin`; `EnterRoom` is what enters the room and the tables |
| `operation` | the emit to the room (`:389`) | `ProcessOperation`, `Send` |
| `disconnect`, and the clean-up of silent sessions | the emit of `user_left`, when others are in the room (`:355`) | `Disconnect`, `EndDisconnect`; then `CloseRooms` |
| `leave_document`, `document_lock` | their emit, after which nothing is left to do | `LeaveDocument`, `DocumentLock` |

`loading`, `joining`, `emits` and `ending` hold the handlers that are suspended.  The
recipients of an emit are those in the room when it is called, and emits send in their
order.  `enter_room` and `leave_room` await nothing, and an emit to an empty room is
taken neither to suspend nor to encode.  (A library that encodes it all the same refuses
the datetime of an operation in an empty room.  That takes a codec that refuses
datetimes, and then no client has a document to edit.)  The snapshot in a join's answer
is taken when `AnswerJoin` runs, after the connection has entered the room, so it holds
operations that are broadcast to the connection as well.  `lrange` may raise: then the
document exists and the join is refused.

A connection (`Sid`) is a user and a number; `up` and `down` hold the packets on their way
on each connection.  The server may serve what a client sent on a connection that is
already broken, and may notice the break long after the client has connected again and
joined.  `Restart` empties every table.

Two facts of the installation are chosen once: whether Redis is configured (`redis`), and
whether the Socket.IO codec takes `datetime` values (`encodes`).  The code passes no codec
(`:74`) and sets a Redis URL by default (`:72`), so as it stands `redis` is true and
`encodes` false (`CommittedSpec` of `MCCollaboration`).  The default codec refuses the
datetimes of documents: a join enters the room and gets no document, whatever else works.
Everything the other properties say of views and operations is therefore about
installations that pass a codec, and they are checked and proved for all four.  With Redis,
`json.dumps(asdict(...))` raises after the operation was appended and broadcast, so the
author is told that it failed.  That is also why Redis never holds an operation, and
`lrange` finds nothing.

A client has one socket.  What it emits while offline Socket.IO buffers for the next
connection (`Outlet`).  `Connect` is the handshake and the client's 'connect' handler,
which sends the whole queue again and does not join again.  `Leave` sends the queue once
more and empties it.  The keys of operations differ between the two languages
(`elementId`, `element_id`), so the client's transformation compares nothing and takes an
operation as it comes; the server's finds no operation newer than the one it just stamped.

`history` is a history variable: what was ever appended, also before a restart.
`abandoned` are operations that were queued when their author left, `mixed` the
connections that since they last joined have been in a second room or were due to get what
was sent to one, and `ghosts` the users whom a join put in a document while the session it
came from was ending or gone.

`SharedLog` promises: a document's log only grows at its end, holds only operations that
somebody made, and an operation stays with its author until a log holds it or its author
leaves.  `ImplementsSharedLog` maps its log to `history` and its pending edits to the
queues.

`RoomSeesLog` says that what a client in the room of its document, and in no other, will
show once it has read what is under way to it and what the server has emitted
(`Foreseen`, `Owed`) is the server's log in its order, with at most one stretch of it
twice (`Repeating`).  Both parts of that are what the code gives.  The stretch is what was
applied between the client's entering the room and the snapshot of its join: it is in the
snapshot and is broadcast to the client, and the client appends what it receives
(`CollaborationService.ts:380`).  A connection that was in two rooms without joining
again is excepted (`mixed`): the client appends what it receives from whichever room, so
what the second room sends ends up in the view of the first.  It can get into one room
again by a leave: a user has one entry in `user_documents` for all connections, and a
join on an older, broken connection that is served late overwrites it.

`TrackedHaveSessions` says that a user whom the server holds in a document has a session
that is not ending, so that its end will remove the entry.  Excepted are `ghosts`: while
`disconnect` awaits its emit (`:355`), or after it, a join of the same connection may be
served or come back from Redis and enter its document; nobody removes that entry before
the user leaves from another connection.

`RepeatsAreBounded` bounds the price of sending again.  `EditsReachLog` is the liveness
property.  `InSync` fails on the server as it stands: a client is in the room and has no
document.

With a codec and without Redis there would be another way out of step, which no property
here states: the 'connect' handler of a client (`CollaborationService.ts:293`) sends the
queue and does not join again, so a client that has reconnected is in no room, learns
that its own edits succeeded and receives nobody's.

The lock is stored and shown, and nothing else: neither `process_operation` nor a second
`document_lock` looks at it, although `CollaborationService.ts:221` calls it "exclusive
editing".

### ServiceRegistry and APIGateway

A service has a health (error rate in tenths, the failed ones among its last five pings,
status) and a circuit breaker.  Rounding does not matter: every sum and difference of 0.1
the code can reach lies on the same side of 0.1 and of 0.5 as its tenth.  Times are what
is left, so the clock needs no bound.

Pings and requests are answered independently.  A ping leaves the port out
(`ServiceRegistry.ts:377`), requests use it (`:754`), so what answers one need not answer
the other: `pinged` are the services whose ping gets a 2xx status, `served` those of which
every request gets one in time.  A service outside `served` may answer any call either
way: every other status counts as a failure (`:782`), so callers that ask for what is
missing make a service that works unhealthy.  `Fail` and `Recover` change either set, and
`outages` bounds the former.

A call in progress remembers whether every request succeeded when it began and whether
its registration is still the present one: it books its result in the breaker it began
with and in the health of whoever has the id when it ends.  It need not end: an operation
that a component passes to `callService` has no timeout.  `crossed` is a history variable: services that got a result of an earlier
registration.  A breaker's failures are counted up to its threshold.

`RouteRequest` takes a request through the limit, the choice of an available service and
the call.  `passed` is a history variable: the requests that passed, by age.

`TrippedLeavesRotation` relates the two judges of a service, which the code keeps apart:
the breaker and the error rate.  `LessThanTwiceTheLimit` is what a fixed window gives.
`Recovers` is the liveness property: while the pings of all registered services are
answered, a service is found again and again, whatever callers do to it, and found for good
if its requests succeed as well.  It promises nothing to a service whose address without
the port does not answer: that one becomes and stays unhealthy, however well it works.

### DistributedCache

Each instance of a service has its `local` cache, its `queue` of invalidations and a task
that works them off (`batch`, `found`); `redis` holds the entries and `index` the sets
`tag:<tag>`.  One Redis stands for the cluster, or for the node a key hashes to: a key is
always on the same one.

Every await of Redis is a step, at the moment Redis executes the request, so a `set` is
`BeginSet` (the local entry), `SetEx`, and for each tag `SAdd` and `Expire`; any other
call, a tick of Redis' clock or an eviction may come between.  A request may fail, and
then it may or may not have been executed; the code logs and ends the call, except that
`delete` goes on to queue the key.  `call[c].pc` is the await the call has reached.

| `call[c].pc` | The call waits at |
|---|---|
| `getting`, `storing` | `get`: the request; its answer has arrived, the local entry is not yet written |
| `setting`, `adding`, `expiring` | `set`: `setex`, `sadd`, `expire` |
| `deleting`, `queueing` | `delete`: the request; the key is not yet queued |

Life is relative: entries and sets hold the ticks they have left, so the clock needs no
bound.  A local entry may expire at any moment (`Expired`); local and Redis' clocks need not
agree.  The queue is a set: its order and its repetitions are left open.  `Evict` is
`maxmemory-policy allkeys-lru` of `docs/deployment-guide.md:655`.  `Restart` empties an
instance.

History variables, each for exactly the exceptions of a property:

| Variable | Holds |
|---|---|
| `latest` | what was set last for a key |
| `unsure` | keys of which the last change overlapped another, failed, or was cut off by a restart before Redis had it |
| `suspect` | those, and keys the set of a tag of theirs may have lost: the request for the set failed or was cut off, met a tick between `sadd` and `expire`, or a processor that was dropping the set; a shorter life came with another key (`DistributedCache.py:426`); the set was evicted |
| `endless` | tags whose set has no expiry and lost the call that was to give it one |
| `overtaken` | gets in progress that a change overlapped, or that read an unsure key |
| `old` | by instance, keys stored by such a get, or changed through another instance since |
| `deleted`, `invalidated` | keys whose deletion or invalidation Redis has still to carry out |

`IndexCovers` says when invalidating a tag finds a key.  `IndexesExpire` says that a set of
keys without an expiry is about to get one, whatever other requests fail, unless its call
ended just before (`endless`): that set stays until a later call gives it a life, perhaps
for ever.
`OnlyForeignWritesUnseen` says which old answers there are: the queue is said to be "for
other nodes" (`DistributedCache.py:329`), but nothing ever touches the local cache of another
instance, so it keeps what others have changed until its time is up; and a `get` that a set
or a delete of the same instance overlaps stores the old value after it (`:276-279`).  Both
are excepted as `old`, and every other copy is the latest.  A local entry made by `get` has
no tags, so `invalidate_by_tags` passes it over even in its own instance; no property speaks
of it.  `FailedDeletesRepeated` and `InvalidatedLeave` are the liveness properties; the second
excepts the keys in `suspect`, which the code does not find either.

## Runs

| Run | Instance | Shows |
|---|---|---|
| `database` | 2 projects, 2 segments, 1 calculation, 1 layer, 2 contents, 3 transactions, 1 operation not pending, 1 retry | the three outbox properties over all transaction orders |
| `project_service` | 1 component, 2 projects that share a duct and a fitting, 2 contents, 6 transactions | saves and deletes with interruptions; what the component shows |
| `orphaned_segments` | 2 clients | finding: a save during a delete orphans segments |
| `saved_edits_read_back` | 1 client | finding: an edit that is saved is not read back |
| `offline_service_cache` | 1 hook, 1 project, 1 calculation, 1 layer, 2 contents, 4 transactions, all queries | own writes visible, refinement of `ProjectStore` |
| `offline_service_hooks` | 2 hooks, 2 projects, 2 contents, 2 transactions, project queries | two services over one connection |
| `initialized_is_usable` | 2 hooks | finding: an initialized hook on a closed database |
| `two_level_cache` | 2 callers, 3 keys, values of size 1 and 2, capacity 2, time to live 2, clock to 5 | order, capacity, freshness and age over all overlaps, evictions, expiries, failures and reloads |
| `collaboration` | 2 users, one of whom reconnects once, 2 documents, 2 operations, 1 restart, locks, with and without Redis and a codec | no edit lost, refinement of `SharedLog`, the room sees the log, every edit arrives |
| `in_sync` | the same, with Redis and without a codec as the code has it | finding: a client is in the room and gets no document |
| `service_registry` | 1 service behind 1 route, 2 callers, threshold 5, limit 2, 1 outage | breaker and health agree, recovery under independent pings and requests, the limit |
| `distributed_cache` | 2 callers, 1 tag, 3 calls, 1 fault; 2 instances with 1 key, 2 values and one time to live, or 1 instance with 2 keys and times to live 1 and 2 | tag sets cover and expire, old answers only of what others changed or a `get` stored over, failed deletions and invalidations take effect |

Bounds are the constants `MaxTransactions`, `MaxMarked`, `MaxRetries`, `MaxTime`,
`QueryKind`, `MaxConnections`, `MaxRestarts`, `MaxInFlight`, `MaxOutages` and the
`Budget` of two runs, `MaxOperations` and `MaxFaults`.
Three transactions create, change and delete an entity, or create it twice and delete
it; six cover a full save with both batches followed by an edit that stops half-way or by
a deletion; four let a service create, cache, write and write again.  One operation that
is not pending suffices for marks and clean-ups because they touch one operation's status
at a time.  In the cache, two callers give every overlap of two calls on one key, three
keys let memory hold more than the bound of `OverrunIsBounded`, which two could not, and
the clock passes two lives.  Callers may call for ever.  In `collaboration` the first
engineer acts while less than two packets and unfinished handlers are under way, the second
only when none is; two are enough for an operation that runs while a join awaits its emit,
and for a join that is served while its session ends.

Four runs have a `CONSTRAINT`.  In the cache no time passes while more than one key is
in use: age is a matter of one key, capacity one of three.  `collaboration` and
`service_registry` have a budget of two extras: a behaviour of the first may have Redis and a
broken connection, or one of a restart, locks, a second document and a second operation; of
the second an outage and a re-registration, one of them and a request that passes the limit,
or requests that fill it.  A
budget stops only steps of users and of the environment, so no step that fairness demands
is ever cut off.  `distributed_cache` has one key with two instances, or
two keys with one: what goes wrong between instances is a matter of one key, what goes wrong
in the set of a tag of two.  Three calls are a set, one that changes or overlaps it and one
that invalidates or reads; a second fault could undo the one repetition of a deletion.  Its
first call is pinned to one of the interchangeable callers, keys and values, and its
constraints stop only calls that begin.  A threshold of five is the code's default and the least for which
`TrippedLeavesRotation` holds.  Symmetry is used only on sets whose members no definition
tells apart, and in no run with a liveness property.  `CHECK_DEADLOCK FALSE` stands where
every call has returned and a bound is used up.

## Fairness

`Collaboration`: `WF(Serve(s))`, because the event loop runs every handler whose packet
has arrived, and `WF(Connect(u))`, because Socket.IO tries again, five times, and one
attempt is taken to succeed (the last connection of the bound does not break).  Nothing
is assumed of users, of when a client reads or when the server notices a break.
`EditsReachLog` holds under these two alone and excepts what the code gives up: an author
who leaves and a server that restarts.

`APIGateway`: `WF(Tick)`, time passes; `WF(CheckInRound(s))`, the timer of
`startHealthChecking` pings each registered service in turn and awaits each ping.  `fetch`
knows no option `timeout`, so one ping that never ends stops its round: fairness is
assumed only while the pings of all registered services are answered.  Nothing is
assumed of callers, of outages, or that calls end.  With the mutant that pings available
services only, callers whom an open breaker refuses keep the service out for ever.

`DistributedCache`: `WF` of some call that goes on and `WF` of some processor's step: a
request is answered or fails, and the task of `_invalidation_processor` is an endless loop
that catches everything.  That some call, or some processor, goes on is enough for all of
them, as only `MaxOperations` calls begin.  Nothing is assumed of ticks or evictions.

No other specification states fairness: nothing in those parts promises to run again.

## Proofs

`OfflineDatabaseProofs` proves for any sets of projects, segments, calculations, layers
and contents, under the three assumptions of `OfflineDatabase` (the kinds of uuid are
disjoint, `None` is none of the values, the bounds are naturals):

- `TypeCorrect`: `DBTypeOK` is an invariant;
- `OutboxReplicatesTables`: `OutboxReplicates` is an invariant;
- `UpdatesReach` and `UndeliveredSurvives`: the two action properties.

`OutboxReplicates` is not inductive.  `IInv` adds that every key in the tables and the
outbox is below the next one (`KeysBelow`: a row that is added is the newest of its
uuid) and that a calculation or a layer has one row (`OneRowPerChild`: without it the
cascade could delete one of two rows whose owners differ, and the server's copy would
not know which).  `Invariance` proves `IInv`; the other theorems follow from it.

`ProjectProofs` also assumes `SegmentAssumption` (every segment is a duct or a fitting;
projects may share segments):

- `ImplementsDatabase`: every step of the service is a step of `OfflineDatabase` or
  leaves it alone, so the theorems above hold of the service
  (`ServiceOutboxReplicates` is one of them);
- `ServiceTypeCorrect`;
- `SingleClientLeavesNoOrphans`: `NoOrphanedSegments` for a single client.  It becomes
  inductive with two facts about a call in progress: a save's project has a row
  (`SaveHasProject`), and a delete still holds every segment of its project
  (`DeleteKnowsSegments`).  Both fail with a second client, and so does the property:
  the run `orphaned_segments`;
- `AcknowledgedSavesReplicated`: `AcknowledgedSaveReplicated` for a single client.  The
  strengthening says that a save in progress has already delivered every batch it no
  longer holds, but for segments taken since (`SavesCarried`), and that a project with a
  call in progress has no acknowledged save (`BusyNotSaved`).  A transaction on the copies
  of another project puts them in `taken`, so it needs no assumption on who uses which id.

Of the hook the same module proves, for a single component:

- `HookImplementsService`: every step of the hook is a step of the service or leaves it
  alone (for any number of components), so the service's theorems hold of it;
- `ComponentShowsWhatIsStored` and `ComponentShowsOnlySaved`.  The strengthening,
  `Displayed`, says that listed and shown projects have a row (a delete in progress has
  not reached its last transaction, and its end removes the project from both) and that
  the shown project is the acknowledged save, if there is one.  With the service's
  invariant this gives what the outbox carries.

`OfflineServiceProofs`, for any number of hooks:

- `ServicesImplementDatabase` and `ServicesTypeCorrect`;
- `AloneNeverClosed`: `AloneStaysOpen`, by the invariant `Alone` (while nothing has
  overlapped, one hook is mounted at most, and none while a close is unfinished);
- `HooksSeeOwnWrites`: `OwnWritesVisible`.  The argument is that an answer changes only
  by a write, and a write changes only answers that its continuation invalidates, the
  lists of a project it deletes, or the answer for a project it creates.  The last one
  nobody has cached, because its uuid was never used; for that the outbox has to
  remember every used uuid (`AllPending`, `UsedRows`, `CachedUsed`);
- `SingleHookServesStore`: with `Hook = {h}`, `Spec` implies `ServesStore`.  Besides the
  invariant of `OwnWritesVisible` it needs that a project has one row (`OneRow`) and that
  nobody else changes what the hook has cached (`NoForeign`).  Then only the project of
  the write in flight can be read stale (`StaleOnlyInFlight`); a commit is a `Put` or
  changes no project, and every other step is an `Acknowledge` or a stutter.

`AdvancedCachingProofs`, under `CacheAssumption` (`None` is no key and no value; sizes,
capacity, times to live and the clock's bound are naturals) and, for the last theorem,
`OverrunAssumption` (finitely many callers, and some value is the largest), for any
callers, keys and values:

- `CachingTypeCorrect`: `TypeOK`.  The levels and the calls come first
  (`LevelsTypeCorrect`), the order of accesses needs `OrderOK`: it lists no key twice, so
  that removing a key's place removes the key;
- `OrderListsCachedKeys`: `OrderIsOfCachedKeys`.  Every step keeps `OrderOK`; the eviction
  (`EvictKeepsOrder`) cuts a prefix of the order and the same keys from memory;
- `TwoLivesAtMost`: `ServedWithinTwoLives`, by the invariant `Ages`: an entry's
  timestamp is within one life of its origin, because only a valid entry is promoted,
  and what the table holds has its own timestamp as origin, so lives do not add up;
- `QuietKeysStayFresh`: `QuietKeysFresh`.  `Quiet` adds that a key which is not suspect
  has one set in progress at most and no other call beside it (`SetsAlone`), and that
  this set carries the latest value (`SetsLatest`);
- `MemoryOverrunBounded`: `OverrunIsBounded`.  The usage alone is not inductive: a call
  inserts long after it made room.  `Room` says that while any calls wait to insert, one of
  them still fits beside a largest value for each of the others.  The call that made room
  last is that one, and when it inserts, any other that waits takes its place.

`CollaborationProofs`, for any users, documents, operations, connections and restarts:

- `CollaborationTypeCorrect`;
- `NoEditLost`: `EditsKept`.  It is not inductive alone: an operation leaves the queue on
  the answer "success", so the invariant adds that a success on its way is about an
  operation that is in a log, that requests are about operations somebody made, and that
  a queue holds its author's operations, each once;
- `TrackedHaveSessionsAlways`: `TrackedHaveSessions` is inductive given the types: what
  deletes or begins to end a session has removed its user's entry first, and a join that
  writes the entry of a session that is ending or gone makes its user a ghost;
- `CollaborationImplementsSharedLog`: `ImplementsSharedLog`.  `ApplyOperation` is a
  `Make`, `ProcessOperation` a `Record`, the answer "success" a `Settle` (by the fact
  above), `Leave` an `Abandon`; everything else, the suspended handlers and the restart
  included, is a stutter;
- `RepeatsBounded`: `RepeatsAreBounded`.  `Counted` counts an operation's copies in a
  document's history together with the requests for one more that are under way on its
  author's connections: they are no more than the connections its author has opened, plus
  one once it has left the queue.  Serving a request turns it into at most one copy, a
  break loses requests, and a client sends an operation again only when it opens a
  connection or, by leaving, takes it out of its queue;
- `RoomsSeeTheirLog`: `RoomSeesLog`.  The inductive invariant has three parts.  `Sees`
  is the property.  `Kept` says that what the server has emitted to a connection and not
  yet sent is the end of its room's log; when a snapshot is sent before it, this end is the
  stretch that is shown twice.  `Placed` says
  that only opened connections are in rooms, so a new one is in none; that a connection
  that is not mixed is in one room at most, so a leave ends the room or changes nothing;
  and that an installation that cannot encode documents never makes a client show one.
  The answer to a join ends what is under way with the stored document, a broadcast
  appends to the document and to what its room will show, and reading a packet only moves
  it from the link into the view.

`APIGatewayProofs`, for any services, callers and routes:

- `GatewayTypeCorrect`;
- `TrippedIsUnhealthy`: `TrippedLeavesRotation` when the threshold is five or more.  The
  invariant: a service that is not crossed has an error rate of at least as many tenths as
  its breaker counts failures, up to the limit of ten;
- `LimitNeverDoubled`: `LessThanTwiceTheLimit`.  `WindowOK` says that what a limiter has
  counted has passed since its window opened, that a request opened it, and that less than
  the limit passed in the part of the last window's length before it.

`DistributedCacheProofs`, under `DistributedAssumption` (`None` is no key, value or tag,
no key is a tag, times to live are positive, the bounds are naturals), for any instances,
callers, keys, tags and faults:

- `DistributedTypeCorrect`: `TypeOK`;
- `EveryIndexExpires`: `IndexesExpire`.  A step that ends a call between its `sadd` and
  its `expire` puts the tag into `endless`, any other leaves the call there or gives the set
  its life;
- `IndexesCover` and `OnlyForeignUnseen`: `IndexCovers` and `OnlyForeignWritesUnseen`.
  Neither is inductive.  `IInv` says of each key that is not unsure (`Fresh`) that a call
  which changes it is the only one that does and carries the latest value, and that Redis
  holds the latest or nothing until that call has reached it; of each `get` nobody overtook
  (`Gets`) that it carries the latest; of each local copy that is not old (`Locals`) that it
  is the latest; and of each key that is not suspect (`Good`) that the set of a tag which the
  call has passed holds the key for as long as the entry lives (`Covered`).  The last one compares lives: a tick
  may end an entry before the set of its tag, never after, and a processor that drops the
  set has deleted the entries of its members first.

`FoldTheorems` is what the last theorems of three of these modules need.  The folds of the
community modules (`SumFunctionOnSet`, `FoldLeft`) are recursive functions, each a `CHOOSE`
of which nothing is known until some function is shown to solve its equation.
`RecursionOnSets` shows that once, by an induction stated as a fact about sets
(`NatInductionOnSet`, `SubsetInduction`: a set that holds the first and with each the next
holds all), because the library's induction theorems cannot be instantiated.  From it follow
what a sum over a set is when an element is added, removed or changed, or the set is split
or shifted, and, in `CollaborationProofs`, that reading packets is a recursion over them
(`ReadAllSteps`).

Every invariant and every action property that a passing run checks is proved.  Only
model-checked are the liveness properties `EditsReachLog`, `Recovers`,
`FailedDeletesRepeated` and `InvalidatedLeave`, since fairness and `ENABLED` are beyond the
prover, and the violations of the findings.  There is no recursive operator.

## Not modelled

Within the modelled parts:

- the database's user preferences, statistics, schema validation and diagnostic CRUD
  routine (`DexieDatabase.ts:258` creates through the outbox, but updates and deletes
  around it, so a phantom 'create' stays queued); `version` and `syncStatus` of a row
  (Dexie ignores what the 'updating' hooks assign); the wall-clock timestamp by which
  pending operations are ordered (the model orders by transaction);
- performance metrics and the auto-sync timer of the offline service, which only logs;
- of the advanced cache: metrics, the choice of what to prefetch, two services over one
  table, and the React hook over it, whose effect depends on a default object that is new
  at every render;
- cursors and presence of the collaboration; a second socket of one client;
- metrics, load-balancing strategies and path matching of the gateway;
- metrics, counts of hot keys (any key not in the local cache may be warmed) and the hash
  ring of the distributed cache.

Not yet modelled, in the order of what a model would add:

- `FeatureManager.ts`: decisions cached over tiers cached, for different times;
- `AdvancedStateManager.ts`: a rollback restores the whole store as it was before the
  update, whatever happened since; undo goes back to a state before the last one;
- tier enforcement (check and write in separate awaits), `LoadBalancer.py`;
- the local data service, whose in-memory change queue is lost with the page.

Not to be modelled: the calculation engines (floating point without state), the UI, the
3D canvas and the exports, which make up most of the repository's lines; authentication
and licensing, requests and responses over external services; `ServiceMesh.py`, most of
whose methods cannot be reached; reports and monitors that only read.

## Plan

1. `FeatureManager`: how stale a decision may be.
2. Tier enforcement: check and use as separate steps of concurrent requests.
3. `AdvancedStateManager`: which edits a rollback or an undo takes with it.
