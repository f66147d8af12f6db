--------------------------- MODULE OfflineService ----------------------------
(***************************************************************************)
(* frontend/lib/services/EnhancedOfflineService.ts and the React hook that *)
(* owns it, frontend/lib/hooks/useEnhancedOfflineService.ts.  Every mounted*)
(* hook makes a service of its own, with a query cache of its own, and all *)
(* of them share one SizeWiseDatabase, which a hook closes when it         *)
(* unmounts.                                                               *)
(*                                                                         *)
(* A write is two steps: its transaction commits, then the service's       *)
(* continuation invalidates the cache.  Transactions complete one at a     *)
(* time and each continuation runs before the next completion, so a        *)
(* service has at most one write in flight, and a read that misses is one  *)
(* step: its transaction excludes writers until its result is delivered.   *)
(***************************************************************************)
EXTENDS OfflineDatabase

CONSTANTS
  Hook,
  QueryKind   \* bound: the kinds of queries the hooks make

VARIABLES
  open,        \* the shared Dexie connection
  phase,       \* where each hook is in its life
  closing,     \* hooks whose service.close() has not finished
  cache,       \* queryCache of each hook's service
  inFlight,    \* the committed write whose continuation has not run
  foreign,     \* history: cached keys others changed since
  overlapped   \* history: a service started while another could still close

hookVars == <<open, phase, closing>>
cacheVars == <<cache, inFlight, foreign>>
serviceVars == <<rows, syncOperations, tx, replica, open, phase, closing, cache,
                 inFlight, foreign, overlapped>>

-----------------------------------------------------------------------------
\* The keys of queryCache.
ProjectKey(project) == [kind |-> "project", project |-> project]
CalculationsKey(project) == [kind |-> "calculations", project |-> project]
SpatialKey(project) == [kind |-> "spatial", project |-> project]
ProjectsKey == [kind |-> "projects", project |-> None]
Key == [kind : {"project", "calculations", "spatial"}, project : Project]
       \cup {ProjectsKey}

\* What the database answers for a key.  A project that is not there is null,
\* and null is not cached; an empty list is.
NotCached == [hit |-> FALSE, rows |-> {}]
Cached(result) == [hit |-> TRUE, rows |-> result]
Answer(key) ==
  CASE key.kind = "project" -> IF RowsOf(key.project) = {} THEN NotCached
                               ELSE Cached(GetProject(key.project))
    [] key.kind = "projects" -> Cached({r \in rows : r.uuid \in Project})
    [] key.kind = "calculations" -> Cached(GetCalculationsByProject(key.project))
    [] key.kind = "spatial" -> Cached(GetSpatialLayersByProject(key.project))

NoWrite == [kind |-> "none", project |-> None]
Write == [kind : {"create", "update", "delete", "calculation", "spatial"},
          project : Project]

\* Mutant: an update invalidates the list only.
InvalidatedOnUpdateListOnly(write) ==
  CASE write.kind = "none" -> {}
    [] write.kind \in {"create", "update"} -> {ProjectsKey}
    [] write.kind = "delete" -> {ProjectsKey, ProjectKey(write.project)}
    [] write.kind = "calculation" -> {CalculationsKey(write.project)}
    [] write.kind = "spatial" -> {SpatialKey(write.project)}

\* Mutant: a deletion invalidates the list only.
InvalidatedOnDeleteListOnly(write) ==
  CASE write.kind = "none" -> {}
    [] write.kind \in {"create", "delete"} -> {ProjectsKey}
    [] write.kind = "update" -> {ProjectsKey, ProjectKey(write.project)}
    [] write.kind = "calculation" -> {CalculationsKey(write.project)}
    [] write.kind = "spatial" -> {SpatialKey(write.project)}

\* The keys each write's continuation deletes from its own service's cache.
Invalidated(write) ==
  CASE write.kind = "none" -> {}
    [] write.kind = "create" -> {ProjectsKey}
    [] write.kind \in {"update", "delete"} -> {ProjectsKey, ProjectKey(write.project)}
    [] write.kind = "calculation" -> {CalculationsKey(write.project)}
    [] write.kind = "spatial" -> {SpatialKey(write.project)}

Empty == [k \in Key |-> NotCached]

\* serviceRef.current is set: the hook's operations reach its service.
Attached(hook) == phase[hook] \in {"starting", "ready", "failed"}

Forget(hook, keys) ==
  /\ cache' = [cache EXCEPT ![hook] =
                 [k \in Key |-> IF k \in keys THEN NotCached ELSE @[k]]]
  /\ foreign' = [foreign EXCEPT ![hook] = @ \ keys]

-----------------------------------------------------------------------------
\* The transaction of one of the service's five writes.  A new project and its
\* children get uuids that were never used.
Unused(uuid) == \A o \in syncOperations : o.entityUuid # uuid
Transaction(write) ==
  \/ /\ write.kind = "create"
     /\ Unused(write.project)
     /\ \E c \in Content : CreateProject(write.project, c)
  \/ /\ write.kind = "update"
     /\ \/ \E c \in Content : UpdateProject(write.project, c)
        \/ RowsOf(write.project) = {} /\ UNCHANGED dbVars
  \/ /\ write.kind = "delete"
     /\ DeleteProject(write.project)
  \/ /\ write.kind = "calculation"
     /\ \E k \in Calculation, c \in Content :
          Unused(k) /\ SaveCalculation(k, write.project, c)
  \/ /\ write.kind = "spatial"
     /\ \E l \in Layer, c \in Content :
          Unused(l) /\ SaveSpatialLayer(l, write.project, c)

CommitWrite(hook, write) ==
  /\ Attached(hook) /\ open
  /\ inFlight[hook] = NoWrite
  /\ Transaction(write)
  /\ inFlight' = [inFlight EXCEPT ![hook] = write]
  /\ foreign' = [h \in Hook |-> IF h = hook THEN foreign[h]
                  ELSE foreign[h] \cup
                         {k \in Key : cache[h][k].hit /\ Answer(k)' # Answer(k)}]
  /\ UNCHANGED <<open, phase, closing, cache, overlapped>>

\* invalidateCache, then the event that refreshes the hook's sync status.
FinishWrite(hook) ==
  /\ inFlight[hook] # NoWrite
  /\ Forget(hook, Invalidated(inFlight[hook]))
  /\ inFlight' = [inFlight EXCEPT ![hook] = NoWrite]
  /\ UNCHANGED <<rows, syncOperations, tx, replica, open, phase, closing, overlapped>>

\* A read that finds no entry, or one past its time to live, which it drops.
\* (A read that finds an entry returns it and changes nothing.)
Query(hook, key) ==
  /\ Attached(hook)
  /\ IF open
     THEN /\ cache' = [cache EXCEPT ![hook][key] = Answer(key)]
          /\ foreign' = [foreign EXCEPT ![hook] = @ \ {key}]
     ELSE Forget(hook, {key})
  /\ UNCHANGED <<rows, syncOperations, tx, replica, open, phase, closing, inFlight,
                 overlapped>>

-----------------------------------------------------------------------------
\* Another hook's service, or an earlier one of this hook, may close the database.
Others(hook) == closing # {} \/ \E h \in Hook \ {hook} : phase[h] # "unmounted"

\* The effect makes a new service, whose constructor starts to open the database.
Mount(hook) ==
  /\ phase[hook] = "unmounted" /\ hook \notin closing
  /\ phase' = [phase EXCEPT ![hook] = "opening"]
  /\ overlapped' = (overlapped \/ Others(hook))
  /\ UNCHANGED <<rows, syncOperations, tx, replica, open, closing, cache, inFlight,
                 foreign>>

\* Mutant: the hook attaches the service before the database is open.
OpenedEarly(hook) ==
  /\ phase[hook] \in {"opening", "abandoned"}
  /\ phase' = [phase EXCEPT ![hook] =
                 IF @ = "opening" THEN "starting" ELSE "unmounted"]
  /\ UNCHANGED <<rows, syncOperations, tx, replica, open, closing, cache, inFlight,
                 foreign, overlapped>>

\* db.open() is done: the hook, if still mounted, attaches the service.
Opened(hook) ==
  /\ phase[hook] \in {"opening", "abandoned"}
  /\ open' = TRUE
  /\ phase' = [phase EXCEPT ![hook] =
                 IF @ = "opening" THEN "starting" ELSE "unmounted"]
  /\ UNCHANGED <<rows, syncOperations, tx, replica, closing, cache, inFlight, foreign,
                 overlapped>>

\* Mutant: an error is a phase of its own that nothing else knows.
StartedWithError(hook) ==
  /\ phase[hook] = "starting"
  /\ phase' = [phase EXCEPT ![hook] = IF open THEN "ready" ELSE "error"]
  /\ UNCHANGED <<rows, syncOperations, tx, replica, open, closing, cache, inFlight,
                 foreign, overlapped>>

\* The initial status and metrics are read; reading a closed database rejects.
Started(hook) ==
  /\ phase[hook] = "starting"
  /\ phase' = [phase EXCEPT ![hook] = IF open THEN "ready" ELSE "failed"]
  /\ UNCHANGED <<rows, syncOperations, tx, replica, open, closing, cache, inFlight,
                 foreign, overlapped>>

\* The effect's clean-up while the service is still being made: nothing to close.
UnmountEarly(hook) ==
  /\ phase[hook] = "opening"
  /\ phase' = [phase EXCEPT ![hook] = "abandoned"]
  /\ UNCHANGED <<rows, syncOperations, tx, replica, open, closing, cache, inFlight,
                 foreign, overlapped>>

\* Mutant: close() does not clear the cache.
CleanUpKeepingCache(hook, next) ==
  /\ Attached(hook) /\ hook \notin closing
  /\ phase' = [phase EXCEPT ![hook] = next]
  /\ closing' = closing \cup {hook}
  /\ inFlight' = [inFlight EXCEPT ![hook] = NoWrite]
  /\ UNCHANGED <<rows, syncOperations, tx, replica, open, cache, foreign>>

\* The effect's clean-up: close() clears the cache and waits for the outbox.
\* With other options the effect runs again at once and takes the same service,
\* which nobody opens again.
CleanUp(hook, next) ==
  /\ Attached(hook) /\ hook \notin closing
  /\ phase' = [phase EXCEPT ![hook] = next]
  /\ closing' = closing \cup {hook}
  /\ Forget(hook, Key)
  /\ inFlight' = [inFlight EXCEPT ![hook] = NoWrite]
  /\ UNCHANGED <<rows, syncOperations, tx, replica, open>>

Unmount(hook) == CleanUp(hook, "unmounted") /\ UNCHANGED overlapped
RerunEffect(hook) == CleanUp(hook, "starting") /\ overlapped' = TRUE

\* ... and then closes the shared database; on a closed one it rejects before that.
Close(hook) ==
  /\ hook \in closing
  /\ closing' = closing \ {hook}
  /\ open' = FALSE
  /\ IF open THEN \E cutoff \in 0..tx : ClearOldSyncOperations(cutoff)
     ELSE UNCHANGED dbVars
  /\ UNCHANGED <<phase, cache, inFlight, foreign, overlapped>>

\* The page is loaded again: the database stays, every service goes.
Reload ==
  /\ open' = FALSE
  /\ phase' = [h \in Hook |-> "unmounted"]
  /\ closing' = {}
  /\ cache' = [h \in Hook |-> Empty]
  /\ inFlight' = [h \in Hook |-> NoWrite]
  /\ foreign' = [h \in Hook |-> {}]
  /\ overlapped' = FALSE
  /\ UNCHANGED dbVars

-----------------------------------------------------------------------------
Init ==
  /\ DBInit
  /\ open = FALSE
  /\ phase = [h \in Hook |-> "unmounted"]
  /\ closing = {}
  /\ cache = [h \in Hook |-> Empty]
  /\ inFlight = [h \in Hook |-> NoWrite]
  /\ foreign = [h \in Hook |-> {}]
  /\ overlapped = FALSE

Operate(hook) ==
  \/ \E write \in Write : CommitWrite(hook, write)
  \/ FinishWrite(hook)
  \/ \E key \in {k \in Key : k.kind \in QueryKind} : Query(hook, key)

Live(hook) ==
  \/ Mount(hook) \/ Opened(hook) \/ Started(hook)
  \/ UnmountEarly(hook) \/ Unmount(hook) \/ RerunEffect(hook) \/ Close(hook)

Next == (\E hook \in Hook : Operate(hook) \/ Live(hook)) \/ Reload

Spec == Init /\ [][Next]_serviceVars

-----------------------------------------------------------------------------
TypeOK ==
  /\ DBTypeOK
  /\ open \in BOOLEAN /\ overlapped \in BOOLEAN
  /\ phase \in [Hook -> {"unmounted", "opening", "abandoned", "starting", "ready",
                         "failed"}]
  /\ closing \subseteq Hook
  /\ cache \in [Hook -> [Key -> [hit : BOOLEAN, rows : SUBSET Row]]]
  /\ inFlight \in [Hook -> Write \cup {NoWrite}]
  /\ foreign \in [Hook -> SUBSET Key]

\* A hook never serves from its cache what one of its own finished writes made
\* old: an entry differs from the database only while a write that names its key
\* has not continued, or after another hook changed it.  The lists of a deleted
\* project's calculations and layers are the exception: deleteProject does not
\* invalidate them.
OwnWritesVisible ==
  \A h \in Hook, k \in Key :
    cache[h][k].hit /\ cache[h][k] # Answer(k) =>
      \/ k \in Invalidated(inFlight[h])
      \/ k \in foreign[h]
      \/ k.kind \in {"calculations", "spatial"} /\ RowsOf(k.project) = {}

\* The component of a single hook, whose service no other client writes behind,
\* sees the promised store: OfflineService refines ProjectStore.
ContentIn(found) == IF found = {} THEN None ELSE (CHOOSE r \in found : TRUE).content
Stored == [p \in Project |-> ContentIn(GetProject(p))]
Served ==
  [p \in Project |->
     LET entry == cache[CHOOSE h \in Hook : TRUE][ProjectKey(p)]
     IN ContentIn(IF entry.hit THEN entry.rows ELSE GetProject(p))]
Store == INSTANCE ProjectStore WITH stored <- Stored, served <- Served
ServesStore == Store!Spec

\* As long as hooks are mounted one at a time, each only after the close of the
\* one before has finished, no operation of a mounted hook meets a closed database.
AloneStaysOpen ==
  ~overlapped => \A h \in Hook : Attached(h) => open

\* What the hook reports as initialized can be used.
InitializedIsUsable == \A h \in Hook : phase[h] = "ready" => open

=============================================================================
