------------------------- MODULE OfflineServiceProofs -------------------------
(***************************************************************************)
(* For every set of hooks, entities and contents: the services use the     *)
(* database only by its transactions, hooks mounted one at a time never    *)
(* meet a closed database, and each hook's cache shows its own writes.     *)
(***************************************************************************)
EXTENDS OfflineService, OfflineDatabaseProofs

Entry == [hit : BOOLEAN, rows : SUBSET Row]
Phase == {"unmounted", "opening", "abandoned", "starting", "ready", "failed"}

ServiceOK ==
  /\ open \in BOOLEAN /\ overlapped \in BOOLEAN
  /\ phase \in [Hook -> Phase]
  /\ closing \subseteq Hook
  /\ cache \in [Hook -> [Key -> Entry]]
  /\ inFlight \in [Hook -> Write \cup {NoWrite}]
  /\ foreign \in [Hook -> SUBSET Key]

-----------------------------------------------------------------------------
LEMMA InitServiceOK == Init => ServiceOK
<1>1. Empty \in [Key -> Entry]
  BY DEF Empty, NotCached, Entry
<1> QED BY <1>1 DEF Init, ServiceOK, Phase

LEMMA AnswerType == ASSUME DBTypeOK, NEW k \in Key PROVE Answer(k) \in Entry
<1>1. \A p : GetProject(p) \subseteq Row
  BY DEF DBTypeOK, GetProject, RowsOf
<1>2. \A p : GetCalculationsByProject(p) \subseteq Row /\ GetSpatialLayersByProject(p) \subseteq Row
  BY DEF DBTypeOK, GetCalculationsByProject, GetSpatialLayersByProject
<1>3. {r \in rows : r.uuid \in Project} \subseteq Row
  BY DEF DBTypeOK
<1>4. k.kind \in {"project", "projects", "calculations", "spatial"}
  BY DEF Key, ProjectsKey
<1> QED BY <1>1, <1>2, <1>3, <1>4 DEF Answer, NotCached, Cached, Entry

LEMMA ForgetOK ==
  ASSUME ServiceOK, NEW hook \in Hook, NEW keys, Forget(hook, keys)
  PROVE  /\ cache' \in [Hook -> [Key -> Entry]]
         /\ foreign' \in [Hook -> SUBSET Key]
         /\ \A k \in Key : cache'[hook][k] = IF k \in keys THEN NotCached ELSE cache[hook][k]
         /\ foreign'[hook] = foreign[hook] \ keys
         /\ \A h \in Hook : h # hook => cache'[h] = cache[h] /\ foreign'[h] = foreign[h]
BY DEF Forget, ServiceOK, NotCached, Entry

LEMMA NextServiceOK ==
  ASSUME DBTypeOK, ServiceOK, [Next]_serviceVars
  PROVE  ServiceOK'
<1>1. ASSUME NEW hook \in Hook, NEW write \in Write, CommitWrite(hook, write)
      PROVE  ServiceOK'
  BY <1>1 DEF CommitWrite, ServiceOK
<1>2. ASSUME NEW hook \in Hook, FinishWrite(hook) PROVE ServiceOK'
  <2>1. Forget(hook, Invalidated(inFlight[hook]))
    BY <1>2 DEF FinishWrite
  <2>2. cache' \in [Hook -> [Key -> Entry]] /\ foreign' \in [Hook -> SUBSET Key]
    BY <2>1, ForgetOK
  <2> QED BY <1>2, <2>2 DEF FinishWrite, ServiceOK
<1>3. ASSUME NEW hook \in Hook, NEW key \in Key, Query(hook, key) PROVE ServiceOK'
  <2>1. cache' \in [Hook -> [Key -> Entry]] /\ foreign' \in [Hook -> SUBSET Key]
    <3>1. CASE open
      <4>1. Answer(key) \in Entry
        BY AnswerType
      <4>2. /\ cache' = [cache EXCEPT ![hook][key] = Answer(key)]
            /\ foreign' = [foreign EXCEPT ![hook] = @ \ {key}]
        BY <1>3, <3>1 DEF Query
      <4>3. [cache[hook] EXCEPT ![key] = Answer(key)] \in [Key -> Entry]
        BY <4>1 DEF ServiceOK
      <4> QED BY <4>2, <4>3 DEF ServiceOK
    <3>2. CASE ~open
      BY <1>3, <3>2, ForgetOK DEF Query
    <3> QED BY <3>1, <3>2
  <2> QED BY <1>3, <2>1 DEF Query, ServiceOK
<1>4. ASSUME NEW hook \in Hook,
             Mount(hook) \/ Opened(hook) \/ Started(hook) \/ UnmountEarly(hook)
      PROVE  ServiceOK'
  BY <1>4 DEF Mount, Opened, Started, UnmountEarly, Others, ServiceOK, Phase
<1>5. ASSUME NEW hook \in Hook, Unmount(hook) \/ RerunEffect(hook) PROVE ServiceOK'
  <2>1. PICK next \in {"unmounted", "starting"} : CleanUp(hook, next)
    BY <1>5 DEF Unmount, RerunEffect
  <2>2. cache' \in [Hook -> [Key -> Entry]] /\ foreign' \in [Hook -> SUBSET Key]
    BY <2>1, ForgetOK DEF CleanUp
  <2>3. overlapped' \in BOOLEAN
    BY <1>5 DEF Unmount, RerunEffect, ServiceOK
  <2> QED BY <2>1, <2>2, <2>3 DEF CleanUp, ServiceOK, Phase
<1>6. ASSUME NEW hook \in Hook, Close(hook) PROVE ServiceOK'
  BY <1>6 DEF Close, ServiceOK
<1>7. CASE Reload
  BY <1>7 DEF Reload, ServiceOK, Empty, NotCached, Entry, Phase
<1>8. CASE UNCHANGED serviceVars
  BY <1>8 DEF serviceVars, ServiceOK
<1> QED BY <1>1, <1>2, <1>3, <1>4, <1>5, <1>6, <1>7, <1>8 DEF Next, Operate, Live

-----------------------------------------------------------------------------
(* Every step of the services is one transaction of the database, or none.   *)
LEMMA TransactionOfDatabase ==
  ASSUME NEW write \in Write, Transaction(write)
  PROVE  [DBNext]_dbVars
<1>1. write.project \in Project
  BY DEF Write
<1> QED BY <1>1 DEF Transaction, DBNext, ProjectNext, ChildNext

LEMMA ServiceStepIsTransaction ==
  ASSUME DBTypeOK, ServiceOK, [Next]_serviceVars
  PROVE  [DBNext]_dbVars
<1>1. ASSUME NEW hook \in Hook, NEW write \in Write, CommitWrite(hook, write)
      PROVE  [DBNext]_dbVars
  BY <1>1, TransactionOfDatabase DEF CommitWrite
<1>2. ASSUME NEW hook \in Hook, Close(hook) PROVE [DBNext]_dbVars
  <2>1. CASE UNCHANGED dbVars
    BY <2>1
  <2>2. ASSUME NEW cutoff \in 0..tx, ClearOldSyncOperations(cutoff)
        PROVE  [DBNext]_dbVars
    <3>1. CASE cutoff \in 1..tx
      BY <2>2, <3>1 DEF DBNext, SyncNext
    <3>2. CASE cutoff = 0
      <4>1. syncOperations' = syncOperations
        BY <2>2, <3>2 DEF ClearOldSyncOperations, DBTypeOK, SyncOperation
      <4> QED BY <2>2, <4>1 DEF ClearOldSyncOperations, dbVars
    <3> QED BY <2>2, <3>1, <3>2 DEF DBTypeOK
  <2> QED BY <1>2, <2>1, <2>2 DEF Close
<1>3. ASSUME NEW hook \in Hook,
             \/ FinishWrite(hook) \/ \E key \in Key : Query(hook, key)
             \/ Mount(hook) \/ Opened(hook) \/ Started(hook) \/ UnmountEarly(hook)
             \/ Unmount(hook) \/ RerunEffect(hook)
      PROVE  UNCHANGED dbVars
  BY <1>3 DEF FinishWrite, Query, Mount, Opened, Started, UnmountEarly, Unmount,
              RerunEffect, CleanUp, dbVars
<1>4. CASE Reload
  BY <1>4 DEF Reload
<1>5. CASE UNCHANGED serviceVars
  BY <1>5 DEF serviceVars, dbVars
<1> QED BY <1>1, <1>2, <1>3, <1>4, <1>5 DEF Next, Operate, Live

(* The offline services implement the database, whatever the hooks do.       *)
THEOREM ServicesImplementDatabase == Spec => DBSpec /\ []ServiceOK
<1>1. Init => DBInit /\ ServiceOK
  BY InitServiceOK DEF Init
<1>2. DBInit => IInv
  BY InitIInv
<1>3. IInv /\ ServiceOK /\ [Next]_serviceVars => [DBNext]_dbVars /\ IInv' /\ ServiceOK'
  BY ServiceStepIsTransaction, NextServiceOK, NextIInv DEF IInv
<1> QED BY <1>1, <1>2, <1>3, PTL DEF Spec, DBSpec

(* Every variable of the offline services keeps its type.                    *)
THEOREM ServicesTypeCorrect == Spec => []TypeOK
<1>1. DBTypeOK /\ ServiceOK => TypeOK
  BY DEF ServiceOK, TypeOK, Phase, Entry
<1> QED BY <1>1, ServicesImplementDatabase, TypeCorrect, PTL

-----------------------------------------------------------------------------
(* AloneStaysOpen.  While no service started beside another, at most one     *)
(* hook is mounted, and none is while a close has not finished.              *)
Alone ==
  ~overlapped =>
    /\ \A h, g \in Hook : phase[h] # "unmounted" /\ phase[g] # "unmounted" => h = g
    /\ closing # {} => \A h \in Hook : phase[h] = "unmounted"
    /\ \A h \in Hook : Attached(h) => open

LEMMA NextAlone == ASSUME ServiceOK, Alone, [Next]_serviceVars PROVE Alone'
<1>1. ASSUME NEW hook \in Hook, Mount(hook) PROVE Alone'
  BY <1>1 DEF Mount, Others, Alone, Attached, ServiceOK
<1>2. ASSUME NEW hook \in Hook, Opened(hook) PROVE Alone'
  BY <1>2 DEF Opened, Alone, Attached, ServiceOK
<1>3. ASSUME NEW hook \in Hook, Started(hook) PROVE Alone'
  BY <1>3 DEF Started, Alone, Attached, ServiceOK
<1>4. ASSUME NEW hook \in Hook, UnmountEarly(hook) PROVE Alone'
  BY <1>4 DEF UnmountEarly, Alone, Attached, ServiceOK
<1>5. ASSUME NEW hook \in Hook, Unmount(hook) PROVE Alone'
  BY <1>5 DEF Unmount, CleanUp, Alone, Attached, ServiceOK
<1>6. ASSUME NEW hook \in Hook, RerunEffect(hook) PROVE Alone'
  BY <1>6 DEF RerunEffect, Alone
<1>7. ASSUME NEW hook \in Hook, Close(hook) PROVE Alone'
  BY <1>7 DEF Close, Alone, Attached, ServiceOK
<1>8. CASE Reload
  BY <1>8 DEF Reload, Alone, Attached
<1>9. ASSUME UNCHANGED <<open, phase, closing, overlapped>> PROVE Alone'
  BY <1>9 DEF Alone, Attached
<1>10. ASSUME NEW hook \in Hook, Operate(hook)
       PROVE  UNCHANGED <<open, phase, closing, overlapped>>
  BY <1>10 DEF Operate, CommitWrite, FinishWrite, Query
<1>11. CASE UNCHANGED serviceVars
  BY <1>9, <1>11 DEF serviceVars
<1> QED BY <1>1, <1>2, <1>3, <1>4, <1>5, <1>6, <1>7, <1>8, <1>9, <1>10, <1>11
        DEF Next, Live

(* Hooks that are mounted one at a time, each after the close of the one     *)
(* before it has finished, always operate on an open database.               *)
THEOREM AloneNeverClosed == Spec => []AloneStaysOpen
<1>1. Init => Alone
  BY DEF Init, Alone, Attached
<1>2. ServiceOK /\ Alone /\ [Next]_serviceVars => Alone'
  BY NextAlone
<1>3. Alone => AloneStaysOpen
  BY DEF Alone, AloneStaysOpen
<1> QED BY <1>1, <1>2, <1>3, ServicesImplementDatabase, PTL DEF Spec

-----------------------------------------------------------------------------
(* OwnWritesVisible.  An answer changes only by a write, and a write changes *)
(* only answers its continuation invalidates, or those of a project it       *)
(* created, which nobody can have cached, or deleted.  That a created        *)
(* project was never used before needs the outbox to keep every operation.   *)
AllPending == \A o \in syncOperations : o.status = "pending"
UsedRows == \A r \in rows : ~Unused(r.uuid)
CachedUsed == \A h \in Hook, p \in Project : cache[h][ProjectKey(p)].hit => ~Unused(p)

Gone(key) ==
  /\ key.kind \in {"calculations", "spatial"}
  /\ RowsOf(key.project) = {} /\ ~Unused(key.project)

Visible ==
  \A h \in Hook, k \in Key :
    cache[h][k].hit =>
      \/ cache[h][k] = Answer(k)
      \/ k \in Invalidated(inFlight[h])
      \/ k \in foreign[h]
      \/ Gone(k)

CacheInv == AllPending /\ UsedRows /\ CachedUsed /\ Visible

LEMMA Keys ==
  ASSUME NEW k \in Key
  PROVE  \/ k = ProjectsKey
         \/ k.project \in Project /\ k = ProjectKey(k.project)
         \/ k.project \in Project /\ k = CalculationsKey(k.project)
         \/ k.project \in Project /\ k = SpatialKey(k.project)
BY DEF Key, ProjectsKey, ProjectKey, CalculationsKey, SpatialKey

(* An answer is made from the rows of its key only.                          *)
LEMMA ProjectAnswer ==
  ASSUME NEW p, RowsOf(p)' = RowsOf(p)
  PROVE  GetProject(p)' = GetProject(p) /\ Answer(ProjectKey(p))' = Answer(ProjectKey(p))
<1>1. GetProject(p) = {r \in RowsOf(p) : \A s \in RowsOf(p) : r.id <= s.id}
  BY DEF GetProject, IsOldest, RowsOf
<1>2. GetProject(p)' = {r \in RowsOf(p)' : \A s \in RowsOf(p)' : r.id <= s.id}
  BY DEF GetProject, IsOldest, RowsOf
<1>3. GetProject(p)' = GetProject(p)
  BY <1>1, <1>2
<1> QED BY <1>3 DEF Answer, ProjectKey, Cached, NotCached

LEMMA ProjectsAnswer ==
  ASSUME {r \in rows' : r.uuid \in Project} = {r \in rows : r.uuid \in Project}
  PROVE  Answer(ProjectsKey)' = Answer(ProjectsKey)
BY DEF Answer, ProjectsKey, Cached

LEMMA CalculationsAnswer ==
  ASSUME NEW p, GetCalculationsByProject(p)' = GetCalculationsByProject(p)
  PROVE  Answer(CalculationsKey(p))' = Answer(CalculationsKey(p))
BY DEF Answer, CalculationsKey, Cached

LEMMA SpatialAnswer ==
  ASSUME NEW p, GetSpatialLayersByProject(p)' = GetSpatialLayersByProject(p)
  PROVE  Answer(SpatialKey(p))' = Answer(SpatialKey(p))
BY DEF Answer, SpatialKey, Cached

(* The rows a write can change, for each kind of write.                      *)
LEMMA AddOneRow ==
  ASSUME NEW u, NEW p, NEW c, Add(One(u, p, c))
  PROVE  /\ \E r : rows' = rows \cup {r} /\ r.uuid = u /\ r.project = p /\ r.content = c
         /\ syncOperations \subseteq syncOperations' /\ ~Unused(u)'
         /\ \A o \in syncOperations' \ syncOperations : o.status = "pending"
<1>1. DOMAIN One(u, p, c) = {u} /\ One(u, p, c)[u] = [project |-> p, content |-> c]
  BY DEF One
<1>2. rows' = rows \cup {[id |-> tx, uuid |-> u, project |-> p, content |-> c]}
  BY <1>1 DEF Add
<1>3. syncOperations' =
        syncOperations \cup {Operation(u, "create", [project |-> p, content |-> c])}
  BY <1>1 DEF Add, QueueCreate
<1>4. LET o == Operation(u, "create", [project |-> p, content |-> c])
      IN  o.entityUuid = u /\ o.status = "pending"
  BY DEF Operation
<1>5. \E r : rows' = rows \cup {r} /\ r.uuid = u /\ r.project = p /\ r.content = c
  <2> DEFINE row == [id |-> tx, uuid |-> u, project |-> p, content |-> c]
  <2>1. row.uuid = u /\ row.project = p /\ row.content = c
    OBVIOUS
  <2> HIDE DEF row
  <2> QED BY <1>2, <2>1 DEF row
<1>6. /\ syncOperations \subseteq syncOperations' /\ ~Unused(u)'
      /\ \A o \in syncOperations' \ syncOperations : o.status = "pending"
  BY <1>3, <1>4 DEF Unused
<1> QED BY <1>5, <1>6
(* A write keeps what is queued, and an update or deletion adds to it.       *)
LEMMA Queued ==
  ASSUME NEW u, NEW kind, NEW data,
         syncOperations' = syncOperations \cup {Operation(u, kind, data)}
  PROVE  /\ syncOperations \subseteq syncOperations' /\ ~Unused(u)'
         /\ \A o \in syncOperations' \ syncOperations : o.status = "pending"
<1>1. Operation(u, kind, data).entityUuid = u /\ Operation(u, kind, data).status = "pending"
  BY DEF Operation
<1> QED BY <1>1 DEF Unused

\* What a write does to the tables and to the outbox, whatever its kind.
Adds(u, p) == \E r : rows' = rows \cup {r} /\ r.uuid = u /\ r.project = p
Queues == /\ syncOperations \subseteq syncOperations'
          /\ \A o \in syncOperations' \ syncOperations : o.status = "pending"

LEMMA TransactionDoes ==
  ASSUME NEW write \in Write, Transaction(write)
  PROVE  LET p == write.project
         IN  \/ /\ write.kind = "create" /\ Unused(p) /\ Adds(p, p) /\ Queues
                /\ ~Unused(p)'
             \/ /\ write.kind = "update" /\ Queues
                /\ \E c \in Content : rows' = Modified(p, c)
             \/ write.kind = "update" /\ UNCHANGED <<rows, syncOperations>>
             \/ /\ write.kind = "delete" /\ Queues /\ ~Unused(p)'
                /\ rows' = rows \ (CascadeOf(p) \cup RowsOf(p))
             \/ /\ write.kind = "calculation" /\ Queues
                /\ \E k \in Calculation : Adds(k, p) /\ ~Unused(k)'
             \/ /\ write.kind = "spatial" /\ Queues
                /\ \E l \in Layer : Adds(l, p) /\ ~Unused(l)'
<1> DEFINE p == write.project
<1>1. CASE write.kind = "create"
  <2>1. PICK c \in Content : Add(One(p, p, c))
    BY <1>1 DEF Transaction, CreateProject
  <2>2. Unused(p)
    BY <1>1 DEF Transaction
  <2> QED BY <1>1, <2>1, <2>2, AddOneRow DEF Adds, Queues
<1>2. CASE write.kind = "update" /\ \E c \in Content : UpdateProject(p, c)
  <2>1. PICK c \in Content : rows' = Modified(p, c) /\ QueueUpdate(p, c)
    BY <1>2 DEF UpdateProject
  <2>2. Queues
    BY <2>1, Queued DEF QueueUpdate, Queues
  <2> QED BY <1>2, <2>1, <2>2
<1>3. CASE write.kind = "update" /\ UNCHANGED dbVars
  BY <1>3 DEF dbVars
<1>4. CASE write.kind = "delete"
  <2>1. rows' = rows \ (CascadeOf(p) \cup RowsOf(p)) /\ QueueDelete(p)
    BY <1>4 DEF Transaction, DeleteProject
  <2>2. Queues /\ ~Unused(p)'
    BY <2>1, Queued DEF QueueDelete, Queues
  <2> QED BY <1>4, <2>1, <2>2
<1>5. CASE write.kind = "calculation"
  <2>1. PICK k \in Calculation, c \in Content : Add(One(k, p, c))
    BY <1>5 DEF Transaction, SaveCalculation
  <2> QED BY <1>5, <2>1, AddOneRow DEF Adds, Queues
<1>6. CASE write.kind = "spatial"
  <2>1. PICK l \in Layer, c \in Content : Add(One(l, p, c))
    BY <1>6 DEF Transaction, SaveSpatialLayer
  <2> QED BY <1>6, <2>1, AddOneRow DEF Adds, Queues
<1> QED BY <1>1, <1>2, <1>3, <1>4, <1>5, <1>6 DEF Transaction

(* The answers a write can change.                                           *)
LEMMA AnswersKept ==
  ASSUME DBTypeOK, NEW write \in Write, Transaction(write),
         NEW k \in Key, Answer(k)' # Answer(k)
  PROVE  \/ k \in Invalidated(write)
         \/ write.kind = "create" /\ k = ProjectKey(write.project)
         \/ /\ write.kind = "delete" /\ k.project = write.project
            /\ k.kind \in {"calculations", "spatial"}
<1> DEFINE p == write.project
           SameProject(q) == RowsOf(q)' = RowsOf(q)
           SameList == {r \in rows' : r.uuid \in Project} = {r \in rows : r.uuid \in Project}
           SameCalculations(q) == GetCalculationsByProject(q)' = GetCalculationsByProject(q)
           SameLayers(q) == GetSpatialLayersByProject(q)' = GetSpatialLayersByProject(q)
<1>1. p \in Project
  BY DEF Write
<1>2. \/ k = ProjectsKey /\ ~SameList
      \/ k.project \in Project /\ k = ProjectKey(k.project) /\ ~SameProject(k.project)
      \/ k.project \in Project /\ k = CalculationsKey(k.project) /\ ~SameCalculations(k.project)
      \/ k.project \in Project /\ k = SpatialKey(k.project) /\ ~SameLayers(k.project)
  BY Keys, ProjectAnswer, ProjectsAnswer, CalculationsAnswer, SpatialAnswer
<1>3. CASE write.kind = "create" /\ Adds(p, p)
  <2>1. /\ \A q \in Project : q # p => SameProject(q)
        /\ \A q \in Project : SameCalculations(q) /\ SameLayers(q)
    BY <1>1, <1>3, UuidAssumption
       DEF Adds, RowsOf, GetCalculationsByProject, GetSpatialLayersByProject
  <2> QED BY <1>2, <1>3, <2>1 DEF Invalidated
<1>4. CASE write.kind = "update" /\ \E c \in Content : rows' = Modified(p, c)
  <2>1. PICK c \in Content : rows' = Modified(p, c)
    BY <1>4
  <2> DEFINE changed(r) == [r EXCEPT !.content = c]
  <2>2. \A r \in RowsOf(p) : changed(r).uuid = p
    BY DEF RowsOf, DBTypeOK, Row
  <2>3. rows' = {r \in rows : r.uuid # p} \cup {changed(r) : r \in RowsOf(p)}
    BY <2>1 DEF Modified
  <2> HIDE DEF changed
  <2>4. \A r : r.uuid # p => (r \in rows' <=> r \in rows)
    BY <2>2, <2>3
  <2>5. /\ \A q \in Project : q # p => SameProject(q)
        /\ \A q \in Project : SameCalculations(q) /\ SameLayers(q)
    BY <1>1, <2>4, UuidAssumption
       DEF RowsOf, GetCalculationsByProject, GetSpatialLayersByProject
  <2> QED BY <1>2, <1>4, <2>5 DEF Invalidated
<1>5. CASE UNCHANGED rows
  BY <1>2, <1>5 DEF RowsOf, GetCalculationsByProject, GetSpatialLayersByProject
<1>6. CASE write.kind = "delete" /\ rows' = rows \ (CascadeOf(p) \cup RowsOf(p))
  <2>1. \A q \in Project : q # p =>
          SameProject(q) /\ SameCalculations(q) /\ SameLayers(q)
    BY <1>1, <1>6, UuidAssumption
       DEF RowsOf, CascadeOf, GetCalculationsByProject, GetSpatialLayersByProject
  <2> QED BY <1>2, <1>6, <2>1 DEF Invalidated, CalculationsKey, SpatialKey
<1>7. CASE write.kind = "calculation" /\ \E e \in Calculation : Adds(e, p)
  <2>1. /\ SameList
        /\ \A q \in Project : SameProject(q) /\ SameLayers(q)
                              /\ (q # p => SameCalculations(q))
    BY <1>1, <1>7, UuidAssumption
       DEF Adds, RowsOf, GetCalculationsByProject, GetSpatialLayersByProject
  <2> QED BY <1>2, <1>7, <2>1 DEF Invalidated
<1>8. CASE write.kind = "spatial" /\ \E e \in Layer : Adds(e, p)
  <2>1. /\ SameList
        /\ \A q \in Project : SameProject(q) /\ SameCalculations(q)
                              /\ (q # p => SameLayers(q))
    BY <1>1, <1>8, UuidAssumption
       DEF Adds, RowsOf, GetCalculationsByProject, GetSpatialLayersByProject
  <2> QED BY <1>2, <1>8, <2>1 DEF Invalidated
<1> QED BY <1>3, <1>4, <1>5, <1>6, <1>7, <1>8, TransactionDoes

-----------------------------------------------------------------------------
LEMMA QueuedStays ==
  ASSUME syncOperations \subseteq syncOperations', NEW u, ~Unused(u)
  PROVE  ~Unused(u)'
BY DEF Unused

LEMMA TransactionKeepsUsed ==
  ASSUME DBTypeOK, AllPending, UsedRows, NEW write \in Write, Transaction(write)
  PROVE  syncOperations \subseteq syncOperations' /\ AllPending' /\ UsedRows'
<1> DEFINE p == write.project
<1>1. Queues \/ UNCHANGED <<rows, syncOperations>>
  BY TransactionDoes
<1>2. syncOperations \subseteq syncOperations' /\ AllPending'
  BY <1>1 DEF Queues, AllPending
<1>3. ASSUME NEW r \in rows' PROVE ~Unused(r.uuid)'
  <2>1. \/ \E q \in rows : q.uuid = r.uuid
        \/ ~Unused(r.uuid)'
    <3>1. CASE \E u : Adds(u, p) /\ ~Unused(u)'
      BY <1>3, <3>1 DEF Adds
    <3>2. CASE rows' \subseteq rows
      BY <1>3, <3>2
    <3>3. CASE \E c \in Content : rows' = Modified(p, c)
      BY <1>3, <3>3 DEF Modified, RowsOf, DBTypeOK, Row
    <3> QED BY <3>1, <3>2, <3>3, TransactionDoes
  <2> QED BY <1>2, <2>1, QueuedStays DEF UsedRows
<1> QED BY <1>2, <1>3 DEF UsedRows

(* The closing of a service finds no completed operation to remove.          *)
LEMMA CloseKeepsOutbox ==
  ASSUME AllPending, NEW hook, Close(hook)
  PROVE  syncOperations' = syncOperations /\ rows' = rows
BY DEF Close, ClearOldSyncOperations, AllPending, dbVars

\* Nothing a cache entry is compared with has changed.
SameDatabase == rows' = rows /\ syncOperations' = syncOperations

LEMMA SameAnswers ==
  ASSUME SameDatabase
  PROVE  /\ \A k \in Key : Answer(k)' = Answer(k) /\ (Gone(k) => Gone(k)')
         /\ \A u : Unused(u)' = Unused(u)
BY DEF SameDatabase, Answer, GetProject, IsOldest, RowsOf, GetCalculationsByProject,
       GetSpatialLayersByProject, Gone, Unused, Cached, NotCached
(* A step that writes nothing and caches nothing new.                        *)
Shrinks ==
  /\ SameDatabase
  /\ \A h \in Hook, k \in Key : cache'[h][k].hit =>
       /\ cache'[h][k] = cache[h][k]
       /\ k \in foreign[h] => k \in foreign'[h]
       /\ k \in Invalidated(inFlight[h]) => k \in Invalidated(inFlight'[h])

LEMMA ProjectKeys == \A p \in Project : ProjectKey(p) \in Key
BY DEF ProjectKey, Key

LEMMA ShrinksKeeps == ASSUME CacheInv, Shrinks PROVE CacheInv'
<1>1. AllPending' /\ UsedRows'
  BY SameAnswers DEF Shrinks, SameDatabase, CacheInv, AllPending, UsedRows
<1>2. CachedUsed'
  BY SameAnswers, ProjectKeys DEF Shrinks, CacheInv, CachedUsed
<1>3. Visible'
  BY SameAnswers DEF Shrinks, CacheInv, Visible
<1> QED BY <1>1, <1>2, <1>3 DEF CacheInv

LEMMA GoneStays ==
  ASSUME DBTypeOK, NEW write \in Write, Transaction(write), NEW k \in Key, Gone(k)
  PROVE  Gone(k)'
<1> DEFINE p == write.project
<1>1. k.project \in Project
  BY DEF Gone, Key, ProjectsKey
<1>2. Queues \/ UNCHANGED <<rows, syncOperations>>
  BY TransactionDoes
<1>3. ~Unused(k.project)'
  BY <1>2, QueuedStays DEF Queues, Gone
<1>4. RowsOf(k.project)' = {}
  <2>1. CASE write.kind = "create" /\ Adds(p, p) /\ Unused(p)
    BY <1>1, <2>1 DEF Adds, Gone, RowsOf
  <2>2. CASE \E c \in Content : rows' = Modified(p, c)
    <3>1. \A r \in rows' : \E q \in rows : q.uuid = r.uuid
      BY <2>2 DEF Modified, RowsOf, DBTypeOK, Row
    <3> QED BY <3>1 DEF Gone, RowsOf
  <2>3. CASE rows' \subseteq rows
    BY <2>3 DEF Gone, RowsOf
  <2>4. CASE \E e \in Calculation \cup Layer : Adds(e, p)
    BY <1>1, <2>4, UuidAssumption DEF Adds, Gone, RowsOf
  <2> QED BY <2>1, <2>2, <2>3, <2>4, TransactionDoes
<1> QED BY <1>3, <1>4 DEF Gone

LEMMA CommitWriteKeeps ==
  ASSUME DBTypeOK, ServiceOK, CacheInv, NEW hook \in Hook, NEW write \in Write,
         CommitWrite(hook, write)
  PROVE  CacheInv'
<1>1. /\ Transaction(write) /\ cache' = cache
      /\ inFlight[hook] = NoWrite /\ inFlight' = [inFlight EXCEPT ![hook] = write]
      /\ foreign'[hook] = foreign[hook]
      /\ \A h \in Hook : h # hook => foreign'[h] = foreign[h] \cup
           {k \in Key : cache[h][k].hit /\ Answer(k)' # Answer(k)}
  BY DEF CommitWrite
<1>2. syncOperations \subseteq syncOperations' /\ AllPending' /\ UsedRows'
  BY <1>1, TransactionKeepsUsed DEF CacheInv
<1>3. CachedUsed'
  BY <1>1, <1>2, QueuedStays DEF CacheInv, CachedUsed
<1>4. Visible'
  <2> SUFFICES ASSUME NEW h \in Hook, NEW k \in Key, cache[h][k].hit
               PROVE  \/ cache[h][k] = Answer(k)'
                      \/ k \in Invalidated(inFlight'[h])
                      \/ k \in foreign'[h]
                      \/ Gone(k)'
    BY <1>1 DEF Visible
  <2>1. \/ cache[h][k] = Answer(k) \/ k \in Invalidated(inFlight[h])
        \/ k \in foreign[h] \/ Gone(k)
    BY DEF CacheInv, Visible
  <2>2. Gone(k) => Gone(k)'
    BY <1>1, GoneStays
  <2>3. CASE h # hook
    <3>1. inFlight'[h] = inFlight[h]
      BY <1>1, <2>3 DEF ServiceOK
    <3> QED BY <1>1, <2>1, <2>2, <2>3, <3>1
  <2>4. CASE h = hook /\ Answer(k)' = Answer(k)
    <3>1. Invalidated(inFlight[h]) = {}
      BY <1>1, <2>4 DEF Invalidated, NoWrite
    <3> QED BY <1>1, <2>1, <2>2, <2>4, <3>1
  <2>5. CASE h = hook /\ Answer(k)' # Answer(k)
    <3>1. CASE k \in Invalidated(write)
      BY <1>1, <2>5, <3>1 DEF ServiceOK
    <3>2. CASE write.kind = "create" /\ k = ProjectKey(write.project)
      <4>1. Unused(write.project) /\ write.project \in Project
        BY <1>1, <3>2 DEF Transaction, Write
      <4> QED BY <3>2, <4>1 DEF CacheInv, CachedUsed
    <3>3. CASE /\ write.kind = "delete" /\ k.project = write.project
               /\ k.kind \in {"calculations", "spatial"}
      <4>1. /\ rows' = rows \ (CascadeOf(k.project) \cup RowsOf(k.project))
            /\ ~Unused(k.project)'
        BY <1>1, <3>3, TransactionDoes
      <4> QED BY <3>3, <4>1 DEF Gone, RowsOf
    <3> QED BY <1>1, <2>5, <3>1, <3>2, <3>3, AnswersKept
  <2> QED BY <2>3, <2>4, <2>5
<1> QED BY <1>2, <1>3, <1>4 DEF CacheInv

LEMMA QueryKeeps ==
  ASSUME DBTypeOK, ServiceOK, CacheInv, NEW hook \in Hook, NEW key \in Key,
         Query(hook, key)
  PROVE  CacheInv'
<1>1. SameDatabase /\ inFlight' = inFlight
  BY DEF Query, SameDatabase
<1>2. CASE open
  <2>1. /\ cache' = [cache EXCEPT ![hook][key] = Answer(key)]
        /\ foreign' = [foreign EXCEPT ![hook] = @ \ {key}]
    BY <1>2 DEF Query
  <2>2. cache'[hook][key] = Answer(key)
    BY <2>1 DEF ServiceOK
  <2>3. \A h \in Hook, k \in Key : h # hook \/ k # key =>
          cache'[h][k] = cache[h][k] /\ (k \in foreign[h] => k \in foreign'[h])
    BY <2>1 DEF ServiceOK
  <2>4. AllPending' /\ UsedRows'
    BY <1>1, SameAnswers DEF SameDatabase, CacheInv, AllPending, UsedRows
  <2>5. CachedUsed'
    <3>1. \A p \in Project : Answer(ProjectKey(p)).hit => ~Unused(p)
      BY DEF Answer, ProjectKey, NotCached, RowsOf, CacheInv, UsedRows
    <3>2. \A h \in Hook, p \in Project : cache'[h][ProjectKey(p)].hit => ~Unused(p)
      BY <2>2, <2>3, <3>1, ProjectKeys DEF CacheInv, CachedUsed
    <3> QED BY <1>1, <3>2, SameAnswers DEF CachedUsed
  <2>6. Visible'
    BY <1>1, <2>2, <2>3, SameAnswers DEF CacheInv, Visible
  <2> QED BY <2>4, <2>5, <2>6 DEF CacheInv
<1>3. CASE ~open
  <2>1. Forget(hook, {key})
    BY <1>3 DEF Query
  <2>2. Shrinks
    BY <1>1, <2>1, ForgetOK DEF Shrinks, NotCached
  <2> QED BY <2>2, ShrinksKeeps
<1> QED BY <1>2, <1>3

LEMMA NextCacheInv ==
  ASSUME DBTypeOK, ServiceOK, CacheInv, [Next]_serviceVars
  PROVE  CacheInv'
<1>1. ASSUME NEW hook \in Hook, FinishWrite(hook) PROVE CacheInv'
  <2>1. /\ Forget(hook, Invalidated(inFlight[hook])) /\ SameDatabase
        /\ inFlight' = [inFlight EXCEPT ![hook] = NoWrite]
    BY <1>1 DEF FinishWrite, SameDatabase
  <2>2. Shrinks
    BY <2>1, ForgetOK DEF Shrinks, NotCached, ServiceOK
  <2> QED BY <2>2, ShrinksKeeps
<1>2. ASSUME NEW hook \in Hook, Unmount(hook) \/ RerunEffect(hook) PROVE CacheInv'
  <2>1. /\ Forget(hook, Key) /\ SameDatabase
        /\ inFlight' = [inFlight EXCEPT ![hook] = NoWrite]
    BY <1>2 DEF Unmount, RerunEffect, CleanUp, SameDatabase
  <2>2. Shrinks
    BY <2>1, ForgetOK DEF Shrinks, NotCached, ServiceOK
  <2> QED BY <2>2, ShrinksKeeps
<1>3. CASE Reload
  <2>1. Shrinks
    BY <1>3 DEF Reload, Shrinks, SameDatabase, Empty, NotCached, dbVars
  <2> QED BY <2>1, ShrinksKeeps
<1>4. ASSUME SameDatabase, UNCHANGED cacheVars PROVE CacheInv'
  <2>1. Shrinks
    BY <1>4 DEF Shrinks, cacheVars
  <2> QED BY <2>1, ShrinksKeeps
<1>5. ASSUME NEW hook \in Hook,
             Mount(hook) \/ Opened(hook) \/ Started(hook) \/ UnmountEarly(hook)
      PROVE  CacheInv'
  BY <1>4, <1>5 DEF Mount, Opened, Started, UnmountEarly, SameDatabase, cacheVars
<1>6. ASSUME NEW hook \in Hook, Close(hook) PROVE CacheInv'
  <2>1. UNCHANGED cacheVars
    BY <1>6 DEF Close, cacheVars
  <2>2. SameDatabase
    BY <1>6, CloseKeepsOutbox DEF CacheInv, SameDatabase
  <2> QED BY <1>4, <2>1, <2>2
<1>7. CASE UNCHANGED serviceVars
  BY <1>4, <1>7 DEF serviceVars, SameDatabase, cacheVars
<1> QED BY <1>1, <1>2, <1>3, <1>5, <1>6, <1>7, CommitWriteKeeps, QueryKeeps
        DEF Next, Operate, Live

LEMMA InitCacheInv == Init => CacheInv
<1> SUFFICES ASSUME Init PROVE CacheInv
  OBVIOUS
<1>1. \A h \in Hook, k \in Key : ~cache[h][k].hit
  BY DEF Init, Empty, NotCached
<1> QED BY <1>1, ProjectKeys
        DEF Init, DBInit, CacheInv, AllPending, UsedRows, CachedUsed, Visible

(* No hook's cache shows it an old value after its own write has returned.   *)
THEOREM HooksSeeOwnWrites == Spec => []OwnWritesVisible
<1>1. Init => CacheInv
  BY InitCacheInv
<1>2. DBTypeOK /\ ServiceOK /\ CacheInv /\ [Next]_serviceVars => CacheInv'
  BY NextCacheInv
<1>3. CacheInv => OwnWritesVisible
  BY DEF CacheInv, Visible, OwnWritesVisible, Gone
<1> QED BY <1>1, <1>2, <1>3, ServicesImplementDatabase, TypeCorrect, PTL DEF Spec

-----------------------------------------------------------------------------
(***************************************************************************)
(* The offline service of a single hook implements ProjectStore, for every *)
(* set of projects and contents.  The mapping is Stored and Served of      *)
(* OfflineService: what the database holds, and what the hook would read.  *)
(***************************************************************************)
(* What the refinement needs besides CacheInv: a project has one row, since  *)
(* its uuid is used once, and nobody else changes what the hook has cached.  *)
OneRow == \A p \in Project : \A r, s \in RowsOf(p) : r = s
NoForeign == \A h \in Hook : foreign[h] = {}

Current(p) == ContentIn(GetProject(p))
Read(h, p) ==
  ContentIn(IF cache[h][ProjectKey(p)].hit THEN cache[h][ProjectKey(p)].rows
            ELSE GetProject(p))

LEMMA Mapping ==
  ASSUME NEW h, Hook = {h}
  PROVE  /\ Stored = [p \in Project |-> Current(p)]
         /\ Served = [p \in Project |-> Read(h, p)]
         /\ Stored' = [p \in Project |-> Current(p)']
         /\ Served' = [p \in Project |-> Read(h, p)']
<1>1. (CHOOSE g \in Hook : TRUE) = h
  OBVIOUS
<1> QED BY <1>1 DEF Stored, Served, Current, Read

LEMMA NextNoForeign ==
  ASSUME NEW h, Hook = {h}, ServiceOK, NoForeign, [Next]_serviceVars
  PROVE  NoForeign'
<1>1. ASSUME NEW write \in Write, CommitWrite(h, write) PROVE NoForeign'
  BY <1>1 DEF CommitWrite, NoForeign
<1>2. ASSUME NEW keys, Forget(h, keys) PROVE NoForeign'
  BY <1>2 DEF Forget, ServiceOK, NoForeign
<1>3. ASSUME NEW key \in Key, Query(h, key) PROVE NoForeign'
  BY <1>2, <1>3 DEF Query, ServiceOK, NoForeign
<1>4. ASSUME FinishWrite(h) \/ Unmount(h) \/ RerunEffect(h) PROVE NoForeign'
  BY <1>2, <1>4 DEF FinishWrite, Unmount, RerunEffect, CleanUp
<1>5. ASSUME Mount(h) \/ Opened(h) \/ Started(h) \/ UnmountEarly(h) \/ Close(h)
      PROVE  NoForeign'
  BY <1>5 DEF Mount, Opened, Started, UnmountEarly, Close, NoForeign
<1>6. CASE Reload
  BY <1>6 DEF Reload, NoForeign
<1>7. CASE UNCHANGED serviceVars
  BY <1>7 DEF serviceVars, NoForeign
<1> QED BY <1>1, <1>3, <1>4, <1>5, <1>6, <1>7 DEF Next, Operate, Live

(* A project's row is added only when its uuid was never used.               *)
LEMMA TransactionOneRow ==
  ASSUME DBTypeOK, UsedRows, OneRow, NEW write \in Write, Transaction(write)
  PROVE  OneRow'
<1> DEFINE p == write.project
<1>0. p \in Project
  BY DEF Write
<1>1. CASE Unused(p) /\ Adds(p, p)
  <2>1. \A r \in rows : r.uuid # p
    BY <1>1 DEF UsedRows
  <2> QED BY <1>1, <2>1 DEF Adds, OneRow, RowsOf
<1>2. CASE \E c \in Content : rows' = Modified(p, c)
  <2>1. PICK c \in Content : rows' = Modified(p, c)
    BY <1>2
  <2>2. \A r \in RowsOf(p) : [r EXCEPT !.content = c].uuid = p
    BY DEF RowsOf, DBTypeOK, Row
  <2>3. \A q \in Project : q # p => RowsOf(q)' = RowsOf(q)
    BY <2>1, <2>2 DEF Modified, RowsOf
  <2>4. RowsOf(p)' = {[r EXCEPT !.content = c] : r \in RowsOf(p)}
    BY <2>1, <2>2 DEF Modified, RowsOf
  <2> QED BY <1>0, <2>3, <2>4 DEF OneRow
<1>3. CASE rows' \subseteq rows
  BY <1>3 DEF OneRow, RowsOf
<1>4. CASE \E e \in Calculation \cup Layer : Adds(e, p)
  BY <1>4, UuidAssumption DEF Adds, OneRow, RowsOf
<1> QED BY <1>1, <1>2, <1>3, <1>4, TransactionDoes

LEMMA NextOneRow ==
  ASSUME DBTypeOK, CacheInv, OneRow, [Next]_serviceVars
  PROVE  OneRow'
<1>1. ASSUME NEW hook \in Hook, NEW write \in Write, CommitWrite(hook, write)
      PROVE  OneRow'
  BY <1>1, TransactionOneRow DEF CommitWrite, CacheInv
<1>2. ASSUME rows' = rows PROVE OneRow'
  BY <1>2 DEF OneRow, RowsOf
<1>3. ASSUME NEW hook \in Hook, Close(hook) PROVE rows' = rows
  BY <1>3, CloseKeepsOutbox DEF CacheInv
<1>4. ASSUME NEW hook \in Hook,
             \/ FinishWrite(hook) \/ \E key \in Key : Query(hook, key)
             \/ Mount(hook) \/ Opened(hook) \/ Started(hook) \/ UnmountEarly(hook)
             \/ Unmount(hook) \/ RerunEffect(hook)
      PROVE  rows' = rows
  BY <1>4 DEF FinishWrite, Query, Mount, Opened, Started, UnmountEarly, Unmount,
              RerunEffect, CleanUp
<1>5. CASE Reload \/ UNCHANGED serviceVars
  BY <1>2, <1>5 DEF Reload, serviceVars, dbVars
<1> QED BY <1>1, <1>2, <1>3, <1>4, <1>5 DEF Next, Operate, Live

-----------------------------------------------------------------------------
(* Only the project of the write in flight can be read stale.                *)
LEMMA StaleOnlyInFlight ==
  ASSUME NEW h, Hook = {h}, ServiceOK, CacheInv, NoForeign, NEW p \in Project
  PROVE  \/ Read(h, p) = Current(p)
         \/ inFlight[h] # NoWrite /\ p = inFlight[h].project
<1>1. CASE ~cache[h][ProjectKey(p)].hit
  BY <1>1 DEF Read, Current
<1>2. CASE cache[h][ProjectKey(p)].hit
  <2>1. \/ cache[h][ProjectKey(p)] = Answer(ProjectKey(p))
        \/ ProjectKey(p) \in Invalidated(inFlight[h])
    BY <1>2, ProjectKeys DEF CacheInv, Visible, NoForeign, Gone, ProjectKey
  <2>2. CASE cache[h][ProjectKey(p)] = Answer(ProjectKey(p))
    <3>1. Answer(ProjectKey(p)) = Cached(GetProject(p))
      BY <1>2, <2>2 DEF Answer, ProjectKey, NotCached
    <3> QED BY <2>2, <3>1 DEF Cached, Read, Current
  <2>3. CASE ProjectKey(p) \in Invalidated(inFlight[h])
    <3>1. inFlight[h].kind \in {"none", "create", "update", "delete", "calculation",
                                 "spatial"}
      BY DEF ServiceOK, Write, NoWrite
    <3>2. inFlight[h].kind \in {"update", "delete"} /\ p = inFlight[h].project
      BY <2>3, <3>1 DEF Invalidated, ProjectKey, ProjectsKey, CalculationsKey, SpatialKey
    <3> QED BY <3>2 DEF NoWrite
  <2> QED BY <2>1, <2>2, <2>3
<1> QED BY <1>1, <1>2

(* A step that keeps the rows, after which every project is read as before   *)
(* or as it is stored, is an acknowledgement or a stutter.                   *)
LEMMA AcknowledgeOrStutter ==
  ASSUME NEW h, Hook = {h}, ServiceOK, CacheInv, NoForeign, rows' = rows,
         \A p \in Project : Read(h, p)' \in {Read(h, p), Current(p)}
  PROVE  [Store!Next]_(Store!storeVars)
<1>1. \A p \in Project : Current(p)' = Current(p)
  BY DEF Current, GetProject, IsOldest, RowsOf
<1>2. Stored' = Stored
  BY <1>1, Mapping
<1>3. CASE \A p \in Project : Read(h, p)' = Current(p)
  <2>1. Served' = Stored
    BY <1>3, Mapping
  <2> QED BY <1>2, <2>1 DEF Store!Next, Store!Acknowledge
<1>4. CASE \E p \in Project : Read(h, p)' # Current(p)
  <2>1. PICK p \in Project : Read(h, p)' # Current(p)
    BY <1>4
  <2>2. Read(h, p)' = Read(h, p)
    BY <2>1
  <2>3. p = inFlight[h].project
    BY <2>1, <2>2, StaleOnlyInFlight
  <2>4. \A q \in Project : Read(h, q)' = Read(h, q)
    BY <2>2, <2>3, StaleOnlyInFlight
  <2>5. Served' = Served
    BY <2>4, Mapping
  <2> QED BY <1>2, <2>5 DEF Store!storeVars
<1> QED BY <1>3, <1>4

(* The one row of a project is the one its readers get.                      *)
LEMMA LoneProject ==
  ASSUME NEW p \in Project
  PROVE  /\ DBTypeOK /\ OneRow => GetProject(p) = RowsOf(p)
         /\ DBTypeOK' /\ OneRow' => GetProject(p)' = RowsOf(p)'
<1>1. ASSUME DBTypeOK, OneRow PROVE GetProject(p) = RowsOf(p)
  <2>1. GetProject(p) = {r \in RowsOf(p) : \A s \in RowsOf(p) : r.id <= s.id}
    BY DEF GetProject, IsOldest, RowsOf
  <2>2. \A r \in RowsOf(p) : r.id \in Nat
    BY <1>1 DEF DBTypeOK, RowsOf, Row
  <2>3. \A r, s \in RowsOf(p) : r = s
    BY <1>1 DEF OneRow
  <2>4. \A r, s \in RowsOf(p) : r.id <= s.id
    BY <2>2, <2>3
  <2> QED BY <2>1, <2>4
<1>2. ASSUME DBTypeOK', OneRow' PROVE GetProject(p)' = RowsOf(p)'
  <2>1. PICK S : S = RowsOf(p)'
    OBVIOUS
  <2>2. GetProject(p)' = {r \in S : \A s \in S : r.id <= s.id}
    BY <2>1 DEF GetProject, IsOldest, RowsOf
  <2>3. \A r \in S : r.id \in Nat
    BY <1>2, <2>1 DEF DBTypeOK, RowsOf, Row
  <2>4. \A r, s \in S : r = s
    BY <1>2, <2>1 DEF OneRow
  <2>5. \A r, s \in S : r.id <= s.id
    BY <2>3, <2>4
  <2> QED BY <2>1, <2>2, <2>5
<1> QED BY <1>1, <1>2

(* The transaction of a write stores one project's new content, or nothing.  *)
LEMMA TransactionStores ==
  ASSUME DBTypeOK, DBTypeOK', UsedRows, OneRow, OneRow',
         NEW write \in Write, Transaction(write)
  PROVE  LET p == write.project
         IN  /\ \A q \in Project : q # p => GetProject(q)' = GetProject(q)
             /\ \/ GetProject(p)' = GetProject(p)
                \/ \E c \in Content \cup {None} : Current(p)' = c
<1> DEFINE p == write.project
<1>0. p \in Project
  BY DEF Write
<1>1. CASE write.kind = "create"
  <2>1. PICK c \in Content : Add(One(p, p, c))
    BY <1>1 DEF Transaction, CreateProject
  <2>2. PICK r : rows' = rows \cup {r} /\ r.uuid = p /\ r.content = c
    BY <2>1, AddOneRow
  <2>3. RowsOf(p) = {}
    BY <1>1 DEF Transaction, UsedRows, RowsOf
  <2>4. RowsOf(p)' = {r} /\ \A q \in Project : q # p => RowsOf(q)' = RowsOf(q)
    BY <2>2, <2>3 DEF RowsOf
  <2>5. Current(p)' = c
    BY <1>0, <2>2, <2>4, LoneProject DEF Current, ContentIn
  <2> QED BY <2>4, <2>5, ProjectAnswer
<1>2. CASE \E c \in Content : UpdateProject(p, c)
  <2>1. PICK c \in Content : UpdateProject(p, c)
    BY <1>2
  <2>2. rows' = Modified(p, c) /\ RowsOf(p) # {}
    BY <2>1 DEF UpdateProject
  <2>3. \A r \in RowsOf(p) : [r EXCEPT !.content = c].uuid = p
                             /\ [r EXCEPT !.content = c].content = c
    BY DEF RowsOf, DBTypeOK, Row
  <2>4. \A q \in Project : q # p => RowsOf(q)' = RowsOf(q)
    BY <2>2, <2>3 DEF Modified, RowsOf
  <2>5. RowsOf(p)' # {} /\ \A r \in RowsOf(p)' : r.content = c
    BY <2>2, <2>3 DEF Modified, RowsOf
  <2>6. Current(p)' = c
    BY <1>0, <2>5, LoneProject DEF Current, ContentIn
  <2> QED BY <2>4, <2>6, ProjectAnswer
<1>3. CASE write.kind = "update" /\ UNCHANGED dbVars
  <2>1. \A q : RowsOf(q)' = RowsOf(q)
    BY <1>3 DEF dbVars, RowsOf
  <2> QED BY <2>1, ProjectAnswer
<1>4. CASE write.kind = "delete"
  <2>1. rows' = rows \ (CascadeOf(p) \cup RowsOf(p))
    BY <1>4 DEF Transaction, DeleteProject
  <2>2. \A q \in Project : q # p => RowsOf(q)' = RowsOf(q)
    BY <2>1, UuidAssumption DEF CascadeOf, RowsOf
  <2>3. RowsOf(p)' = {}
    BY <2>1 DEF RowsOf
  <2>4. Current(p)' = None
    BY <1>0, <2>3, LoneProject DEF Current, ContentIn
  <2> QED BY <2>2, <2>4, ProjectAnswer
<1>5. CASE \E e \in Calculation \cup Layer : Adds(e, p)
  <2>1. \A q \in Project : RowsOf(q)' = RowsOf(q)
    BY <1>5, UuidAssumption DEF Adds, RowsOf
  <2> QED BY <1>0, <2>1, ProjectAnswer
<1> QED BY <1>1, <1>2, <1>3, <1>4, <1>5, TransactionDoes DEF Transaction

-----------------------------------------------------------------------------
(* A committed write is a Put, or changes no project.                        *)
LEMMA CommitWriteStores ==
  ASSUME NEW h, Hook = {h}, DBTypeOK, DBTypeOK', ServiceOK, CacheInv, NoForeign,
         OneRow, OneRow', NEW write \in Write, CommitWrite(h, write)
  PROVE  [Store!Next]_(Store!storeVars)
<1> DEFINE p == write.project
<1>1. /\ Transaction(write) /\ cache' = cache /\ inFlight[h] = NoWrite
      /\ p \in Project /\ UsedRows
  BY DEF CommitWrite, Write, CacheInv
<1>2. \A q \in Project : Read(h, q) = Current(q)
  BY <1>1, StaleOnlyInFlight
<1>3. Served = Stored
  BY <1>2, Mapping
<1>4. /\ \A q \in Project : q # p => GetProject(q)' = GetProject(q)
      /\ \/ GetProject(p)' = GetProject(p)
         \/ \E c \in Content \cup {None} : Current(p)' = c
  BY <1>1, TransactionStores
<1>5. \A q \in Project : GetProject(q)' = GetProject(q) =>
        Current(q)' = Current(q) /\ Read(h, q)' = Read(h, q)
  BY <1>1 DEF Current, Read
<1>6. Read(h, p)' \in {Read(h, p), Current(p)'}
  BY <1>1 DEF Current, Read
<1>7. CASE GetProject(p)' = GetProject(p)
  <2>1. Stored' = Stored /\ Served' = Served
    BY <1>4, <1>5, <1>7, Mapping
  <2> QED BY <2>1 DEF Store!storeVars
<1>8. CASE \E c \in Content \cup {None} : Current(p)' = c
  <2>1. PICK c \in Content \cup {None} : Current(p)' = c
    BY <1>8
  <2>2. Stored' = [Stored EXCEPT ![p] = c]
    BY <1>1, <1>4, <1>5, <2>1, Mapping
  <2>3. Served' \in {Served, Stored'}
    <3>1. \A q \in Project : q # p => Read(h, q)' = Read(h, q)
                                      /\ Read(h, q)' = Current(q)'
      BY <1>2, <1>4, <1>5
    <3>2. CASE Read(h, p)' = Read(h, p)
      BY <3>1, <3>2, Mapping
    <3>3. CASE Read(h, p)' = Current(p)'
      BY <3>1, <3>3, Mapping
    <3> QED BY <1>6, <3>2, <3>3
  <2>4. Store!Put(p, c)
    BY <1>3, <2>2, <2>3 DEF Store!Put
  <2> QED BY <1>1, <2>1, <2>4 DEF Store!Next
<1> QED BY <1>4, <1>7, <1>8

(* A query, and every step that forgets cached entries.                      *)
LEMMA ForgetReads ==
  ASSUME NEW h \in Hook, ServiceOK, NEW keys, Forget(h, keys), rows' = rows
  PROVE  \A p \in Project : Read(h, p)' \in {Read(h, p), Current(p)}
<1>1. \A p \in Project : GetProject(p)' = GetProject(p)
  BY DEF GetProject, IsOldest, RowsOf
<1>2. \A p \in Project : LET entry == cache'[h][ProjectKey(p)]
                         IN  entry = cache[h][ProjectKey(p)] \/ entry = NotCached
  BY ForgetOK, ProjectKeys
<1> QED BY <1>1, <1>2 DEF Read, Current, NotCached

LEMMA QueryReads ==
  ASSUME NEW h \in Hook, ServiceOK, NEW key \in Key, Query(h, key)
  PROVE  \A p \in Project : Read(h, p)' \in {Read(h, p), Current(p)}
<1>1. CASE ~open
  BY <1>1, ForgetReads DEF Query
<1>2. CASE open
  <2>1. \A p \in Project : GetProject(p)' = GetProject(p)
    BY DEF Query, GetProject, IsOldest, RowsOf
  <2>2. \A p \in Project : LET entry == cache'[h][ProjectKey(p)]
                           IN  \/ entry = cache[h][ProjectKey(p)]
                               \/ entry = Answer(ProjectKey(p))
    BY <1>2, ProjectKeys DEF Query, ServiceOK
  <2>3. \A p \in Project : \/ Answer(ProjectKey(p)) = NotCached
                           \/ Answer(ProjectKey(p)) = Cached(GetProject(p))
    BY DEF Answer, ProjectKey
  <2> QED BY <2>1, <2>2, <2>3 DEF Read, Current, Cached, NotCached
<1> QED BY <1>1, <1>2

-----------------------------------------------------------------------------
LEMMA StepMaps ==
  ASSUME NEW h, Hook = {h}, DBTypeOK, DBTypeOK', ServiceOK, CacheInv, NoForeign,
         OneRow, OneRow', [Next]_serviceVars
  PROVE  [Store!Next]_(Store!storeVars)
<1>1. ASSUME NEW write \in Write, CommitWrite(h, write)
      PROVE  [Store!Next]_(Store!storeVars)
  BY <1>1, CommitWriteStores
<1>2. ASSUME NEW key \in Key, Query(h, key)
      PROVE  [Store!Next]_(Store!storeVars)
  BY <1>2, QueryReads, AcknowledgeOrStutter DEF Query
<1>3. ASSUME FinishWrite(h) \/ Unmount(h) \/ RerunEffect(h)
      PROVE  [Store!Next]_(Store!storeVars)
  <2>1. \E keys : Forget(h, keys) /\ rows' = rows
    BY <1>3 DEF FinishWrite, Unmount, RerunEffect, CleanUp
  <2> QED BY <2>1, ForgetReads, AcknowledgeOrStutter
<1>4. ASSUME rows' = rows, cache' = cache
      PROVE  [Store!Next]_(Store!storeVars)
  <2>1. \A p \in Project : Read(h, p)' = Read(h, p)
    BY <1>4 DEF Read, GetProject, IsOldest, RowsOf
  <2> QED BY <1>4, <2>1, AcknowledgeOrStutter
<1>5. ASSUME Mount(h) \/ Opened(h) \/ Started(h) \/ UnmountEarly(h)
      PROVE  [Store!Next]_(Store!storeVars)
  BY <1>4, <1>5 DEF Mount, Opened, Started, UnmountEarly
<1>6. ASSUME Close(h) PROVE [Store!Next]_(Store!storeVars)
  <2>1. rows' = rows /\ cache' = cache
    BY <1>6, CloseKeepsOutbox DEF Close, CacheInv
  <2> QED BY <1>4, <2>1
<1>7. CASE Reload
  <2>1. rows' = rows /\ cache'[h] = Empty
    BY <1>7 DEF Reload, dbVars
  <2>2. \A p \in Project : Read(h, p)' = Current(p)
    BY <2>1, ProjectKeys DEF Read, Current, Empty, NotCached, GetProject, IsOldest, RowsOf
  <2> QED BY <2>1, <2>2, AcknowledgeOrStutter
<1>8. CASE UNCHANGED serviceVars
  BY <1>4, <1>8 DEF serviceVars
<1> QED BY <1>1, <1>2, <1>3, <1>5, <1>6, <1>7, <1>8 DEF Next, Operate, Live

(* The only component that uses the service sees a store of projects that    *)
(* returns what it wrote last (EnhancedOfflineService, projects).            *)
THEOREM SingleHookServesStore ==
  ASSUME NEW h, Hook = {h}
  PROVE  Spec => ServesStore
<1>1. Init => CacheInv /\ NoForeign /\ OneRow /\ Store!Init
  <2> SUFFICES ASSUME Init PROVE CacheInv /\ NoForeign /\ OneRow /\ Store!Init
    OBVIOUS
  <2>1. CacheInv
    BY InitCacheInv
  <2>2. NoForeign /\ OneRow
    BY DEF Init, DBInit, NoForeign, OneRow, RowsOf
  <2>3. \A p \in Project : Current(p) = None /\ Read(h, p) = None
    BY ProjectKeys DEF Init, DBInit, Current, Read, GetProject, RowsOf, ContentIn,
                       Empty, NotCached
  <2>4. Store!Init
    BY <2>3, Mapping DEF Store!Init
  <2> QED BY <2>1, <2>2, <2>4
<1>2. DBTypeOK /\ ServiceOK /\ CacheInv /\ NoForeign /\ OneRow /\ [Next]_serviceVars
      => CacheInv' /\ NoForeign' /\ OneRow'
  BY NextCacheInv, NextNoForeign, NextOneRow
<1>3. /\ DBTypeOK /\ DBTypeOK' /\ ServiceOK /\ CacheInv /\ NoForeign /\ OneRow
      /\ OneRow' /\ [Next]_serviceVars
      => [Store!Next]_(Store!storeVars)
  BY StepMaps
<1> QED BY <1>1, <1>2, <1>3, ServicesImplementDatabase, TypeCorrect, PTL
        DEF Spec, ServesStore, Store!Spec

=============================================================================
