--------------------------- MODULE OfflineDatabase ---------------------------
(***************************************************************************)
(* frontend/lib/database/DexieDatabase.ts: the IndexedDB database of the   *)
(* offline-first client.  Every write is one Dexie transaction over an     *)
(* entity table and the outbox syncOperations, and is one action here.     *)
(*                                                                         *)
(* rows holds the four entity tables; the set a uuid belongs to says which *)
(* table its rows are in.  The index on uuid is not unique, so a uuid may  *)
(* have several rows.  id stands for the auto-incremented key: it is the   *)
(* number of the transaction that added the row, which orders the rows of  *)
(* one uuid as their keys do.                                              *)
(*                                                                         *)
(* replica is a history variable: what a server would hold that started    *)
(* empty and applied every queued operation in the order it was queued.    *)
(* No such server is in the repository; the docs promise it ("Sync Queue   *)
(* -> Cloud Databases"), and replica says what that promise needs of the   *)
(* outbox.                                                                 *)
(***************************************************************************)
EXTENDS Naturals, FiniteSets

CONSTANTS
  Project, Segment, Calculation, Layer,   \* the uuids of each kind of entity
  Content,          \* what an entity's data can be
  None,             \* a field that is not given
  MaxTransactions,  \* bound: write transactions in a behaviour
  MaxMarked,        \* bound: operations in the outbox that are not pending
  MaxRetries        \* bound: failures recorded for one operation

Uuid == Project \cup Segment \cup Calculation \cup Layer

ASSUME UuidAssumption ==
  /\ Project \cap (Segment \cup Calculation \cup Layer) = {}
  /\ Segment \cap (Calculation \cup Layer) = {}
  /\ Calculation \cap Layer = {}
ASSUME NoneAssumption == None \notin Uuid \cup Content
ASSUME BoundsAssumption ==
  MaxTransactions \in Nat /\ MaxMarked \in Nat /\ MaxRetries \in Nat

VARIABLES
  rows,             \* projects, projectSegments, calculations, spatialData
  syncOperations,   \* the outbox
  tx,               \* write transactions so far; the next key
  replica           \* history: the server that applied every operation

dbVars == <<rows, syncOperations, tx, replica>>

-----------------------------------------------------------------------------
\* The owner of an entity and its data; a project's own row carries its uuid.
Copy == [project : Project, content : Content]
Absent == [project |-> None, content |-> None]
Data == [project : Project \cup {None}, content : Content \cup {None}]

Row == [id : Nat, uuid : Uuid, project : Project, content : Content]
SyncOperation ==
  [id : Nat, entityUuid : Uuid, operation : {"create", "update", "delete"},
   data : Data, status : {"pending", "failed", "completed"}, retryCount : Nat]

RowsOf(uuid) == {r \in rows : r.uuid = uuid}
IsOldest(r) == \A s \in RowsOf(r.uuid) : r.id <= s.id
IsNewest(r) == \A s \in RowsOf(r.uuid) : s.id <= r.id

\* deleteProject deletes these with the project; projectSegments it does not.
\* Mutant: the layers of the project are forgotten.
CascadeOfCalculationsOnly(project) ==
  {r \in rows : r.uuid \in Calculation /\ r.project = project}
CascadeOf(project) ==
  {r \in rows : r.uuid \in Calculation \cup Layer /\ r.project = project}

\* getProject: .first() of an index is the row with the lowest key.
GetProject(project) == {r \in RowsOf(project) : IsOldest(r)}
GetCalculationsByProject(project) ==
  {r \in rows : r.uuid \in Calculation /\ r.project = project}
GetSpatialLayersByProject(project) ==
  {r \in rows : r.uuid \in Layer /\ r.project = project}
GetProjectSegments(project) ==
  {r \in rows : r.uuid \in Segment /\ r.project = project}
GetPendingSyncOperations == {o \in syncOperations : o.status = "pending"}

-----------------------------------------------------------------------------
\* What each queued operation does to the server's copies.
Created(copies, new) ==
  [e \in Uuid |-> IF e \in DOMAIN new THEN new[e] ELSE copies[e]]
Updated(copies, uuid, content) ==
  IF copies[uuid] = Absent THEN copies
  ELSE [copies EXCEPT ![uuid].content = content]
Deleted(copies, uuid) ==
  [e \in Uuid |->
     IF \/ e = uuid
        \/ e \in Calculation \cup Layer /\ copies[e].project = uuid
     THEN Absent ELSE copies[e]]

Operation(uuid, operation, data) ==
  [id |-> tx, entityUuid |-> uuid, operation |-> operation, data |-> data,
   status |-> "pending", retryCount |-> 0]

\* queueSyncOperation for one operation, and for each new entity of a transaction.
QueueCreate(new) ==
  /\ syncOperations' =
       syncOperations \cup {Operation(e, "create", new[e]) : e \in DOMAIN new}
  /\ replica' = Created(replica, new)
QueueUpdate(uuid, content) ==
  /\ syncOperations' = syncOperations \cup
       {Operation(uuid, "update", [project |-> None, content |-> content])}
  /\ replica' = Updated(replica, uuid, content)
QueueDelete(uuid) ==
  /\ syncOperations' = syncOperations \cup {Operation(uuid, "delete", Absent)}
  /\ replica' = Deleted(replica, uuid)

\* A committed transaction.
Commit ==
  /\ tx < MaxTransactions
  /\ tx' = tx + 1

\* add or bulkAdd of new, a function from uuids to copies, with its operations.
Add(new) ==
  /\ Commit
  /\ rows' = rows \cup
       {[id |-> tx, uuid |-> e, project |-> new[e].project,
         content |-> new[e].content] : e \in DOMAIN new}
  /\ QueueCreate(new)

\* where('uuid').equals(uuid).modify(...): every row of the uuid.
Modified(uuid, content) ==
  {r \in rows : r.uuid # uuid} \cup
  {[r EXCEPT !.content = content] : r \in RowsOf(uuid)}

One(uuid, project, content) ==
  [e \in {uuid} |-> [project |-> project, content |-> content]]

-----------------------------------------------------------------------------
CreateProject(project, content) == Add(One(project, project, content))

\* Mutant: the number of modified rows is not looked at.
UpdateProjectUnchecked(project, content) ==
  /\ Commit
  /\ rows' = Modified(project, content)
  /\ QueueUpdate(project, content)

\* Queued only when the modify() changed a row.
UpdateProject(project, content) ==
  /\ RowsOf(project) # {}
  /\ Commit
  /\ rows' = Modified(project, content)
  /\ QueueUpdate(project, content)

DeleteProject(project) ==
  /\ Commit
  /\ rows' = rows \ (CascadeOf(project) \cup RowsOf(project))
  /\ QueueDelete(project)

\* The callers make a fresh uuid for every calculation and layer they save.
\* Neither transaction looks at projects: the project may be gone.
SaveCalculation(calculation, project, content) ==
  /\ RowsOf(calculation) = {}
  /\ Add(One(calculation, project, content))

SaveSpatialLayer(layer, project, content) ==
  /\ RowsOf(layer) = {}
  /\ Add(One(layer, project, content))

\* Queued only when the modify() changed a row.
UpdateSpatialLayer(layer, content) ==
  /\ RowsOf(layer) # {}
  /\ Commit
  /\ rows' = Modified(layer, content)
  /\ QueueUpdate(layer, content)

SaveProjectSegment(segment, project, content) ==
  Add(One(segment, project, content))

\* Queued whether or not a row of the segment exists.
UpdateProjectSegment(segment, content) ==
  /\ Commit
  /\ rows' = Modified(segment, content)
  /\ QueueUpdate(segment, content)

DeleteProjectSegment(segment) ==
  /\ Commit
  /\ rows' = rows \ RowsOf(segment)
  /\ QueueDelete(segment)

\* One transaction for all segments, one operation for each of them.
BulkSaveProjectSegments(segments) == Add(segments)

-----------------------------------------------------------------------------
\* A sync worker may mark any operation it has seen, whatever its status is now.
Mark(op, marked) ==
  /\ op.status # "pending"
     \/ Cardinality({o \in syncOperations : o.status # "pending"}) < MaxMarked
  /\ syncOperations' = (syncOperations \ {op}) \cup {marked}
  /\ UNCHANGED <<rows, tx, replica>>

MarkSyncOperationCompleted(op) == Mark(op, [op EXCEPT !.status = "completed"])

\* Mutant: a status the table does not know.
MarkSyncOperationError(op) ==
  /\ op.retryCount < MaxRetries
  /\ Mark(op, [op EXCEPT !.status = "error", !.retryCount = @ + 1])

MarkSyncOperationFailed(op) ==
  /\ op.retryCount < MaxRetries
  /\ Mark(op, [op EXCEPT !.status = "failed", !.retryCount = @ + 1])

\* Mutant: clears whatever is old.
ClearAllOldSyncOperations(cutoff) ==
  /\ syncOperations' = {o \in syncOperations : o.id >= cutoff}
  /\ UNCHANGED <<rows, tx, replica>>

\* The completed operations queued before the cut-off date.
ClearOldSyncOperations(cutoff) ==
  /\ syncOperations' =
       syncOperations \ {o \in syncOperations : o.id < cutoff /\ o.status = "completed"}
  /\ UNCHANGED <<rows, tx, replica>>

-----------------------------------------------------------------------------
DBInit ==
  /\ rows = {}
  /\ syncOperations = {}
  /\ tx = 0
  /\ replica = [e \in Uuid |-> Absent]

ProjectNext ==
  \E p \in Project :
    \/ DeleteProject(p)
    \/ \E c \in Content : CreateProject(p, c) \/ UpdateProject(p, c)

ChildNext ==
  \E c \in Content :
    \/ \E l \in Layer : UpdateSpatialLayer(l, c)
    \/ \E p \in Project :
         \/ \E k \in Calculation : SaveCalculation(k, p, c)
         \/ \E l \in Layer : SaveSpatialLayer(l, p, c)

SegmentNext ==
  \/ \E s \in Segment :
       \/ DeleteProjectSegment(s)
       \/ \E c \in Content :
            \/ UpdateProjectSegment(s, c)
            \/ \E p \in Project : SaveProjectSegment(s, p, c)
  \/ \E p \in Project, S \in (SUBSET Segment) \ {{}} :
       \E content \in [S -> Content] :
         BulkSaveProjectSegments([s \in S |-> [project |-> p, content |-> content[s]]])

SyncNext ==
  \/ \E op \in syncOperations :
       MarkSyncOperationCompleted(op) \/ MarkSyncOperationFailed(op)
  \/ \E cutoff \in 1..tx : ClearOldSyncOperations(cutoff)

DBNext == ProjectNext \/ ChildNext \/ SegmentNext \/ SyncNext

DBSpec == DBInit /\ [][DBNext]_dbVars

-----------------------------------------------------------------------------
\* Every table holds rows of its type and keys below the next one; a field the
\* operation does not give is None.
DBTypeOK ==
  /\ rows \subseteq Row
  /\ syncOperations \subseteq SyncOperation
  /\ tx \in Nat
  /\ replica \in [Uuid -> Data]

\* The outbox and the tables are written together: a server that applies the
\* operations in the order they were queued holds exactly the entities that have
\* a row, each with the content of its newest row.  So no transaction writes a
\* table without its operation, none queues an operation it did not do, and the
\* rows deleteProject cascades to, for which nothing is queued, are those the
\* queued project deletion removes.
OutboxReplicates ==
  /\ \A e \in Uuid : replica[e] # Absent <=> RowsOf(e) # {}
  /\ \A r \in rows : IsNewest(r) =>
       replica[r.uuid] = [project |-> r.project, content |-> r.content]

\* updateProject and updateSpatialLayer queue an update only for an entity the
\* server has: the check of the modify() count is what keeps the update of a
\* deleted project from reaching the server.
UpdatesReachEntity ==
  [][\A o \in syncOperations' :
       o.id = tx /\ o.operation = "update" /\ o.entityUuid \in Project \cup Layer
         => replica[o.entityUuid] # Absent]_dbVars

\* Until some worker has marked it completed an operation stays in the outbox,
\* with its entity, its kind and its data, through failures and clean-ups.
UndeliveredKept ==
  [][\A o \in syncOperations : o.status # "completed" =>
       \E n \in syncOperations' :
         /\ <<n.id, n.entityUuid, n.operation, n.data>> =
              <<o.id, o.entityUuid, o.operation, o.data>>
         /\ n.retryCount >= o.retryCount]_dbVars

=============================================================================
