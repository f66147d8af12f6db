------------------------ MODULE OfflineDatabaseProofs ------------------------
(***************************************************************************)
(* For every set of entities and every bound, the outbox of                *)
(* OfflineDatabase replicates its tables.                                  *)
(*                                                                         *)
(* OutboxReplicates is not inductive: it speaks of the newest row, so a    *)
(* step must know that the row it adds is newer than every other, and a    *)
(* project's deletion removes the same children here and on the server     *)
(* only because a child has one row.  IInv adds those two facts, and that   *)
(* the queued operations are older than the next transaction.              *)
(***************************************************************************)
EXTENDS OfflineDatabase, TLAPS

KeysBelow ==
  /\ \A r \in rows : r.id < tx
  /\ \A o \in syncOperations : o.id < tx

OneRowPerChild ==
  \A r, s \in rows : r.uuid \in Calculation \cup Layer /\ r.uuid = s.uuid => r = s

IInv ==
  /\ DBTypeOK
  /\ KeysBelow
  /\ OneRowPerChild
  /\ OutboxReplicates

-----------------------------------------------------------------------------
LEMMA AbsentIsNoCopy == ASSUME NEW c \in Copy PROVE c # Absent /\ c \in Data
BY NoneAssumption DEF Copy, Absent, Data, Uuid

LEMMA AbsentIsData == Absent \in Data
BY DEF Absent, Data

LEMMA InitIInv == DBInit => IInv
BY AbsentIsData
   DEF DBInit, IInv, DBTypeOK, KeysBelow, OneRowPerChild, OutboxReplicates, RowsOf

-----------------------------------------------------------------------------
(* A new operation is well typed, whatever it does.                          *)
LEMMA OperationType ==
  ASSUME DBTypeOK, NEW uuid \in Uuid, NEW kind \in {"create", "update", "delete"},
         NEW data \in Data
  PROVE  Operation(uuid, kind, data) \in SyncOperation
BY DEF DBTypeOK, Operation, SyncOperation

(* add and bulkAdd: the rows added are the newest of their uuids.            *)
LEMMA AddIInv ==
  ASSUME IInv, NEW new, DOMAIN new \subseteq Uuid,
         \A e \in DOMAIN new : new[e] \in Copy,
         \A e \in DOMAIN new : e \in Calculation \cup Layer => RowsOf(e) = {},
         Add(new)
  PROVE  IInv'
<1> DEFINE row(e) == [id |-> tx, uuid |-> e, project |-> new[e].project,
                      content |-> new[e].content]
<1>1. /\ tx \in Nat /\ tx' = tx + 1
      /\ rows' = rows \cup {row(e) : e \in DOMAIN new}
      /\ syncOperations' = syncOperations \cup
           {Operation(e, "create", new[e]) : e \in DOMAIN new}
      /\ replica' = Created(replica, new)
  BY DEF IInv, DBTypeOK, Add, Commit, QueueCreate
<1>2. \A e \in DOMAIN new : row(e) \in Row
  BY <1>1 DEF Row, Copy
<1>3. \A r \in rows : r \in Row /\ r.id < tx
  BY DEF IInv, DBTypeOK, KeysBelow
<1>4. DBTypeOK'
  <2>1. rows' \subseteq Row
    BY <1>1, <1>2, <1>3
  <2>2. syncOperations' \subseteq SyncOperation
    BY <1>1, OperationType, AbsentIsNoCopy DEF IInv, DBTypeOK
  <2>3. replica' \in [Uuid -> Data]
    BY <1>1, AbsentIsNoCopy DEF Created, IInv, DBTypeOK
  <2> QED BY <1>1, <2>1, <2>2, <2>3 DEF DBTypeOK
<1>5. KeysBelow'
  <2>1. \A r \in rows' : r.id < tx'
    BY <1>1, <1>3 DEF Row
  <2>2. \A o \in syncOperations' : o.id < tx'
    BY <1>1 DEF IInv, DBTypeOK, KeysBelow, SyncOperation, Operation
  <2> QED BY <2>1, <2>2 DEF KeysBelow
<1>6. OneRowPerChild'
  <2> SUFFICES ASSUME NEW r \in rows', NEW s \in rows',
                      r.uuid \in Calculation \cup Layer, r.uuid = s.uuid
               PROVE  r = s
    BY DEF OneRowPerChild
  <2>1. CASE r \in rows /\ s \in rows
    BY <2>1 DEF IInv, OneRowPerChild
  <2>2. CASE r \notin rows \/ s \notin rows
    <3>1. r.uuid \in DOMAIN new
      BY <1>1, <2>2
    <3>2. r \notin rows /\ s \notin rows
      BY <3>1 DEF RowsOf
    <3> QED BY <1>1, <3>2
  <2> QED BY <2>1, <2>2
<1>7. \A e \in Uuid : replica'[e] # Absent <=> RowsOf(e)' # {}
  <2> SUFFICES ASSUME NEW e \in Uuid
               PROVE  replica'[e] # Absent <=> RowsOf(e)' # {}
    OBVIOUS
  <2>1. CASE e \in DOMAIN new
    <3>1. replica'[e] = new[e]
      BY <1>1, <2>1 DEF Created
    <3>2. row(e) \in RowsOf(e)'
      BY <1>1, <2>1 DEF RowsOf
    <3> QED BY <2>1, <3>1, <3>2, AbsentIsNoCopy
  <2>2. CASE e \notin DOMAIN new
    <3>1. replica'[e] = replica[e]
      BY <1>1, <2>2 DEF Created
    <3>2. RowsOf(e)' = RowsOf(e)
      BY <1>1, <2>2 DEF RowsOf
    <3> QED BY <3>1, <3>2 DEF IInv, OutboxReplicates
  <2> QED BY <2>1, <2>2
<1>8. ASSUME NEW r \in rows', IsNewest(r)'
      PROVE  replica'[r.uuid] = [project |-> r.project, content |-> r.content]
  <2>0. r.uuid \in Uuid
    BY <1>4 DEF DBTypeOK, Row
  <2>1. CASE r.uuid \in DOMAIN new
    <3>1. row(r.uuid) \in RowsOf(r.uuid)'
      BY <1>1, <2>1 DEF RowsOf
    <3>2. r \notin rows
      BY <1>1, <1>3, <1>8, <3>1 DEF IsNewest, Row
    <3>3. r = row(r.uuid)
      BY <1>1, <3>2
    <3>4. new[r.uuid] = [project |-> r.project, content |-> r.content]
      BY <2>1, <3>3 DEF Copy
    <3> QED BY <1>1, <2>0, <2>1, <3>4 DEF Created
  <2>2. CASE r.uuid \notin DOMAIN new
    <3>1. r \in rows
      BY <1>1, <2>2
    <3>2. IsNewest(r)
      BY <1>1, <1>8 DEF IsNewest, RowsOf
    <3> QED BY <1>1, <2>0, <2>2, <3>1, <3>2 DEF Created, IInv, OutboxReplicates
  <2> QED BY <2>1, <2>2
<1> QED BY <1>4, <1>5, <1>6, <1>7, <1>8 DEF IInv, OutboxReplicates

(* modify: the rows keep their keys and owners, so the newest stays newest.  *)
LEMMA ModifyIInv ==
  ASSUME IInv, NEW uuid \in Uuid, NEW content \in Content,
         Commit, rows' = Modified(uuid, content), QueueUpdate(uuid, content)
  PROVE  IInv'
<1> DEFINE new(r) == [r EXCEPT !.content = content]
<1>1. /\ tx \in Nat /\ tx' = tx + 1
      /\ rows' = {r \in rows : r.uuid # uuid} \cup {new(r) : r \in RowsOf(uuid)}
      /\ replica' = Updated(replica, uuid, content)
      /\ replica \in [Uuid -> Data]
  BY DEF IInv, DBTypeOK, Commit, Modified, QueueUpdate
<1>2. \A r \in rows : r \in Row /\ r.id < tx
  BY DEF IInv, DBTypeOK, KeysBelow
<1>3. \A r \in rows :
        /\ new(r) \in Row
        /\ new(r).id = r.id /\ new(r).uuid = r.uuid /\ new(r).project = r.project
        /\ new(r).content = content
  BY <1>2 DEF Row
<1>4. \A r \in rows' : \E s \in rows :
        /\ r.id = s.id /\ r.uuid = s.uuid /\ r.project = s.project
        /\ r = IF s.uuid = uuid THEN new(s) ELSE s
  BY <1>1, <1>3 DEF RowsOf
<1>5. \A s \in rows : (IF s.uuid = uuid THEN new(s) ELSE s) \in rows'
  BY <1>1 DEF RowsOf
<1>6. DBTypeOK'
  <2>1. rows' \subseteq Row
    BY <1>1, <1>2, <1>3 DEF RowsOf
  <2>2. syncOperations' \subseteq SyncOperation
    <3>1. [project |-> None, content |-> content] \in Data
      BY DEF Data
    <3> QED BY <3>1, OperationType DEF IInv, DBTypeOK, QueueUpdate
  <2>3. replica' \in [Uuid -> Data]
    BY <1>1 DEF Updated, Data
  <2> QED BY <1>1, <2>1, <2>2, <2>3 DEF DBTypeOK
<1>7. KeysBelow'
  <2>1. \A r \in rows' : r.id < tx'
    BY <1>1, <1>2, <1>4 DEF Row
  <2>2. \A o \in syncOperations' : o.id < tx'
    BY <1>1 DEF IInv, DBTypeOK, KeysBelow, SyncOperation, Operation, QueueUpdate
  <2> QED BY <2>1, <2>2 DEF KeysBelow
<1>8. OneRowPerChild'
  BY <1>4 DEF OneRowPerChild, IInv
<1>9. ASSUME NEW e \in Uuid
      PROVE  replica'[e] # Absent <=> RowsOf(e)' # {}
  <2>1. RowsOf(e)' # {} <=> RowsOf(e) # {}
    <3>1. ASSUME NEW r \in RowsOf(e)' PROVE RowsOf(e) # {}
      BY <1>4 DEF RowsOf
    <3>2. ASSUME NEW r \in RowsOf(e) PROVE RowsOf(e)' # {}
      <4>1. r \in rows /\ r.uuid = e
        BY DEF RowsOf
      <4>2. PICK t \in rows' : t.uuid = e
        BY <1>3, <1>5, <4>1
      <4> QED BY <4>2 DEF RowsOf
    <3> QED BY <3>1, <3>2
  <2>2. replica'[e] # Absent <=> replica[e] # Absent
    BY <1>1, NoneAssumption DEF Updated, Absent, Data
  <2> QED BY <2>1, <2>2 DEF IInv, OutboxReplicates
<1>10. ASSUME NEW r \in rows', IsNewest(r)'
       PROVE  replica'[r.uuid] = [project |-> r.project, content |-> r.content]
  <2>1. PICK s \in rows : /\ r.id = s.id /\ r.uuid = s.uuid /\ r.project = s.project
                          /\ r = IF s.uuid = uuid THEN new(s) ELSE s
    BY <1>4
  <2>2. IsNewest(s)
    <3> SUFFICES ASSUME NEW t \in rows, t.uuid = s.uuid PROVE t.id <= s.id
      BY DEF IsNewest, RowsOf
    <3>1. PICK u \in rows' : u.id = t.id /\ u.uuid = t.uuid
      BY <1>3, <1>5
    <3> QED BY <1>10, <2>1, <3>1 DEF IsNewest, RowsOf
  <2>3. replica[s.uuid] = [project |-> s.project, content |-> s.content]
    BY <2>2 DEF IInv, OutboxReplicates
  <2>4. s.uuid \in Uuid /\ replica[s.uuid] # Absent
    BY <1>2, <2>3, NoneAssumption DEF Row, Absent, Uuid
  <2>5. CASE s.uuid = uuid
    <3>1. replica'[uuid] = [replica[uuid] EXCEPT !.content = content]
      BY <1>1, <2>4, <2>5 DEF Updated
    <3> QED BY <1>3, <2>1, <2>3, <2>5, <3>1
  <2>6. CASE s.uuid # uuid
    BY <1>1, <2>1, <2>3, <2>4, <2>6 DEF Updated
  <2> QED BY <2>5, <2>6
<1> QED BY <1>6, <1>7, <1>8, <1>9, <1>10 DEF IInv, OutboxReplicates

(* Deleting all rows of some uuids, which the queued deletion makes absent   *)
(* on the server, and no row of any other.                                   *)
LEMMA DeleteIInv ==
  ASSUME IInv, NEW uuid \in Uuid, NEW gone \in SUBSET Uuid,
         Commit, rows' = {r \in rows : r.uuid \notin gone}, QueueDelete(uuid),
         \A e \in Uuid : replica'[e] = IF e \in gone THEN Absent ELSE replica[e]
  PROVE  IInv'
<1>1. /\ tx \in Nat /\ tx' = tx + 1
      /\ \A r \in rows : r \in Row /\ r.id < tx
      /\ rows' \subseteq rows
  BY DEF IInv, DBTypeOK, KeysBelow, Commit
<1>2. DBTypeOK'
  <2>1. syncOperations' \subseteq SyncOperation
    BY AbsentIsData, OperationType DEF IInv, DBTypeOK, QueueDelete
  <2>2. replica' \in [Uuid -> Data]
    BY AbsentIsData DEF IInv, DBTypeOK, QueueDelete, Deleted
  <2> QED BY <1>1, <2>1, <2>2 DEF DBTypeOK
<1>3. KeysBelow' /\ OneRowPerChild'
  <2>1. \A o \in syncOperations' : o.id < tx'
    BY <1>1 DEF IInv, DBTypeOK, KeysBelow, SyncOperation, Operation, QueueDelete
  <2> QED BY <1>1, <2>1 DEF KeysBelow, OneRowPerChild, IInv, Row
<1>4. ASSUME NEW e \in Uuid
      PROVE  replica'[e] # Absent <=> RowsOf(e)' # {}
  <2>1. CASE e \in gone
    BY <2>1 DEF RowsOf
  <2>2. CASE e \notin gone
    <3>1. RowsOf(e)' = RowsOf(e)
      BY <2>2 DEF RowsOf
    <3> QED BY <2>2, <3>1 DEF IInv, OutboxReplicates
  <2> QED BY <2>1, <2>2
<1>5. ASSUME NEW r \in rows', IsNewest(r)'
      PROVE  replica'[r.uuid] = [project |-> r.project, content |-> r.content]
  <2>1. r \in rows /\ r.uuid \in Uuid /\ r.uuid \notin gone
    BY <1>1 DEF Row
  <2>2. IsNewest(r)
    BY <1>5, <2>1 DEF IsNewest, RowsOf
  <2> QED BY <2>1, <2>2 DEF IInv, OutboxReplicates
<1> QED BY <1>2, <1>3, <1>4, <1>5 DEF IInv, OutboxReplicates

-----------------------------------------------------------------------------
(* A project has no copy of its own among the children it cascades to.       *)
LEMMA DeleteProjectIInv ==
  ASSUME IInv, NEW project \in Project, DeleteProject(project)
  PROVE  IInv'
<1> DEFINE gone == {project} \cup
      {e \in Calculation \cup Layer : replica[e].project = project}
<1>1. project \in Uuid /\ gone \in SUBSET Uuid
  BY DEF Uuid
<1>2. \A r \in rows : r.uuid \in Calculation \cup Layer =>
        replica[r.uuid].project = r.project
  <2> SUFFICES ASSUME NEW r \in rows, r.uuid \in Calculation \cup Layer
               PROVE  replica[r.uuid].project = r.project
    OBVIOUS
  <2>1. IsNewest(r)
    BY DEF IInv, DBTypeOK, Row, OneRowPerChild, IsNewest, RowsOf
  <2>2. replica[r.uuid] = [project |-> r.project, content |-> r.content]
    BY <2>1 DEF IInv, OutboxReplicates
  <2> QED BY <2>2
<1>3. rows' = {r \in rows : r.uuid \notin gone}
  <2>1. rows' = rows \ (CascadeOf(project) \cup RowsOf(project))
    BY DEF DeleteProject
  <2>2. \A r \in rows : r \in RowsOf(project) <=> r.uuid = project
    BY DEF RowsOf
  <2>3. \A r \in rows : r \in CascadeOf(project) <=>
          r.uuid \in Calculation \cup Layer /\ replica[r.uuid].project = project
    BY <1>2 DEF CascadeOf
  <2>4. \A r \in rows :
          r \in CascadeOf(project) \cup RowsOf(project) <=> r.uuid \in gone
    BY <2>2, <2>3
  <2> HIDE DEF gone
  <2> QED BY <2>1, <2>4
<1>4. \A e \in Uuid : replica'[e] = IF e \in gone THEN Absent ELSE replica[e]
  BY DEF DeleteProject, QueueDelete, Deleted
<1>5. Commit /\ QueueDelete(project)
  BY DEF DeleteProject
<1> HIDE DEF gone
<1> QED BY <1>1, <1>3, <1>4, <1>5, DeleteIInv

LEMMA DeleteSegmentIInv ==
  ASSUME IInv, NEW segment \in Segment, DeleteProjectSegment(segment)
  PROVE  IInv'
<1>1. segment \in Uuid /\ {segment} \in SUBSET Uuid
  BY DEF Uuid
<1>2. rows' = {r \in rows : r.uuid \notin {segment}}
  BY DEF DeleteProjectSegment, RowsOf
<1>3. \A e \in Uuid : replica'[e] = IF e \in {segment} THEN Absent ELSE replica[e]
  <2> SUFFICES ASSUME NEW e \in Uuid, e \in Calculation \cup Layer,
                      replica[e].project = segment
               PROVE  FALSE
    BY DEF DeleteProjectSegment, QueueDelete, Deleted
  <2>1. replica[e] \in Data
    BY DEF IInv, DBTypeOK
  <2> QED BY <2>1, UuidAssumption, NoneAssumption DEF Data, Uuid
<1>4. Commit /\ QueueDelete(segment)
  BY DEF DeleteProjectSegment
<1> QED BY <1>1, <1>2, <1>3, <1>4, DeleteIInv

-----------------------------------------------------------------------------
(* The outbox's own operations change no table and no copy.                  *)
LEMMA SyncIInv ==
  ASSUME IInv, SyncNext
  PROVE  IInv'
<1>1. UNCHANGED <<rows, tx, replica>>
  BY DEF SyncNext, MarkSyncOperationCompleted, MarkSyncOperationFailed, Mark,
         ClearOldSyncOperations
<1>2. \A o \in syncOperations : o \in SyncOperation /\ o.id < tx
  BY DEF IInv, DBTypeOK, KeysBelow
<1>3. \A o \in syncOperations' : o \in SyncOperation /\ o.id < tx
  <2>1. ASSUME NEW op \in syncOperations, MarkSyncOperationCompleted(op)
        PROVE  \A o \in syncOperations' : o \in SyncOperation /\ o.id < tx
    BY <1>2, <2>1 DEF MarkSyncOperationCompleted, Mark, SyncOperation
  <2>2. ASSUME NEW op \in syncOperations, MarkSyncOperationFailed(op)
        PROVE  \A o \in syncOperations' : o \in SyncOperation /\ o.id < tx
    <3> DEFINE marked == [op EXCEPT !.status = "failed", !.retryCount = @ + 1]
    <3>1. op.retryCount + 1 \in Nat
      BY <1>2 DEF SyncOperation
    <3>2. marked \in SyncOperation /\ marked.id = op.id
      BY <1>2, <3>1 DEF SyncOperation
    <3>3. syncOperations' = (syncOperations \ {op}) \cup {marked}
      BY <2>2 DEF MarkSyncOperationFailed, Mark
    <3> HIDE DEF marked
    <3> QED BY <1>2, <3>2, <3>3
  <2>3. ASSUME NEW cutoff, ClearOldSyncOperations(cutoff)
        PROVE  \A o \in syncOperations' : o \in SyncOperation /\ o.id < tx
    BY <1>2, <2>3 DEF ClearOldSyncOperations
  <2> QED BY <2>1, <2>2, <2>3 DEF SyncNext
<1> QED
  BY <1>1, <1>3 DEF IInv, DBTypeOK, KeysBelow, OneRowPerChild, OutboxReplicates,
                    RowsOf, IsNewest

LEMMA AddOneIInv ==
  ASSUME IInv, NEW uuid \in Uuid, NEW project \in Project, NEW content \in Content,
         uuid \in Calculation \cup Layer => RowsOf(uuid) = {},
         Add(One(uuid, project, content))
  PROVE  IInv'
<1> DEFINE new == One(uuid, project, content)
<1>1. DOMAIN new = {uuid} /\ \A e \in DOMAIN new : new[e] \in Copy
  BY DEF One, Copy
<1>2. Add(new)
  OBVIOUS
<1> HIDE DEF new
<1> QED BY <1>1, <1>2, AddIInv

LEMMA KindsAreUuids ==
  /\ Project \subseteq Uuid /\ Segment \subseteq Uuid
  /\ Calculation \subseteq Uuid /\ Layer \subseteq Uuid
BY DEF Uuid

LEMMA ProjectIInv == IInv /\ ProjectNext => IInv'
<1> SUFFICES ASSUME IInv, NEW p \in Project,
                    \/ DeleteProject(p)
                    \/ \E c \in Content : CreateProject(p, c) \/ UpdateProject(p, c)
             PROVE  IInv'
  BY DEF ProjectNext
<1>1. ASSUME NEW c \in Content, CreateProject(p, c) PROVE IInv'
  <2>1. p \notin Calculation \cup Layer
    BY UuidAssumption
  <2>2. p \in Uuid /\ Add(One(p, p, c))
    BY <1>1, KindsAreUuids DEF CreateProject
  <2> QED BY <2>1, <2>2, AddOneIInv
<1>2. ASSUME NEW c \in Content, UpdateProject(p, c) PROVE IInv'
  BY <1>2, KindsAreUuids, ModifyIInv DEF UpdateProject
<1> QED BY <1>1, <1>2, DeleteProjectIInv

LEMMA ChildIInv == IInv /\ ChildNext => IInv'
<1> SUFFICES ASSUME IInv, ChildNext PROVE IInv'
  OBVIOUS
<1>1. ASSUME NEW k \in Calculation, NEW p \in Project, NEW c \in Content,
             SaveCalculation(k, p, c)
      PROVE  IInv'
  <2>1. k \in Uuid /\ RowsOf(k) = {} /\ Add(One(k, p, c))
    BY <1>1, KindsAreUuids DEF SaveCalculation
  <2> QED BY <2>1, AddOneIInv
<1>2. ASSUME NEW l \in Layer, NEW p \in Project, NEW c \in Content,
             SaveSpatialLayer(l, p, c)
      PROVE  IInv'
  <2>1. l \in Uuid /\ RowsOf(l) = {} /\ Add(One(l, p, c))
    BY <1>2, KindsAreUuids DEF SaveSpatialLayer
  <2> QED BY <2>1, AddOneIInv
<1>3. ASSUME NEW l \in Layer, NEW c \in Content, UpdateSpatialLayer(l, c)
      PROVE  IInv'
  BY <1>3, KindsAreUuids, ModifyIInv DEF UpdateSpatialLayer
<1> QED BY <1>1, <1>2, <1>3 DEF ChildNext

LEMMA SegmentIInv == IInv /\ SegmentNext => IInv'
<1> SUFFICES ASSUME IInv, SegmentNext PROVE IInv'
  OBVIOUS
<1>0. \A s \in Segment : s \notin Calculation \cup Layer
  BY UuidAssumption
<1>1. ASSUME NEW s \in Segment, NEW p \in Project, NEW c \in Content,
             SaveProjectSegment(s, p, c)
      PROVE  IInv'
  <2>1. s \in Uuid /\ Add(One(s, p, c))
    BY <1>1, KindsAreUuids DEF SaveProjectSegment
  <2> QED BY <1>0, <2>1, AddOneIInv
<1>2. ASSUME NEW s \in Segment, NEW c \in Content, UpdateProjectSegment(s, c)
      PROVE  IInv'
  BY <1>2, KindsAreUuids, ModifyIInv DEF UpdateProjectSegment
<1>3. ASSUME NEW p \in Project, NEW S \in SUBSET Segment, NEW content \in [S -> Content],
             BulkSaveProjectSegments(
               [s \in S |-> [project |-> p, content |-> content[s]]])
      PROVE  IInv'
  <2> DEFINE new == [s \in S |-> [project |-> p, content |-> content[s]]]
  <2>1. DOMAIN new \subseteq Uuid /\ \A e \in DOMAIN new : new[e] \in Copy
    BY KindsAreUuids DEF Copy
  <2>2. Add(new)
    BY <1>3 DEF BulkSaveProjectSegments
  <2>3. \A e \in DOMAIN new : e \notin Calculation \cup Layer
    BY <1>0
  <2> HIDE DEF new
  <2> QED BY <2>1, <2>2, <2>3, AddIInv
<1> QED BY <1>1, <1>2, <1>3, DeleteSegmentIInv DEF SegmentNext

LEMMA NextIInv == IInv /\ [DBNext]_dbVars => IInv'
<1> SUFFICES ASSUME IInv, [DBNext]_dbVars PROVE IInv'
  OBVIOUS
<1>1. CASE DBNext
  BY <1>1, ProjectIInv, ChildIInv, SegmentIInv, SyncIInv DEF DBNext
<1>2. CASE UNCHANGED dbVars
  BY <1>2 DEF dbVars, IInv, DBTypeOK, KeysBelow, OneRowPerChild, OutboxReplicates,
              RowsOf, IsNewest
<1> QED BY <1>1, <1>2

THEOREM Invariance == DBSpec => []IInv
BY InitIInv, NextIInv, PTL DEF DBSpec

(* The database is always well typed.                                        *)
THEOREM TypeCorrect == DBSpec => []DBTypeOK
<1>1. IInv => DBTypeOK
  BY DEF IInv
<1> QED BY <1>1, Invariance, PTL

(* A server that applies the outbox in order holds what the tables hold: no  *)
(* transaction of DexieDatabase writes a table and forgets its operation.    *)
THEOREM OutboxReplicatesTables == DBSpec => []OutboxReplicates
<1>1. IInv => OutboxReplicates
  BY DEF IInv
<1> QED BY <1>1, Invariance, PTL

-----------------------------------------------------------------------------
(* The operation a transaction queues is the only one numbered tx.           *)
LEMMA OldOperation ==
  ASSUME IInv, NEW o \in syncOperations PROVE o.id # tx
BY DEF IInv, DBTypeOK, KeysBelow, SyncOperation

(* Only the outbox's operations leave tx unchanged, and they queue nothing.  *)
LEMMA SyncQueuesNothing ==
  ASSUME IInv, SyncNext, NEW o \in syncOperations' PROVE o.id # tx
<1>1. IInv' /\ tx' = tx
  BY SyncIInv DEF SyncNext, MarkSyncOperationCompleted, MarkSyncOperationFailed, Mark,
                  ClearOldSyncOperations
<1> QED BY <1>1 DEF IInv, DBTypeOK, KeysBelow, SyncOperation

(* A project or a layer that is updated has a row, hence a copy to update.   *)
LEMMA UpdateReachesStep ==
  ASSUME IInv, DBNext, NEW o \in syncOperations', o.id = tx, o.operation = "update",
         o.entityUuid \in Project \cup Layer
  PROVE  replica[o.entityUuid] # Absent
<1>1. o \notin syncOperations
  BY OldOperation
<1>2. ASSUME NEW new, Add(new) PROVE FALSE
  BY <1>1, <1>2 DEF Add, QueueCreate, Operation
<1>3. ASSUME NEW uuid, QueueDelete(uuid) PROVE FALSE
  BY <1>1, <1>3 DEF QueueDelete, Operation
<1>4. ASSUME NEW uuid, NEW content, QueueUpdate(uuid, content) PROVE o.entityUuid = uuid
  BY <1>1, <1>4 DEF QueueUpdate, Operation
<1>5. ASSUME NEW uuid \in Uuid, RowsOf(uuid) # {} PROVE replica[uuid] # Absent
  BY <1>5 DEF IInv, OutboxReplicates
<1>6. CASE ProjectNext
  <2>1. PICK p \in Project : \E c \in Content : UpdateProject(p, c)
    BY <1>2, <1>3, <1>6 DEF ProjectNext, CreateProject, DeleteProject
  <2>2. RowsOf(p) # {} /\ o.entityUuid = p
    BY <1>4, <2>1 DEF UpdateProject
  <2> QED BY <1>5, <2>2, KindsAreUuids
<1>7. CASE ChildNext
  <2>1. PICK l \in Layer : \E c \in Content : UpdateSpatialLayer(l, c)
    BY <1>2, <1>7 DEF ChildNext, SaveCalculation, SaveSpatialLayer
  <2>2. RowsOf(l) # {} /\ o.entityUuid = l
    BY <1>4, <2>1 DEF UpdateSpatialLayer
  <2> QED BY <1>5, <2>2, KindsAreUuids
<1>8. CASE SegmentNext
  <2>1. PICK s \in Segment : \E c \in Content : UpdateProjectSegment(s, c)
    BY <1>2, <1>3, <1>8 DEF SegmentNext, SaveProjectSegment, DeleteProjectSegment,
                            BulkSaveProjectSegments
  <2>2. o.entityUuid = s
    BY <1>4, <2>1 DEF UpdateProjectSegment
  <2> QED BY <2>2, UuidAssumption
<1>9. CASE SyncNext
  BY <1>9, SyncQueuesNothing
<1> QED BY <1>6, <1>7, <1>8, <1>9 DEF DBNext

(* No update of a project or a layer is queued for an entity the server      *)
(* would not have: updateProject and updateSpatialLayer check what modify()  *)
(* changed.                                                                  *)
THEOREM UpdatesReach == DBSpec => UpdatesReachEntity
<1> DEFINE Reach ==
      \A o \in syncOperations' :
        o.id = tx /\ o.operation = "update" /\ o.entityUuid \in Project \cup Layer
          => replica[o.entityUuid] # Absent
<1>1. IInv /\ [DBNext]_dbVars => [Reach]_dbVars
  BY UpdateReachesStep
<1> QED BY <1>1, Invariance, PTL DEF DBSpec, UpdatesReachEntity

-----------------------------------------------------------------------------
LEMMA TransactionsKeepOperations ==
  ASSUME DBNext, ~SyncNext
  PROVE  syncOperations \subseteq syncOperations'
<1>1. ASSUME NEW new, Add(new) PROVE syncOperations \subseteq syncOperations'
  BY <1>1 DEF Add, QueueCreate
<1>2. ASSUME NEW uuid, QueueDelete(uuid) PROVE syncOperations \subseteq syncOperations'
  BY <1>2 DEF QueueDelete
<1>3. ASSUME NEW uuid, NEW content, QueueUpdate(uuid, content)
      PROVE  syncOperations \subseteq syncOperations'
  BY <1>3 DEF QueueUpdate
<1>4. CASE ProjectNext
  BY <1>1, <1>2, <1>3, <1>4 DEF ProjectNext, CreateProject, UpdateProject, DeleteProject
<1>5. CASE ChildNext
  BY <1>1, <1>3, <1>5 DEF ChildNext, SaveCalculation, SaveSpatialLayer, UpdateSpatialLayer
<1>6. CASE SegmentNext
  BY <1>1, <1>2, <1>3, <1>6 DEF SegmentNext, SaveProjectSegment, UpdateProjectSegment,
                                DeleteProjectSegment, BulkSaveProjectSegments
<1> QED BY <1>4, <1>5, <1>6 DEF DBNext

(* What an operation keeps until it is delivered.                            *)
LEMMA UndeliveredKeptStep ==
  ASSUME IInv, DBNext, NEW o \in syncOperations, o.status # "completed"
  PROVE  \E n \in syncOperations' :
           /\ <<n.id, n.entityUuid, n.operation, n.data>> =
                <<o.id, o.entityUuid, o.operation, o.data>>
           /\ n.retryCount >= o.retryCount
<1>1. o \in SyncOperation /\ o.retryCount \in Nat
  BY DEF IInv, DBTypeOK, SyncOperation
<1>2. CASE o \in syncOperations'
  BY <1>1, <1>2
<1>3. CASE o \notin syncOperations'
  <2>1. SyncNext
    BY <1>3, TransactionsKeepOperations
  <2>2. CASE MarkSyncOperationCompleted(o)
    <3> DEFINE marked == [o EXCEPT !.status = "completed"]
    <3>1. marked \in syncOperations'
      BY <2>2 DEF MarkSyncOperationCompleted, Mark
    <3>2. /\ marked.id = o.id /\ marked.entityUuid = o.entityUuid
          /\ marked.operation = o.operation /\ marked.data = o.data
          /\ marked.retryCount = o.retryCount
      BY <1>1 DEF SyncOperation
    <3> HIDE DEF marked
    <3> QED BY <1>1, <3>1, <3>2
  <2>3. CASE MarkSyncOperationFailed(o)
    <3> DEFINE marked == [o EXCEPT !.status = "failed", !.retryCount = @ + 1]
    <3>1. marked \in syncOperations'
      BY <2>3 DEF MarkSyncOperationFailed, Mark
    <3>2. /\ marked.id = o.id /\ marked.entityUuid = o.entityUuid
          /\ marked.operation = o.operation /\ marked.data = o.data
          /\ marked.retryCount = o.retryCount + 1
      BY <1>1 DEF SyncOperation
    <3> HIDE DEF marked
    <3> QED BY <1>1, <3>1, <3>2
  <2>4. ASSUME NEW op \in syncOperations, op # o,
               MarkSyncOperationCompleted(op) \/ MarkSyncOperationFailed(op)
        PROVE  FALSE
    BY <1>3, <2>4 DEF MarkSyncOperationCompleted, MarkSyncOperationFailed, Mark
  <2>5. ASSUME NEW cutoff, ClearOldSyncOperations(cutoff) PROVE FALSE
    BY <1>3, <2>5 DEF ClearOldSyncOperations
  <2> QED BY <2>1, <2>2, <2>3, <2>4, <2>5 DEF SyncNext
<1> QED BY <1>2, <1>3

(* An operation that no worker has delivered survives every transaction,     *)
(* every recorded failure and every clean-up of the outbox.                  *)
THEOREM UndeliveredSurvives == DBSpec => UndeliveredKept
<1> DEFINE Kept ==
      \A o \in syncOperations : o.status # "completed" =>
        \E n \in syncOperations' :
          /\ <<n.id, n.entityUuid, n.operation, n.data>> =
               <<o.id, o.entityUuid, o.operation, o.data>>
          /\ n.retryCount >= o.retryCount
<1>1. IInv /\ [DBNext]_dbVars => [Kept]_dbVars
  BY UndeliveredKeptStep
<1> QED BY <1>1, Invariance, PTL DEF DBSpec, UndeliveredKept

=============================================================================
