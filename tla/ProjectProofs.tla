----------------------------- MODULE ProjectProofs -----------------------------
(***************************************************************************)
(* For every set of projects, segments and contents: the project service   *)
(* uses the database only by its transactions, and a single client that    *)
(* may stop anywhere leaves no segment without its project.  The hook uses *)
(* the service only by its calls, and a single component shows only what   *)
(* is stored, wherever its calls stop.                                     *)
(***************************************************************************)
EXTENDS ProjectHook, OfflineDatabaseProofs, SequenceTheorems

Batch == Segments(Segment) \ {NoSegments}

SegmentRow == {r \in Row : r.uuid \in Segment}

SaveJob == [call : {"save"}, project : Project, content : Content,
            segments : Segments(Segment), batches : Seq(Batch) \ {<<>>}]
DeleteJob == [call : {"delete"}, project : Project, left : SUBSET SegmentRow]

(* A save that has not returned has a batch left.                            *)
JobOK == job \in [Client -> {Idle} \cup SaveJob \cup DeleteJob]

SavedOK == saved \in [Project -> [content : Content \cup {None},
                                  segments : Segments(Segment)]]

TakenOK == taken \in [Project -> SUBSET Segment]

-----------------------------------------------------------------------------
(* Segments(S) are the functions from subsets of S to contents.              *)
LEMMA SegmentsAre ==
  ASSUME NEW S, NEW f \in Segments(S)
  PROVE  DOMAIN f \subseteq S /\ f \in [DOMAIN f -> Content]
BY DEF Segments

LEMMA SegmentsIntro ==
  ASSUME NEW S, NEW T \in SUBSET S, NEW f \in [T -> Content]
  PROVE  f \in Segments(S)
BY DEF Segments

LEMMA NoSegmentsIsOne == ASSUME NEW S PROVE NoSegments \in Segments(S)
<1>1. NoSegments \in [{} -> Content]
  BY DEF NoSegments
<1> QED BY <1>1, SegmentsIntro

LEMMA OnlyNoSegmentsIsEmpty ==
  ASSUME NEW S, NEW f \in Segments(S), f # NoSegments
  PROVE  DOMAIN f # {}
<1> SUFFICES ASSUME DOMAIN f = {} PROVE f = NoSegments
  OBVIOUS
<1>1. f = [s \in DOMAIN f |-> f[s]]
  BY SegmentsAre
<1> QED BY <1>1 DEF NoSegments

LEMMA OneBatch ==
  ASSUME NEW f \in Segments(Segment)
  PROVE  (IF f = NoSegments THEN <<>> ELSE <<f>>) \in Seq(Batch)
<1>1. CASE f = NoSegments
  BY <1>1, EmptySeq
<1>2. CASE f # NoSegments
  <2>1. f \in Batch
    BY <1>2 DEF Batch
  <2>2. <<f>> \in Seq(Batch)
    BY <2>1
  <2> QED BY <1>2, <2>2
<1> QED BY <1>1, <1>2

(* A call's segments are segments, its batches are not empty.                *)
LEMMA CallSegments ==
  ASSUME NEW ducts \in Segments(Duct), NEW fittings \in Segments(Fitting)
  PROVE  /\ ducts \in Segments(Segment) /\ fittings \in Segments(Segment)
         /\ Merge(ducts, fittings) \in Segments(Segment)
         /\ Batches(ducts, fittings) \in Seq(Batch)
<1>1. /\ DOMAIN ducts \subseteq Segment /\ ducts \in [DOMAIN ducts -> Content]
      /\ DOMAIN fittings \subseteq Segment /\ fittings \in [DOMAIN fittings -> Content]
  BY SegmentsAre, SegmentAssumption
<1>2. ducts \in Segments(Segment) /\ fittings \in Segments(Segment)
  BY <1>1, SegmentsIntro
<1>3. Merge(ducts, fittings) \in [DOMAIN ducts \cup DOMAIN fittings -> Content]
  BY <1>1 DEF Merge
<1>4. Merge(ducts, fittings) \in Segments(Segment)
  BY <1>1, <1>3, SegmentsIntro
<1>5. (IF ducts = NoSegments THEN <<>> ELSE <<ducts>>) \in Seq(Batch)
  BY <1>2, OneBatch
<1>6. (IF fittings = NoSegments THEN <<>> ELSE <<fittings>>) \in Seq(Batch)
  BY <1>2, OneBatch
<1>7. Batches(ducts, fittings) \in Seq(Batch)
  BY <1>5, <1>6, ConcatProperties DEF Batches
<1> QED BY <1>2, <1>4, <1>7

-----------------------------------------------------------------------------
LEMMA InitJobOK == Init => JobOK /\ SavedOK
BY NoSegmentsIsOne DEF Init, JobOK, SavedOK, NotSaved

LEMMA ContinueSaveOK ==
  ASSUME JobOK, SavedOK, NEW client \in Client, NEW call,
         call \in [call : {"save"}, project : Project, content : Content,
                   segments : Segments(Segment), batches : Seq(Batch)],
         ContinueSave(client, call)
  PROVE  JobOK' /\ SavedOK'
<1>1. NotSaved \in [content : Content \cup {None}, segments : Segments(Segment)]
  BY NoSegmentsIsOne DEF NotSaved
<1>2. CASE call.batches = <<>>
  BY <1>2 DEF ContinueSave, JobOK, SavedOK
<1>3. CASE call.batches # <<>>
  <2>1. call \in SaveJob
    BY <1>3 DEF SaveJob
  <2> QED BY <1>1, <1>3, <2>1 DEF ContinueSave, JobOK, SavedOK
<1> QED BY <1>2, <1>3

(* A save's next batch, and the call without it.                             *)
LEMMA NextBatch ==
  ASSUME JobOK, NEW client \in Client, job[client].call = "save"
  PROVE  /\ job[client] \in SaveJob
         /\ Head(job[client].batches) \in Batch
         /\ [job[client] EXCEPT !.batches = Tail(@)] \in
              [call : {"save"}, project : Project, content : Content,
               segments : Segments(Segment), batches : Seq(Batch)]
<1>1. job[client] \in SaveJob
  BY DEF JobOK, Idle, SaveJob, DeleteJob
<1>2. job[client].batches \in Seq(Batch) /\ job[client].batches # <<>>
  BY <1>1 DEF SaveJob
<1>3. Head(job[client].batches) \in Batch /\ Tail(job[client].batches) \in Seq(Batch)
  BY <1>2, HeadTailProperties
<1> QED BY <1>1, <1>3 DEF SaveJob

LEMMA DeleteJobIs ==
  ASSUME JobOK, NEW client \in Client, job[client].call = "delete"
  PROVE  job[client] \in DeleteJob
BY DEF JobOK, Idle, SaveJob, DeleteJob

LEMMA NextTakenOK ==
  ASSUME JobOK, TakenOK, [Next]_projectVars
  PROVE  TakenOK'
<1>1. ASSUME NEW client \in Client, NEW project, NEW content, NEW ducts, NEW fittings,
             SaveProject(client, project, content, ducts, fittings)
      PROVE  TakenOK'
  BY <1>1 DEF SaveProject, Take, TakenOK
<1>2. ASSUME NEW client \in Client, SaveSegments(client)
      PROVE  TakenOK'
  <2>1. DOMAIN Head(job[client].batches) \subseteq Segment
    BY <1>2, NextBatch, SegmentsAre DEF SaveSegments, Batch
  <2> QED BY <1>2, <2>1 DEF SaveSegments, Take, TakenOK
<1>3. ASSUME NEW client \in Client, DeleteNextSegment(client)
      PROVE  TakenOK'
  <2>1. PICK r \in job[client].left : Take(job[client].project, {r.uuid})
    BY <1>3 DEF DeleteNextSegment
  <2>2. r.uuid \in Segment
    BY <1>3, DeleteJobIs DEF DeleteNextSegment, DeleteJob, SegmentRow
  <2> QED BY <2>1, <2>2 DEF Take, TakenOK
<1>4. ASSUME NEW client \in Client,
             \/ \E project \in Project : BeginDeleteProject(client, project)
             \/ EndDeleteProject(client) \/ Stop(client)
      PROVE  TakenOK'
  BY <1>4 DEF BeginDeleteProject, EndDeleteProject, Stop, TakenOK
<1>5. CASE UNCHANGED projectVars
  BY <1>5 DEF projectVars, TakenOK
<1> QED BY <1>1, <1>2, <1>3, <1>4, <1>5 DEF Next

LEMMA NextJobOK ==
  ASSUME DBTypeOK, JobOK, SavedOK, [Next]_projectVars
  PROVE  JobOK' /\ SavedOK'
<1>1. ASSUME NEW client \in Client, NEW project \in Project, NEW content \in Content,
             NEW ducts \in Segments(Duct),
             NEW fittings \in Segments(Fitting),
             SaveProject(client, project, content, ducts, fittings)
      PROVE  JobOK' /\ SavedOK'
  BY <1>1, CallSegments, ContinueSaveOK DEF SaveProject, Save
<1>2. ASSUME NEW client \in Client, SaveSegments(client)
      PROVE  JobOK' /\ SavedOK'
  BY <1>2, NextBatch, ContinueSaveOK DEF SaveSegments
<1>3. ASSUME NEW client \in Client, NEW project \in Project,
             BeginDeleteProject(client, project)
      PROVE  JobOK' /\ SavedOK'
  <2>1. Delete(project, GetProjectSegments(project)) \in DeleteJob
    BY DEF Delete, DeleteJob, SegmentRow, GetProjectSegments, DBTypeOK
  <2> QED BY <1>3, <2>1, NoSegmentsIsOne
          DEF BeginDeleteProject, JobOK, SavedOK, NotSaved
<1>4. ASSUME NEW client \in Client, DeleteNextSegment(client)
      PROVE  JobOK' /\ SavedOK'
  <2>1. PICK r \in job[client].left : job' = [job EXCEPT ![client].left = @ \ {r}]
    BY <1>4 DEF DeleteNextSegment
  <2>2. [job[client] EXCEPT !.left = @ \ {r}] \in DeleteJob
    BY <1>4, DeleteJobIs DEF DeleteNextSegment, DeleteJob
  <2> QED BY <1>4, <2>1, <2>2 DEF DeleteNextSegment, JobOK, SavedOK
<1>5. ASSUME NEW client \in Client, EndDeleteProject(client) \/ Stop(client)
      PROVE  JobOK' /\ SavedOK'
  BY <1>5 DEF EndDeleteProject, Stop, JobOK, SavedOK
<1>6. CASE UNCHANGED projectVars
  BY <1>6 DEF projectVars, JobOK, SavedOK
<1> QED BY <1>1, <1>2, <1>3, <1>4, <1>5, <1>6 DEF Next

-----------------------------------------------------------------------------
(* Every step of the service is one transaction of the database, or none.    *)
LEMMA StepIsTransaction ==
  ASSUME DBTypeOK, JobOK, [Next]_projectVars
  PROVE  [DBNext]_dbVars
<1>1. ASSUME NEW client \in Client, NEW project \in Project, NEW content \in Content,
             NEW ducts, NEW fittings,
             SaveProject(client, project, content, ducts, fittings)
      PROVE  DBNext
  BY <1>1 DEF SaveProject, DBNext, ProjectNext
<1>2. ASSUME NEW client \in Client, SaveSegments(client)
      PROVE  DBNext
  <2> DEFINE call == job[client]
             batch == Head(call.batches)
  <2>1. call.project \in Project /\ batch \in Batch
    BY <1>2, NextBatch DEF SaveSegments, SaveJob
  <2>2. /\ DOMAIN batch \in (SUBSET Segment) \ {{}}
        /\ batch \in [DOMAIN batch -> Content]
    BY <2>1, SegmentsAre, OnlyNoSegmentsIsEmpty DEF Batch
  <2>3. BulkSaveProjectSegments(
          [s \in DOMAIN batch |-> [project |-> call.project, content |-> batch[s]]])
    BY <1>2 DEF SaveSegments
  <2> HIDE DEF call, batch
  <2> QED BY <2>1, <2>2, <2>3 DEF DBNext, SegmentNext
<1>3. ASSUME NEW client \in Client, DeleteNextSegment(client)
      PROVE  [DBNext]_dbVars
  <2>1. PICK r \in job[client].left : DeleteProjectSegment(r.uuid)
    BY <1>3 DEF DeleteNextSegment
  <2>2. r.uuid \in Segment
    BY <1>3, DeleteJobIs DEF DeleteNextSegment, DeleteJob, SegmentRow
  <2> QED BY <2>1, <2>2 DEF DBNext, SegmentNext
<1>4. ASSUME NEW client \in Client, EndDeleteProject(client)
      PROVE  DBNext
  <2>1. job[client].project \in Project
    BY <1>4, DeleteJobIs DEF EndDeleteProject, DeleteJob
  <2> QED BY <1>4, <2>1 DEF EndDeleteProject, DBNext, ProjectNext
<1>5. ASSUME NEW client \in Client, NEW project, BeginDeleteProject(client, project)
      PROVE  UNCHANGED dbVars
  BY <1>5 DEF BeginDeleteProject
<1>6. ASSUME NEW client \in Client, Stop(client)
      PROVE  UNCHANGED dbVars
  BY <1>6 DEF Stop
<1>7. CASE UNCHANGED projectVars
  BY <1>7 DEF projectVars, dbVars
<1> QED BY <1>1, <1>2, <1>3, <1>4, <1>5, <1>6, <1>7 DEF Next

(* The project service implements the database: what is proved of every      *)
(* database behaviour holds of it.                                           *)
THEOREM ImplementsDatabase == Spec => DBSpec /\ [](JobOK /\ SavedOK /\ TakenOK)
<1>1. Init => DBInit /\ JobOK /\ SavedOK /\ TakenOK
  BY InitJobOK DEF Init, TakenOK
<1>2. DBInit => IInv
  BY InitIInv
<1>3. IInv /\ JobOK /\ SavedOK /\ TakenOK /\ [Next]_projectVars
        => [DBNext]_dbVars /\ IInv' /\ JobOK' /\ SavedOK' /\ TakenOK'
  BY StepIsTransaction, NextJobOK, NextTakenOK, NextIInv DEF IInv
<1> QED BY <1>1, <1>2, <1>3, PTL DEF Spec, DBSpec

(* The outbox of a database that the project service writes replicates it.   *)
THEOREM ServiceOutboxReplicates == Spec => []OutboxReplicates
BY ImplementsDatabase, OutboxReplicatesTables, PTL

(* Every variable of the project service keeps its type.                     *)
THEOREM ServiceTypeCorrect == Spec => []TypeOK
<1>1. DBTypeOK /\ JobOK /\ SavedOK /\ TakenOK => TypeOK
  <2> SUFFICES ASSUME DBTypeOK, JobOK, SavedOK, TakenOK PROVE TypeOK
    OBVIOUS
  <2>1. SaveJob \subseteq [call : {"save"}, project : Project, content : Content,
                           segments : Segments(Segment), batches : Seq(Segments(Segment))]
    BY SeqMonotonic DEF SaveJob, Batch
  <2>2. DeleteJob \subseteq [call : {"delete"}, project : Project, left : SUBSET Row]
    BY DEF DeleteJob, SegmentRow
  <2> QED BY <2>1, <2>2 DEF JobOK, SavedOK, TakenOK, TypeOK
<1> QED BY <1>1, ImplementsDatabase, TypeCorrect, PTL

-----------------------------------------------------------------------------
(* NoOrphanedSegments for one client.  It is not inductive: a save must know *)
(* that its project has a row, a deletion that it knows every segment that   *)
(* is left.  Both hold only because no other client is in a call.            *)
SingleClient == \A c, d \in Client : c = d

SaveHasProject ==
  \A c \in Client : job[c].call = "save" => RowsOf(job[c].project) # {}

DeleteKnowsSegments ==
  \A c \in Client :
    job[c].call = "delete" => GetProjectSegments(job[c].project) \subseteq job[c].left

Parents == NoOrphanedSegments /\ SaveHasProject /\ DeleteKnowsSegments

(* The rows a transaction adds.                                              *)
LEMMA AddRows ==
  ASSUME NEW new, Add(new)
  PROVE  /\ rows \subseteq rows'
         /\ \A r \in rows' \ rows :
              \E e \in DOMAIN new : r.uuid = e /\ r.project = new[e].project
         /\ \A e \in DOMAIN new : \E r \in rows' : r.uuid = e
<1> DEFINE row(e) == [id |-> tx, uuid |-> e, project |-> new[e].project,
                      content |-> new[e].content]
<1>1. rows' = rows \cup {row(e) : e \in DOMAIN new}
  BY DEF Add
<1>2. \A e \in DOMAIN new : row(e).uuid = e /\ row(e).project = new[e].project
  OBVIOUS
<1> HIDE DEF row
<1> QED BY <1>1, <1>2

LEMMA KindsApart ==
  /\ \A p \in Project : p \notin Segment
  /\ \A s \in Segment : s \notin Project /\ s \notin Calculation \cup Layer
BY UuidAssumption

(* The call of a client after a save's transaction.                          *)
LEMMA ContinuedCall ==
  ASSUME JobOK, NEW client \in Client, NEW call, call.call = "save",
         ContinueSave(client, call)
  PROVE  /\ \/ job'[client] = Idle
            \/ job'[client].call = "save" /\ job'[client].project = call.project
         /\ \A c \in Client \ {client} : job'[c] = job[c]
BY DEF ContinueSave, JobOK

LEMMA SaveProjectParents ==
  ASSUME SingleClient, JobOK, Parents, NEW client \in Client, NEW project \in Project,
         NEW content, NEW ducts, NEW fittings,
         SaveProject(client, project, content, ducts, fittings)
  PROVE  Parents'
<1> DEFINE call == Save(project, content, Merge(ducts, fittings), Batches(ducts, fittings))
<1>1. /\ rows \subseteq rows'
      /\ \A r \in rows' \ rows : r.uuid = project
      /\ \E r \in rows' : r.uuid = project
  <2>1. Add(One(project, project, content))
    BY DEF SaveProject, CreateProject
  <2>2. DOMAIN One(project, project, content) = {project}
    BY DEF One
  <2> QED BY <2>1, <2>2, AddRows
<1>2. ContinueSave(client, call) /\ call.call = "save" /\ call.project = project
  BY DEF SaveProject, Save
<1>3. \A c \in Client : c = client
  BY DEF SingleClient
<1>4. \/ job'[client] = Idle
      \/ job'[client].call = "save" /\ job'[client].project = project
  BY <1>2, ContinuedCall
<1>5. NoOrphanedSegments'
  BY <1>1, KindsApart DEF Parents, NoOrphanedSegments, RowsOf
<1>6. SaveHasProject'
  BY <1>1, <1>3, <1>4 DEF SaveHasProject, RowsOf, Idle
<1>7. DeleteKnowsSegments'
  BY <1>3, <1>4 DEF DeleteKnowsSegments, Idle
<1> QED BY <1>5, <1>6, <1>7 DEF Parents

LEMMA SaveSegmentsParents ==
  ASSUME SingleClient, JobOK, Parents, NEW client \in Client, SaveSegments(client)
  PROVE  Parents'
<1> DEFINE project == job[client].project
           batch == Head(job[client].batches)
           call == [job[client] EXCEPT !.batches = Tail(@)]
           new == [s \in DOMAIN batch |-> [project |-> project, content |-> batch[s]]]
<1>1. job[client].call = "save" /\ job[client] \in SaveJob
  BY NextBatch DEF SaveSegments
<1>2. RowsOf(project) # {}
  BY <1>1 DEF Parents, SaveHasProject
<1>3. Add(new)
  BY DEF SaveSegments, BulkSaveProjectSegments
<1>4. /\ rows \subseteq rows'
      /\ \A r \in rows' \ rows : r.project = project
  BY <1>3, AddRows
<1>5. ContinueSave(client, call)
  BY DEF SaveSegments
<1>6. call.call = "save" /\ call.project = project
  BY <1>1 DEF SaveJob
<1>7. \A c \in Client : c = client
  BY DEF SingleClient
<1>8. \/ job'[client] = Idle
      \/ job'[client].call = "save" /\ job'[client].project = project
  <2> HIDE DEF project, call
  <2> QED BY <1>5, <1>6, ContinuedCall
<1> HIDE DEF project, batch, call, new
<1>9. NoOrphanedSegments'
  BY <1>2, <1>4 DEF Parents, NoOrphanedSegments, RowsOf
<1>10. SaveHasProject'
  BY <1>2, <1>4, <1>7, <1>8 DEF SaveHasProject, RowsOf, Idle
<1>11. DeleteKnowsSegments'
  BY <1>7, <1>8 DEF DeleteKnowsSegments, Idle
<1> QED BY <1>9, <1>10, <1>11 DEF Parents

LEMMA DeleteParents ==
  ASSUME SingleClient, DBTypeOK, JobOK, Parents, NEW client \in Client,
         \/ \E project \in Project : BeginDeleteProject(client, project)
         \/ DeleteNextSegment(client)
         \/ EndDeleteProject(client)
         \/ Stop(client)
  PROVE  Parents'
<1>1. \A c \in Client : c = client
  BY DEF SingleClient
<1>2. CASE \E project \in Project : BeginDeleteProject(client, project)
  <2>1. PICK project \in Project : BeginDeleteProject(client, project)
    BY <1>2
  <2>2. rows' = rows /\ job'[client] = Delete(project, GetProjectSegments(project))
    BY <2>1 DEF BeginDeleteProject, JobOK, dbVars
  <2> QED BY <1>1, <2>2 DEF Parents, NoOrphanedSegments, SaveHasProject,
             DeleteKnowsSegments, Delete, GetProjectSegments, RowsOf
<1>3. CASE DeleteNextSegment(client)
  <2>1. PICK r \in job[client].left :
          /\ rows' = rows \ RowsOf(r.uuid)
          /\ job' = [job EXCEPT ![client].left = @ \ {r}]
    BY <1>3 DEF DeleteNextSegment, DeleteProjectSegment
  <2>2. job[client].call = "delete" /\ job[client] \in DeleteJob
    BY <1>3, DeleteJobIs DEF DeleteNextSegment
  <2>3. /\ job'[client].call = "delete"
        /\ job'[client].project = job[client].project
        /\ job'[client].left = job[client].left \ {r}
    BY <2>1, <2>2 DEF JobOK, DeleteJob
  <2>4. r.uuid \in Segment
    BY <2>2 DEF DeleteJob, SegmentRow
  <2>5. NoOrphanedSegments'
    <3> SUFFICES ASSUME NEW s \in rows', s.uuid \in Segment
                 PROVE  RowsOf(s.project)' # {}
      BY DEF NoOrphanedSegments
    <3>1. PICK q \in rows : q.uuid = s.project
      BY <2>1 DEF Parents, NoOrphanedSegments, RowsOf
    <3>2. s.project \in Project
      BY <2>1 DEF DBTypeOK, Row
    <3> QED BY <2>1, <2>4, <3>1, <3>2, KindsApart DEF RowsOf
  <2>6. SaveHasProject'
    BY <1>1, <2>3 DEF SaveHasProject
  <2>7. DeleteKnowsSegments'
    BY <1>1, <2>1, <2>2, <2>3
       DEF Parents, DeleteKnowsSegments, GetProjectSegments, RowsOf
  <2> QED BY <2>5, <2>6, <2>7 DEF Parents
<1>4. CASE EndDeleteProject(client)
  <2>1. /\ job[client].call = "delete" /\ job[client].left = {}
        /\ rows' = rows \ (CascadeOf(job[client].project) \cup RowsOf(job[client].project))
        /\ job'[client] = Idle
    BY <1>4 DEF EndDeleteProject, DeleteProject, JobOK
  <2>2. GetProjectSegments(job[client].project) = {}
    BY <2>1 DEF Parents, DeleteKnowsSegments
  <2>3. NoOrphanedSegments'
    <3> SUFFICES ASSUME NEW s \in rows', s.uuid \in Segment
                 PROVE  RowsOf(s.project)' # {}
      BY DEF NoOrphanedSegments
    <3>1. PICK q \in rows : q.uuid = s.project
      BY <2>1 DEF Parents, NoOrphanedSegments, RowsOf
    <3>2. s.project # job[client].project /\ s.project \in Project
      BY <2>1, <2>2 DEF DBTypeOK, Row, GetProjectSegments
    <3> QED BY <2>1, <3>1, <3>2, UuidAssumption DEF RowsOf, CascadeOf
  <2> QED BY <1>1, <2>1, <2>3 DEF Parents, SaveHasProject, DeleteKnowsSegments, Idle
<1>5. CASE Stop(client)
  <2>1. rows' = rows /\ job'[client] = Idle
    BY <1>5 DEF Stop, JobOK, dbVars
  <2> QED BY <1>1, <2>1 DEF Parents, NoOrphanedSegments, SaveHasProject,
             DeleteKnowsSegments, RowsOf, Idle
<1> QED BY <1>2, <1>3, <1>4, <1>5

LEMMA NextParents ==
  ASSUME SingleClient, DBTypeOK, JobOK, Parents, [Next]_projectVars
  PROVE  Parents'
<1>1. CASE UNCHANGED projectVars
  BY <1>1 DEF projectVars, Parents, NoOrphanedSegments, SaveHasProject,
              DeleteKnowsSegments, RowsOf, GetProjectSegments
<1>2. CASE Next
  BY <1>2, SaveProjectParents, SaveSegmentsParents, DeleteParents DEF Next
<1> QED BY <1>1, <1>2

(* No segment outlives its project when the service has one client, wherever *)
(* its saves and deletions stop.                                             *)
THEOREM SingleClientLeavesNoOrphans ==
  ASSUME SingleClient
  PROVE  Spec => []NoOrphanedSegments
<1>1. Init => Parents
  BY DEF Init, DBInit, Idle, Parents, NoOrphanedSegments, SaveHasProject,
         DeleteKnowsSegments
<1>2. DBTypeOK /\ JobOK /\ Parents /\ [Next]_projectVars => Parents'
  BY NextParents
<1>3. Parents => NoOrphanedSegments
  BY DEF Parents
<1> QED BY <1>1, <1>2, <1>3, ImplementsDatabase, TypeCorrect, PTL DEF Spec

-----------------------------------------------------------------------------
(* AcknowledgedSaveReplicated for one client.  Between its transactions a    *)
(* save must know that each of its segments is on the server or in a batch   *)
(* that is left, and a call on one project disturbs of the others only the   *)
(* segments it takes.                                                        *)
InBatches(call) ==
  \A i \in 1..Len(call.batches) : \A s \in DOMAIN call.batches[i] :
    s \in DOMAIN call.segments /\ call.batches[i][s] = call.segments[s]

Carried(call) ==
  /\ replica[call.project].content = call.content
  /\ \A s \in DOMAIN call.segments :
       \/ replica[s] = [project |-> call.project, content |-> call.segments[s]]
       \/ \E i \in 1..Len(call.batches) : s \in DOMAIN call.batches[i]

SavedFor(p) ==
  saved[p] # NotSaved =>
    /\ replica[p].content = saved[p].content
    /\ \A s \in DOMAIN saved[p].segments \ taken[p] :
         replica[s] = [project |-> p, content |-> saved[p].segments[s]]

SavesCarried ==
  \A c \in Client : job[c].call = "save" => InBatches(job[c]) /\ Carried(job[c])
BusyNotSaved == \A c \in Client : job[c] # Idle => saved[job[c].project] = NotSaved

Saves == AcknowledgedSaveReplicated /\ SavesCarried /\ BusyNotSaved

\* A step touches the server's copies of one project and of what it takes only.
TouchesOnly(project) ==
  \A p \in Project : p # project =>
    /\ taken[p] \subseteq taken'[p]
    /\ replica'[p] = replica[p]
    /\ \A s \in Segment \ taken'[p] : replica'[s] = replica[s]

LEMMA OthersStaySaved ==
  ASSUME SavedOK, Saves, NEW project, TouchesOnly(project),
         NEW p \in Project, p # project, saved'[p] = saved[p]
  PROVE  SavedFor(p)'
<1>1. SavedFor(p)
  BY DEF Saves, AcknowledgedSaveReplicated, SavedFor
<1>2. DOMAIN saved[p].segments \subseteq Segment
  BY SegmentsAre DEF SavedOK
<1>3. /\ taken[p] \subseteq taken'[p] /\ replica'[p] = replica[p]
      /\ \A s \in Segment \ taken'[p] : replica'[s] = replica[s]
  BY DEF TouchesOnly
<1> QED BY <1>1, <1>2, <1>3 DEF SavedFor, NotSaved

(* What the server holds after a transaction that adds.                      *)
LEMMA AddReplica ==
  ASSUME DBTypeOK, NEW new, Add(new)
  PROVE  \A e \in Uuid : replica'[e] = IF e \in DOMAIN new THEN new[e] ELSE replica[e]
BY DEF Add, QueueCreate, Created

LEMMA DeleteReplica ==
  ASSUME NEW uuid, QueueDelete(uuid)
  PROVE  \A e \in Project \cup Segment : e # uuid => replica'[e] = replica[e]
BY UuidAssumption DEF QueueDelete, Deleted, Uuid

(* The batches of a call are its segments.                                   *)
LEMMA BatchesAre ==
  ASSUME NEW ducts \in Segments(Duct), NEW fittings \in Segments(Fitting)
  PROVE  LET all == Merge(ducts, fittings)
             batches == Batches(ducts, fittings)
         IN  /\ \A s \in DOMAIN all : \E i \in 1..Len(batches) : s \in DOMAIN batches[i]
             /\ \A i \in 1..Len(batches) : \A s \in DOMAIN batches[i] :
                  s \in DOMAIN all /\ batches[i][s] = all[s]
<1> DEFINE all == Merge(ducts, fittings)
           batches == Batches(ducts, fittings)
<1>1. DOMAIN ducts \subseteq Duct /\ DOMAIN fittings \subseteq Fitting
  BY SegmentsAre
<1>2. DOMAIN all = DOMAIN ducts \cup DOMAIN fittings
  BY DEF Merge
<1>3. \A s \in DOMAIN ducts : all[s] = ducts[s]
  BY DEF Merge
<1>4. \A s \in DOMAIN fittings : all[s] = fittings[s]
  BY <1>1, SegmentAssumption DEF Merge
<1>5. DOMAIN NoSegments = {}
  BY DEF NoSegments
<1>6. batches = (IF ducts = NoSegments THEN <<>> ELSE <<ducts>>) \o
                (IF fittings = NoSegments THEN <<>> ELSE <<fittings>>)
  BY DEF Batches
<1> HIDE DEF all, batches
<1>8. CASE ducts = NoSegments /\ fittings = NoSegments
  <2>1. batches = <<>>
    BY <1>6, <1>8
  <2> QED BY <1>2, <1>5, <1>8, <2>1 DEF all, batches
<1>9. CASE ducts # NoSegments /\ fittings = NoSegments
  <2>1. batches = <<ducts>>
    BY <1>6, <1>9
  <2>2. Len(batches) = 1 /\ batches[1] = ducts
    BY <2>1
  <2> QED BY <1>2, <1>3, <1>5, <1>9, <2>2 DEF all, batches
<1>10. CASE ducts = NoSegments /\ fittings # NoSegments
  <2>1. batches = <<fittings>>
    BY <1>6, <1>10
  <2>2. Len(batches) = 1 /\ batches[1] = fittings
    BY <2>1
  <2> QED BY <1>2, <1>4, <1>5, <1>10, <2>2 DEF all, batches
<1>11. CASE ducts # NoSegments /\ fittings # NoSegments
  <2>1. /\ <<ducts>> \in Seq({ducts, fittings}) /\ Len(<<ducts>>) = 1
        /\ <<fittings>> \in Seq({ducts, fittings}) /\ Len(<<fittings>>) = 1
        /\ <<ducts>>[1] = ducts /\ <<fittings>>[1] = fittings
    OBVIOUS
  <2>2. Len(batches) = 2 /\ batches[1] = ducts /\ batches[2] = fittings
    <3>1. batches = <<ducts>> \o <<fittings>>
      BY <1>6, <1>11
    <3>2. /\ Len(batches) = 1 + 1
          /\ \A i \in 1..2 :
               batches[i] = IF i <= 1 THEN <<ducts>>[i] ELSE <<fittings>>[i - 1]
      BY <2>1, <3>1, ConcatProperties
    <3> QED BY <2>1, <3>2
  <2>3. 1..Len(batches) = {1, 2}
    BY <2>2
  <2> QED BY <1>2, <1>3, <1>4, <2>2, <2>3 DEF all, batches
<1> QED BY <1>8, <1>9, <1>10, <1>11

(* The call goes on or is acknowledged.                                      *)
LEMMA ContinueSaves ==
  ASSUME SingleClient, JobOK, SavedOK, Saves, NEW client \in Client, NEW call,
         call \in [call : {"save"}, project : Project, content : Content,
                   segments : Segments(Segment), batches : Seq(Batch)],
         ContinueSave(client, call), InBatches(call), Carried(call)',
         TouchesOnly(call.project)
  PROVE  Saves'
<1>1. \A c \in Client : c = client
  BY DEF SingleClient
<1>2. \A p \in Project : p # call.project => SavedFor(p)'
  <2> SUFFICES ASSUME NEW p \in Project, p # call.project
               PROVE  SavedFor(p)'
    OBVIOUS
  <2>1. saved'[p] = saved[p]
    BY DEF ContinueSave, SavedOK
  <2> QED BY <2>1, OthersStaySaved
<1>3. CASE call.batches = <<>>
  <2>1. /\ job'[client] = Idle
        /\ saved'[call.project] = [content |-> call.content, segments |-> call.segments]
    BY <1>3 DEF ContinueSave, JobOK, SavedOK
  <2>2. SavedFor(call.project)'
    BY <1>3, <2>1 DEF SavedFor, Carried
  <2>3. AcknowledgedSaveReplicated'
    BY <1>2, <2>2 DEF AcknowledgedSaveReplicated, SavedFor
  <2> QED BY <1>1, <2>1, <2>3 DEF Saves, SavesCarried, BusyNotSaved, Idle
<1>4. CASE call.batches # <<>>
  <2>1. job'[client] = call /\ saved'[call.project] = NotSaved
    BY <1>4 DEF ContinueSave, JobOK, SavedOK
  <2>2. AcknowledgedSaveReplicated'
    BY <1>2, <2>1 DEF AcknowledgedSaveReplicated, SavedFor
  <2>3. SavesCarried'
    <3> SUFFICES ASSUME NEW c \in Client
                 PROVE  (InBatches(job[c]) /\ Carried(job[c]))'
      BY DEF SavesCarried
    <3>1. job'[c] = call
      BY <1>1, <2>1
    <3> QED BY <3>1 DEF InBatches, Carried
  <2> QED BY <1>1, <2>1, <2>2, <2>3 DEF Saves, BusyNotSaved
<1> QED BY <1>3, <1>4

(* The steps of a save carry the batch they save.                            *)
LEMMA SaveProjectCarries ==
  ASSUME DBTypeOK, TakenOK, NEW client \in Client,
         NEW project \in Project, NEW content \in Content,
         NEW ducts \in Segments(Duct), NEW fittings \in Segments(Fitting),
         SaveProject(client, project, content, ducts, fittings)
  PROVE  LET call == Save(project, content, Merge(ducts, fittings),
                          Batches(ducts, fittings))
         IN  InBatches(call) /\ Carried(call)' /\ TouchesOnly(project)
<1> DEFINE all == Merge(ducts, fittings)
           batches == Batches(ducts, fittings)
           call == Save(project, content, all, batches)
           new == One(project, project, content)
<1>1. Add(new) /\ Take(project, {})
  BY DEF SaveProject, CreateProject
<1>2. DOMAIN new = {project} /\ new[project] = [project |-> project, content |-> content]
  BY DEF One
<1>3. /\ \A s \in DOMAIN all : \E i \in 1..Len(batches) : s \in DOMAIN batches[i]
      /\ \A i \in 1..Len(batches) : \A s \in DOMAIN batches[i] :
           s \in DOMAIN all /\ batches[i][s] = all[s]
  BY BatchesAre
<1> HIDE DEF all, batches, new
<1>4. /\ call.project = project /\ call.content = content
      /\ call.segments = all /\ call.batches = batches
  BY DEF Save
<1>5. replica'[project].content = content
  BY <1>1, <1>2, AddReplica DEF Uuid
<1>6. TouchesOnly(project)
  BY <1>1, <1>2, AddReplica, KindsApart DEF TouchesOnly, Take, TakenOK, Uuid
<1> HIDE DEF call
<1>7. InBatches(call) /\ Carried(call)'
  BY <1>3, <1>4, <1>5 DEF InBatches, Carried
<1> QED BY <1>6, <1>7 DEF call, all, batches

LEMMA SaveSegmentsCarries ==
  ASSUME SingleClient, DBTypeOK, JobOK, TakenOK, Saves, NEW client \in Client,
         SaveSegments(client), NEW old, old = job[client]
  PROVE  LET call == [old EXCEPT !.batches = Tail(@)]
         IN  InBatches(call) /\ Carried(call)' /\ TouchesOnly(call.project)
<1> DEFINE batch == Head(old.batches)
           call == [old EXCEPT !.batches = Tail(@)]
           new == [s \in DOMAIN batch |-> [project |-> old.project, content |-> batch[s]]]
<1>1. old.call = "save" /\ Add(new) /\ Take(old.project, DOMAIN batch)
  BY DEF SaveSegments, BulkSaveProjectSegments
<1>2. old \in SaveJob /\ batch \in Batch
  BY <1>1, NextBatch
<1>3. InBatches(old) /\ Carried(old)
  BY <1>1 DEF Saves, SavesCarried
<1>4. /\ call.project = old.project /\ call.content = old.content
      /\ call.segments = old.segments /\ call.batches = Tail(old.batches)
  BY <1>2 DEF SaveJob
<1>5. /\ old.project \in Project /\ DOMAIN old.segments \subseteq Segment
      /\ old.batches \in Seq(Batch) /\ old.batches # <<>>
  BY <1>2, SegmentsAre DEF SaveJob
<1>6. /\ DOMAIN new = DOMAIN batch
      /\ \A s \in DOMAIN batch : new[s] = [project |-> old.project, content |-> batch[s]]
  OBVIOUS
<1> HIDE DEF call, new
<1>7. /\ Len(old.batches) \in Nat \ {0} /\ batch = old.batches[1]
      /\ Len(call.batches) = Len(old.batches) - 1
      /\ \A i \in 1..Len(call.batches) : call.batches[i] = old.batches[i + 1]
  BY <1>4, <1>5, HeadTailProperties, EmptySeq
<1> HIDE DEF batch
<1>8. \A s \in DOMAIN batch :
        s \in Segment /\ s \in DOMAIN old.segments /\ batch[s] = old.segments[s]
  BY <1>3, <1>5, <1>7 DEF InBatches
<1>9. \A e \in Uuid : replica'[e] = IF e \in DOMAIN batch THEN new[e] ELSE replica[e]
  BY <1>1, <1>6, AddReplica
<1>10. TouchesOnly(old.project)
  <2> SUFFICES ASSUME NEW p \in Project, p # old.project
               PROVE  /\ taken[p] \subseteq taken'[p]
                      /\ replica'[p] = replica[p]
                      /\ \A s \in Segment \ taken'[p] : replica'[s] = replica[s]
    BY DEF TouchesOnly
  <2>1. taken'[p] = taken[p] \cup DOMAIN batch
    BY <1>1 DEF Take
  <2>2. p \notin DOMAIN batch
    BY <1>8, KindsApart
  <2> QED BY <1>9, <2>1, <2>2 DEF Uuid
<1>11. InBatches(call)
  <2> SUFFICES ASSUME NEW i \in 1..Len(call.batches)
               PROVE  \A s \in DOMAIN call.batches[i] :
                        /\ s \in DOMAIN call.segments
                        /\ call.batches[i][s] = call.segments[s]
    BY DEF InBatches
  <2>1. i + 1 \in 1..Len(old.batches) /\ call.batches[i] = old.batches[i + 1]
    BY <1>7
  <2> QED BY <1>3, <1>4, <2>1 DEF InBatches
<1>12. Carried(call)'
  <2>1. replica'[old.project].content = old.content
    BY <1>3, <1>5, <1>8, <1>9, KindsApart DEF Carried, Uuid
  <2>2. ASSUME NEW s \in DOMAIN old.segments
        PROVE  \/ replica'[s] = [project |-> old.project, content |-> old.segments[s]]
               \/ \E i \in 1..Len(call.batches) : s \in DOMAIN call.batches[i]
    <3>1. s \in Uuid
      BY <1>5 DEF Uuid
    <3>2. CASE s \in DOMAIN batch
      BY <1>6, <1>8, <1>9, <3>1, <3>2
    <3>3. CASE /\ s \notin DOMAIN batch
               /\ replica[s] = [project |-> old.project, content |-> old.segments[s]]
      BY <1>9, <3>1, <3>3
    <3>4. ASSUME s \notin DOMAIN batch,
                 NEW i \in 1..Len(old.batches), s \in DOMAIN old.batches[i]
          PROVE  \E j \in 1..Len(call.batches) : s \in DOMAIN call.batches[j]
      <4>1. i - 1 \in 1..Len(call.batches)
        BY <1>7, <3>4
      <4>2. call.batches[i - 1] = old.batches[i]
        BY <1>7, <4>1
      <4> QED BY <3>4, <4>1, <4>2
    <3> QED BY <1>3, <3>2, <3>3, <3>4 DEF Carried
  <2> QED BY <1>4, <2>1, <2>2 DEF Carried
<1> QED BY <1>4, <1>10, <1>11, <1>12 DEF call

LEMMA SavingSaves ==
  ASSUME SingleClient, DBTypeOK, JobOK, SavedOK, TakenOK, Saves, NEW client \in Client,
         \/ \E project \in Project, content \in Content,
               ducts \in Segments(Duct), fittings \in Segments(Fitting) :
              SaveProject(client, project, content, ducts, fittings)
         \/ SaveSegments(client)
  PROVE  Saves'
<1>1. ASSUME NEW project \in Project, NEW content \in Content,
             NEW ducts \in Segments(Duct), NEW fittings \in Segments(Fitting),
             SaveProject(client, project, content, ducts, fittings)
      PROVE  Saves'
  <2> DEFINE call == Save(project, content, Merge(ducts, fittings),
                          Batches(ducts, fittings))
  <2>1. /\ call \in [call : {"save"}, project : Project, content : Content,
                     segments : Segments(Segment), batches : Seq(Batch)]
        /\ call.project = project
    BY CallSegments DEF Save
  <2>2. ContinueSave(client, call)
    BY <1>1 DEF SaveProject
  <2>3. InBatches(call) /\ Carried(call)' /\ TouchesOnly(project)
    BY <1>1, SaveProjectCarries
  <2> HIDE DEF call
  <2> QED BY <2>1, <2>2, <2>3, ContinueSaves
<1>2. ASSUME SaveSegments(client)
      PROVE  Saves'
  <2>0. PICK old : old = job[client]
    OBVIOUS
  <2> DEFINE call == [old EXCEPT !.batches = Tail(@)]
  <2>1. ContinueSave(client, call)
    BY <1>2, <2>0 DEF SaveSegments
  <2>2. call \in [call : {"save"}, project : Project, content : Content,
                  segments : Segments(Segment), batches : Seq(Batch)]
    BY <1>2, <2>0, NextBatch DEF SaveSegments
  <2>3. InBatches(call) /\ Carried(call)' /\ TouchesOnly(call.project)
    BY <1>2, <2>0, SaveSegmentsCarries
  <2> HIDE DEF call
  <2> QED BY <2>1, <2>2, <2>3, ContinueSaves
<1> QED BY <1>1, <1>2

LEMMA DeleteSaves ==
  ASSUME SingleClient, DBTypeOK, JobOK, SavedOK, TakenOK, Saves, NEW client \in Client,
         \/ \E project \in Project : BeginDeleteProject(client, project)
         \/ DeleteNextSegment(client)
         \/ EndDeleteProject(client)
         \/ Stop(client)
  PROVE  Saves'
<1>1. \A c \in Client : c = client
  BY DEF SingleClient
<1>2. CASE \E project \in Project : BeginDeleteProject(client, project)
  <2>1. PICK project \in Project : BeginDeleteProject(client, project)
    BY <1>2
  <2>2. /\ replica' = replica /\ taken' = taken
        /\ job'[client] = Delete(project, GetProjectSegments(project))
        /\ saved' = [saved EXCEPT ![project] = NotSaved]
    BY <2>1 DEF BeginDeleteProject, JobOK, dbVars
  <2>3. /\ saved'[project] = NotSaved
        /\ \A p \in Project : p # project => saved'[p] = saved[p]
    BY <2>2 DEF SavedOK
  <2>4. job'[client].call = "delete" /\ job'[client].project = project
    BY <2>2 DEF Delete
  <2>5. AcknowledgedSaveReplicated'
    BY <2>2, <2>3 DEF Saves, AcknowledgedSaveReplicated
  <2>6. SavesCarried' /\ BusyNotSaved'
    BY <1>1, <2>3, <2>4 DEF SavesCarried, BusyNotSaved
  <2> QED BY <2>5, <2>6 DEF Saves
<1>3. CASE DeleteNextSegment(client)
  <2>1. PICK r \in job[client].left :
          /\ QueueDelete(r.uuid) /\ Take(job[client].project, {r.uuid})
          /\ job' = [job EXCEPT ![client].left = @ \ {r}]
    BY <1>3 DEF DeleteNextSegment, DeleteProjectSegment
  <2>2. job[client].call = "delete" /\ job[client] \in DeleteJob /\ saved' = saved
    BY <1>3, DeleteJobIs DEF DeleteNextSegment
  <2>3. /\ job'[client].call = "delete"
        /\ job'[client].project = job[client].project
    BY <2>1, <2>2 DEF JobOK, DeleteJob
  <2>4. job[client].project \in Project /\ r.uuid \in Segment
    BY <2>2 DEF DeleteJob, SegmentRow
  <2>5. TouchesOnly(job[client].project)
    <3>1. \A p \in Project : p # job[client].project => taken'[p] = taken[p] \cup {r.uuid}
      BY <2>1 DEF Take
    <3> QED BY <2>1, <2>4, <3>1, DeleteReplica, KindsApart DEF TouchesOnly
  <2>6. saved[job[client].project] = NotSaved
    BY <2>2 DEF Saves, BusyNotSaved, Idle
  <2>7. AcknowledgedSaveReplicated'
    BY <2>2, <2>4, <2>5, <2>6, OthersStaySaved DEF AcknowledgedSaveReplicated, SavedFor
  <2>8. SavesCarried' /\ BusyNotSaved'
    BY <1>1, <2>2, <2>3, <2>6 DEF Saves, SavesCarried, BusyNotSaved
  <2> QED BY <2>7, <2>8 DEF Saves
<1>4. CASE EndDeleteProject(client)
  <2>1. /\ job[client].call = "delete" /\ job[client] \in DeleteJob
        /\ QueueDelete(job[client].project) /\ taken' = taken
        /\ job'[client] = Idle /\ saved' = saved
    BY <1>4, DeleteJobIs DEF EndDeleteProject, DeleteProject, JobOK
  <2>2. job[client].project \in Project
    BY <2>1 DEF DeleteJob
  <2>3. TouchesOnly(job[client].project)
    BY <2>1, <2>2, DeleteReplica, KindsApart DEF TouchesOnly
  <2>4. saved[job[client].project] = NotSaved
    BY <2>1 DEF Saves, BusyNotSaved, Idle
  <2>5. AcknowledgedSaveReplicated'
    BY <2>1, <2>2, <2>3, <2>4, OthersStaySaved DEF AcknowledgedSaveReplicated, SavedFor
  <2> QED BY <1>1, <2>1, <2>5 DEF Saves, SavesCarried, BusyNotSaved, Idle
<1>5. CASE Stop(client)
  <2>1. /\ replica' = replica /\ saved' = saved /\ taken' = taken /\ job'[client] = Idle
    BY <1>5 DEF Stop, JobOK, dbVars
  <2> QED BY <1>1, <2>1
          DEF Saves, AcknowledgedSaveReplicated, SavesCarried, BusyNotSaved, Idle
<1> QED BY <1>2, <1>3, <1>4, <1>5

LEMMA NextSaves ==
  ASSUME SingleClient, DBTypeOK, JobOK, SavedOK, TakenOK, Saves, [Next]_projectVars
  PROVE  Saves'
<1>1. CASE UNCHANGED projectVars
  BY <1>1 DEF projectVars, Saves, AcknowledgedSaveReplicated, SavesCarried, Carried,
              BusyNotSaved
<1>2. CASE Next
  BY <1>2, SavingSaves, DeleteSaves DEF Next
<1> QED BY <1>1, <1>2

LEMMA InitSaves == Init => Saves
BY DEF Init, DBInit, Idle, NotSaved, NoSegments, Saves, AcknowledgedSaveReplicated,
       SavesCarried, BusyNotSaved

(* A save that has returned is complete in the outbox when the service has   *)
(* one client, whatever saves and deletions stopped half-way before it, but  *)
(* for the segments whose id a call on another project has used since.       *)
THEOREM AcknowledgedSavesReplicated ==
  ASSUME SingleClient
  PROVE  Spec => []AcknowledgedSaveReplicated
<1>1. Init => Saves
  BY InitSaves
<1>2. DBTypeOK /\ JobOK /\ SavedOK /\ TakenOK /\ Saves /\ [Next]_projectVars => Saves'
  BY NextSaves
<1>3. Saves => AcknowledgedSaveReplicated
  BY DEF Saves
<1> QED BY <1>1, <1>2, <1>3, ImplementsDatabase, TypeCorrect, PTL DEF Spec

-----------------------------------------------------------------------------
(* The hook, over what is proved of the service.                             *)

Showable == [project : Project, content : Content, segments : Segments(Segment)]

HookOK ==
  /\ current \in [Client -> Showable \cup {Nothing}]
  /\ projects \in [Client -> SUBSET Project]
  /\ creating \in [Client -> BOOLEAN]

SaveCall == [call : {"save"}, project : Project, content : Content,
             segments : Segments(Segment), batches : Seq(Batch)]

-----------------------------------------------------------------------------
LEMMA OnlyIs ==
  ASSUME NEW f \in Segments(Segment), NEW S \in SUBSET Segment
  PROVE  Only(f, S) \in Segments(S)
<1>1. f \in [DOMAIN f -> Content]
  BY SegmentsAre
<1>2. Only(f, S) \in [DOMAIN f \cap S -> Content]
  BY <1>1 DEF Only
<1>3. DOMAIN f \cap S \in SUBSET S
  OBVIOUS
<1> QED BY <1>2, <1>3, SegmentsIntro

LEMMA SegmentsGrow ==
  ASSUME NEW S \in SUBSET Segment, NEW f \in Segments(S)
  PROVE  f \in Segments(Segment)
BY SegmentsAre, SegmentsIntro

LEMMA NothingIsNotShowable == Nothing \notin Showable
BY NoneAssumption DEF Nothing, Showable

(* A step of a save: it goes on, or it returns and is shown.                 *)
SaveStep(client, call, new) ==
  /\ call \in SaveCall
  /\ ContinueSave(client, call) /\ Saved(client, call, new)

LEMMA BeginIs ==
  ASSUME NEW client \in Client, NEW project \in Project, NEW content \in Content,
         NEW segments \in Segments(Segment), NEW new \in BOOLEAN,
         Begin(client, project, content, segments, new)
  PROVE  /\ \E ducts \in Segments(Duct), fittings \in Segments(Fitting) :
              SaveProject(client, project, content, ducts, fittings)
         /\ \E call \in SaveCall :
              call.project = project /\ SaveStep(client, call, new)
         /\ creating' = [creating EXCEPT ![client] = new]
<1> DEFINE ducts == Only(segments, Duct)
           fittings == Only(segments, Fitting)
           call == Save(project, content, Merge(ducts, fittings),
                        Batches(ducts, fittings))
<1>1. /\ SaveProject(client, project, content, ducts, fittings)
      /\ Saved(client, call, new)
      /\ creating' = [creating EXCEPT ![client] = new]
  BY DEF Begin
<1>2. ducts \in Segments(Duct) /\ fittings \in Segments(Fitting)
  BY OnlyIs, SegmentAssumption
<1>3. ContinueSave(client, call)
  BY <1>1 DEF SaveProject
<1> HIDE DEF ducts, fittings
<1>4. call \in SaveCall /\ call.project = project
  BY <1>2, CallSegments DEF Save, SaveCall
<1> HIDE DEF call
<1>5. SaveStep(client, call, new)
  BY <1>1, <1>3, <1>4 DEF SaveStep
<1> QED BY <1>1, <1>2, <1>4, <1>5

LEMMA ContinueIs ==
  ASSUME JobOK, NEW client \in Client, ContinueSaving(client)
  PROVE  \E call \in SaveCall :
           call.project = job[client].project /\ SaveStep(client, call, creating[client])
<1> DEFINE call == [job[client] EXCEPT !.batches = Tail(@)]
<1>1. /\ job[client].call = "save"
      /\ ContinueSave(client, call)
      /\ Saved(client, job[client], creating[client])
  BY DEF ContinueSaving, SaveSegments
<1>2. call \in SaveCall /\ job[client] \in SaveJob
  BY <1>1, NextBatch DEF SaveCall
<1>3. Shown(call) = Shown(job[client]) /\ call.project = job[client].project
  BY <1>2 DEF Shown, SaveJob
<1> HIDE DEF call
<1>4. Saved(client, call, creating[client])
  BY <1>1, <1>3 DEF Saved
<1> QED BY <1>1, <1>2, <1>3, <1>4 DEF SaveStep

(* What a save's step leaves.                                                *)
LEMMA SaveStepIs ==
  ASSUME JobOK, SavedOK, HookOK, NEW client \in Client, NEW call \in SaveCall,
         NEW new \in BOOLEAN, SaveStep(client, call, new)
  PROVE  /\ \/ /\ job'[client] = Idle
               /\ current' = [current EXCEPT ![client] = Shown(call)]
               /\ \/ projects' = projects
                  \/ projects' = [projects EXCEPT ![client] = @ \cup {call.project}]
               /\ saved' = [saved EXCEPT ![call.project] =
                              [content |-> call.content, segments |-> call.segments]]
            \/ /\ job'[client] = call
               /\ saved' = [saved EXCEPT ![call.project] = NotSaved]
               /\ UNCHANGED <<current, projects>>
         /\ \A c \in Client \ {client} : job'[c] = job[c]
<1>1. ContinueSave(client, call) /\ Saved(client, call, new)
  BY DEF SaveStep
<1>2. \A c \in Client \ {client} : job'[c] = job[c]
  BY <1>1 DEF ContinueSave, JobOK
<1>3. CASE call.batches = <<>>
  <2>1. /\ job'[client] = Idle
        /\ saved' = [saved EXCEPT ![call.project] =
                       [content |-> call.content, segments |-> call.segments]]
    BY <1>1, <1>3 DEF ContinueSave, JobOK
  <2>2. /\ current' = [current EXCEPT ![client] = Shown(call)]
        /\ projects' = [projects EXCEPT ![client] =
                          IF new THEN @ \cup {call.project} ELSE @]
    BY <1>1, <2>1 DEF Saved
  <2>3. \/ projects' = projects
        \/ projects' = [projects EXCEPT ![client] = @ \cup {call.project}]
    BY <2>2 DEF HookOK
  <2> QED BY <1>2, <2>1, <2>2, <2>3
<1>4. CASE call.batches # <<>>
  <2>1. /\ job'[client] = call
        /\ saved' = [saved EXCEPT ![call.project] = NotSaved]
    BY <1>1, <1>4 DEF ContinueSave, JobOK
  <2>2. call # Idle
    BY DEF SaveCall, Idle
  <2> QED BY <1>1, <1>2, <2>1, <2>2 DEF Saved
<1> QED BY <1>3, <1>4

LEMMA SaveStepOK ==
  ASSUME JobOK, SavedOK, HookOK, NEW client \in Client, NEW call \in SaveCall,
         NEW new \in BOOLEAN, SaveStep(client, call, new),
         creating' \in [Client -> BOOLEAN]
  PROVE  HookOK'
<1>1. Shown(call) \in Showable /\ call.project \in Project
  BY DEF Shown, Showable, SaveCall
<1>2. \/ /\ job'[client] = Idle
         /\ current' = [current EXCEPT ![client] = Shown(call)]
         /\ \/ projects' = projects
            \/ projects' = [projects EXCEPT ![client] = @ \cup {call.project}]
         /\ saved' = [saved EXCEPT ![call.project] =
                        [content |-> call.content, segments |-> call.segments]]
      \/ /\ job'[client] = call
         /\ saved' = [saved EXCEPT ![call.project] = NotSaved]
         /\ UNCHANGED <<current, projects>>
  BY SaveStepIs
<1>3. current' \in [Client -> Showable \cup {Nothing}]
  BY <1>1, <1>2 DEF HookOK
<1>4. projects' \in [Client -> SUBSET Project]
  BY <1>1, <1>2 DEF HookOK
<1> QED BY <1>3, <1>4 DEF HookOK

-----------------------------------------------------------------------------
(* The steps that are steps of a save, and their transactions.               *)
Writes(client, project) ==
  /\ \/ \E content \in Content : CreateProject(project, content)
     \/ SaveSegments(client) /\ job[client].project = project
  /\ taken'[project] = {}

LEMMA SavingIs ==
  ASSUME JobOK, HookOK, NEW client \in Client, Saving(client)
  PROVE  /\ Next
         /\ \E call \in SaveCall, new \in BOOLEAN :
              SaveStep(client, call, new) /\ Writes(client, call.project)
         /\ creating' \in [Client -> BOOLEAN]
<1>1. ASSUME NEW project \in Project, NEW content \in Content,
             NEW segments \in Segments(Segment), NEW new \in BOOLEAN,
             Begin(client, project, content, segments, new)
      PROVE  /\ Next
             /\ \E call \in SaveCall :
                  SaveStep(client, call, new) /\ Writes(client, call.project)
             /\ creating' \in [Client -> BOOLEAN]
  <2>1. CreateProject(project, content) /\ Take(project, {})
    BY <1>1 DEF Begin, SaveProject
  <2>2. Writes(client, project)
    BY <2>1 DEF Writes, Take
  <2> QED BY <1>1, <2>2, BeginIs DEF Next, HookOK
<1>2. CASE ContinueSaving(client)
  <2>1. SaveSegments(client) /\ UNCHANGED creating
    BY <1>2 DEF ContinueSaving
  <2>2. creating[client] \in BOOLEAN
    BY DEF HookOK
  <2>3. job[client].project \in Project
    BY <2>1, NextBatch DEF SaveSegments, SaveJob
  <2>4. Writes(client, job[client].project)
    BY <2>1, <2>3 DEF SaveSegments, Take, Writes
  <2> QED BY <1>2, <2>1, <2>2, <2>4, ContinueIs DEF Next, HookOK
<1>3. ASSUME current[client] # Nothing
      PROVE  /\ current[client].project \in Project
             /\ current[client].content \in Content
             /\ current[client].segments \in Segments(Segment)
  BY <1>3 DEF HookOK, Showable
<1>4. ASSUME NEW content \in Content, SaveCurrent(client, content)
      PROVE  Begin(client, current[client].project, content,
                   current[client].segments, FALSE) /\ current[client] # Nothing
  BY <1>4 DEF SaveCurrent
<1>5. ASSUME NEW content \in Content, NEW segment \in Segment,
             PutSegment(client, segment, content)
      PROVE  \E project \in Project, data \in Content, segments \in Segments(Segment) :
               Begin(client, project, data, segments, FALSE)
  <2> DEFINE shown == current[client]
             segments == [s \in DOMAIN shown.segments \cup {segment} |->
                            IF s = segment THEN content ELSE shown.segments[s]]
  <2>1. /\ shown # Nothing
        /\ Begin(client, shown.project, shown.content, segments, FALSE)
    BY <1>5 DEF PutSegment
  <2>2. /\ shown.segments \in [DOMAIN shown.segments -> Content]
        /\ DOMAIN shown.segments \subseteq Segment
    BY <1>3, <2>1, SegmentsAre
  <2>3. /\ segments \in [DOMAIN shown.segments \cup {segment} -> Content]
        /\ DOMAIN shown.segments \cup {segment} \in SUBSET Segment
    BY <2>2
  <2>4. segments \in Segments(Segment)
    BY <2>3, SegmentsIntro
  <2> QED BY <1>3, <2>1, <2>4
<1>6. ASSUME NEW segment \in Segment, LeaveOutSegment(client, segment)
      PROVE  \E project \in Project, data \in Content, segments \in Segments(Segment) :
               Begin(client, project, data, segments, FALSE)
  <2> DEFINE shown == current[client]
             segments == Only(shown.segments, Segment \ {segment})
  <2>1. /\ segment \in DOMAIN shown.segments
        /\ Begin(client, shown.project, shown.content, segments, FALSE)
    BY <1>6 DEF LeaveOutSegment
  <2>2. shown # Nothing
    BY <2>1 DEF Nothing, NoSegments
  <2>3. segments \in Segments(Segment)
    BY <1>3, <2>2, OnlyIs, SegmentsGrow
  <2> QED BY <1>3, <2>1, <2>2, <2>3
<1>7. ASSUME NEW content \in Content, NEW p \in Project,
             NEW segments \in Segments(Segment),
             CreateNewProject(client, p, content, segments)
      PROVE  Begin(client, p, content, segments, TRUE)
  BY <1>7 DEF CreateNewProject
<1> QED BY <1>1, <1>2, <1>3, <1>4, <1>5, <1>6, <1>7 DEF Saving

-----------------------------------------------------------------------------
(* What each kind of step does to what the components show.                  *)
Quiet(client) ==
  /\ \/ \E project \in Project : BeginDeleteProject(client, project)
     \/ DeleteNextSegment(client) \/ Stop(client) \/ UNCHANGED projectVars
  /\ current' \in {current, [current EXCEPT ![client] = Nothing]}
  /\ projects' \in {projects, [projects EXCEPT ![client] = {}]}
  /\ creating' = creating

LEMMA HookSteps ==
  ASSUME JobOK, HookOK, [HookNext]_vars
  PROVE  \/ \E client \in Client : Saving(client)
         \/ \E client \in Client : RemoveDeleted(client)
         \/ \E client \in Client : Quiet(client)
         \/ UNCHANGED vars
<1>1. ASSUME NEW client \in Client,
             \/ ContinueDeleting(client) \/ Failed(client) \/ Reopen(client)
             \/ LoadProjectList(client)
             \/ \E p \in Project : LoadNothing(client, p)
      PROVE  Quiet(client)
  BY <1>1 DEF ContinueDeleting, Failed, Reopen, LoadProjectList, LoadNothing, Quiet,
              hookVars, projectVars
<1> QED BY <1>1 DEF HookNext

LEMMA NextHookOK ==
  ASSUME JobOK, SavedOK, HookOK, [HookNext]_vars
  PROVE  HookOK' /\ [Next]_projectVars
<1>1. CASE UNCHANGED vars
  BY <1>1 DEF vars, hookVars, projectVars, HookOK
<1>2. ASSUME NEW client \in Client, Saving(client)
      PROVE  HookOK' /\ Next
  BY <1>2, SavingIs, SaveStepOK
<1>3. ASSUME NEW client \in Client, RemoveDeleted(client)
      PROVE  HookOK' /\ Next
  <2>1. /\ EndDeleteProject(client) /\ UNCHANGED creating
        /\ projects' = [projects EXCEPT ![client] = @ \ {job[client].project}]
        /\ current' \in {current, [current EXCEPT ![client] = Nothing]}
    <3>1. /\ EndDeleteProject(client) /\ UNCHANGED creating
          /\ projects' = [projects EXCEPT ![client] = @ \ {job[client].project}]
          /\ current' = [current EXCEPT ![client] =
                           IF @.project = job[client].project THEN Nothing ELSE @]
      BY <1>3 DEF RemoveDeleted
    <3> QED BY <3>1 DEF HookOK
  <2> QED BY <2>1 DEF HookOK, Next
<1>4. ASSUME NEW client \in Client, Quiet(client)
      PROVE  HookOK' /\ [Next]_projectVars
  <2>1. [Next]_projectVars
    BY <1>4 DEF Quiet, Next
  <2> QED BY <1>4, <2>1 DEF Quiet, HookOK
<1> QED BY <1>1, <1>2, <1>3, <1>4, HookSteps

LEMMA InitHookOK == HookInit => HookOK
BY DEF HookInit, HookOK

(* The hook uses the service only by its calls: what is proved of the        *)
(* service, and of the database below it, holds under any components.        *)
THEOREM HookImplementsService == HookSpec => Spec /\ []HookOK
<1>1. HookInit => Init /\ IInv /\ JobOK /\ SavedOK /\ TakenOK /\ HookOK
  BY InitJobOK, InitIInv, InitHookOK DEF HookInit, Init, TakenOK
<1>2. IInv /\ JobOK /\ SavedOK /\ TakenOK /\ HookOK /\ [HookNext]_vars
        => /\ [Next]_projectVars /\ IInv'
           /\ JobOK' /\ SavedOK' /\ TakenOK' /\ HookOK'
  BY NextHookOK, StepIsTransaction, NextJobOK, NextTakenOK, NextIInv DEF IInv
<1> QED BY <1>1, <1>2, PTL DEF HookSpec, Spec

-----------------------------------------------------------------------------
(* What a single component lists has a row, and what it shows is what was    *)
(* saved unless a call on it has begun since.                                *)
ListedHaveRows == \A c \in Client : \A p \in projects[c] : RowsOf(p) # {}
ShownHaveRows ==
  \A c \in Client : current[c] # Nothing => RowsOf(current[c].project) # {}
ShownIsSaved ==
  \A c \in Client :
    current[c] # Nothing /\ saved[current[c].project] # NotSaved =>
      saved[current[c].project] =
        [content |-> current[c].content, segments |-> current[c].segments]
Displayed == ListedHaveRows /\ ShownHaveRows /\ ShownIsSaved

LEMMA WritesKeepRows ==
  ASSUME JobOK, Parents, NEW client \in Client, NEW project \in Project,
         Writes(client, project)
  PROVE  rows \subseteq rows' /\ \E r \in rows' : r.uuid = project
<1>1. ASSUME NEW content \in Content, CreateProject(project, content)
      PROVE  rows \subseteq rows' /\ \E r \in rows' : r.uuid = project
  BY <1>1, AddRows DEF CreateProject, One
<1>2. ASSUME SaveSegments(client), job[client].project = project
      PROVE  rows \subseteq rows' /\ \E r \in rows' : r.uuid = project
  <2>1. job[client].call = "save"
    BY <1>2 DEF SaveSegments
  <2>2. \E r \in rows : r.uuid = project
    BY <1>2, <2>1 DEF Parents, SaveHasProject, RowsOf
  <2>3. rows \subseteq rows'
    BY <1>2, AddRows DEF SaveSegments, BulkSaveProjectSegments
  <2> QED BY <2>2, <2>3
<1> QED BY <1>1, <1>2 DEF Writes

LEMMA SavingDisplayed ==
  ASSUME SingleClient, JobOK, SavedOK, HookOK, Parents, Displayed,
         NEW client \in Client, Saving(client)
  PROVE  Displayed'
<1>1. PICK call \in SaveCall, new \in BOOLEAN :
        SaveStep(client, call, new) /\ Writes(client, call.project)
  BY SavingIs
<1>2. \/ /\ job'[client] = Idle
         /\ current' = [current EXCEPT ![client] = Shown(call)]
         /\ \/ projects' = projects
            \/ projects' = [projects EXCEPT ![client] = @ \cup {call.project}]
         /\ saved' = [saved EXCEPT ![call.project] =
                        [content |-> call.content, segments |-> call.segments]]
      \/ /\ job'[client] = call
         /\ saved' = [saved EXCEPT ![call.project] = NotSaved]
         /\ UNCHANGED <<current, projects>>
  BY <1>1, SaveStepIs
<1>3. call.project \in Project
  BY DEF SaveCall
<1>4. rows \subseteq rows' /\ \E r \in rows' : r.uuid = call.project
  BY <1>1, <1>3, WritesKeepRows
<1>5. \A c \in Client : c = client
  BY DEF SingleClient
<1>6. ListedHaveRows'
  BY <1>2, <1>4, <1>5 DEF Displayed, ListedHaveRows, RowsOf, HookOK
<1>7. Shown(call).project = call.project /\ Shown(call).content = call.content
      /\ Shown(call).segments = call.segments
  BY DEF Shown
<1>8. ShownHaveRows'
  BY <1>2, <1>4, <1>5, <1>7 DEF Displayed, ShownHaveRows, RowsOf, HookOK
<1>9. ShownIsSaved'
  <2>1. CASE current' = [current EXCEPT ![client] = Shown(call)]
             /\ saved' = [saved EXCEPT ![call.project] =
                            [content |-> call.content, segments |-> call.segments]]
    BY <1>3, <1>5, <1>7, <2>1 DEF ShownIsSaved, HookOK, SavedOK
  <2>2. CASE saved' = [saved EXCEPT ![call.project] = NotSaved] /\ UNCHANGED current
    BY <1>3, <2>2 DEF Displayed, ShownIsSaved, SavedOK
  <2> QED BY <1>2, <2>1, <2>2
<1> QED BY <1>6, <1>8, <1>9 DEF Displayed

LEMMA OthersDisplayed ==
  ASSUME SingleClient, JobOK, SavedOK, HookOK, Displayed, NEW client \in Client,
         Quiet(client) \/ RemoveDeleted(client)
  PROVE  Displayed'
<1>1. \A c \in Client : c = client
  BY DEF SingleClient
<1>2. CASE RemoveDeleted(client)
  <2> DEFINE project == job[client].project
  <2>1. /\ job[client].call = "delete" /\ DeleteProject(project) /\ UNCHANGED saved
        /\ projects' = [projects EXCEPT ![client] = @ \ {project}]
        /\ current' = [current EXCEPT ![client] =
                         IF @.project = project THEN Nothing ELSE @]
    BY <1>2 DEF RemoveDeleted, EndDeleteProject
  <2>2. project \in Project
    BY <2>1, DeleteJobIs DEF DeleteJob
  <2>3. \A p \in Project : p # project => RowsOf(p)' = RowsOf(p)
    BY <2>1, UuidAssumption DEF DeleteProject, CascadeOf, RowsOf
  <2> HIDE DEF project
  <2>4. ListedHaveRows'
    BY <1>1, <2>1, <2>3 DEF Displayed, ListedHaveRows, HookOK
  <2>5. \/ current'[client] = Nothing
        \/ /\ current'[client] = current[client]
           /\ current[client].project # project
           /\ current[client].project \in Project
    BY <2>1 DEF HookOK, Showable
  <2>6. ShownHaveRows' /\ ShownIsSaved'
    BY <1>1, <2>1, <2>3, <2>5 DEF Displayed, ShownHaveRows, ShownIsSaved
  <2> QED BY <2>4, <2>6 DEF Displayed
<1>3. CASE Quiet(client)
  <2>1. /\ current'[client] = current[client] \/ current'[client] = Nothing
        /\ projects'[client] = projects[client] \/ projects'[client] = {}
    BY <1>3 DEF Quiet, HookOK
  <2>2. \A p \in Project : RowsOf(p)' = RowsOf(p)
    <3>1. ASSUME DeleteNextSegment(client)
          PROVE  \A p \in Project : RowsOf(p)' = RowsOf(p)
      <4>1. PICK r \in job[client].left : rows' = rows \ RowsOf(r.uuid)
        BY <3>1 DEF DeleteNextSegment, DeleteProjectSegment
      <4>2. r.uuid \in Segment
        BY <3>1, DeleteJobIs DEF DeleteNextSegment, DeleteJob, SegmentRow
      <4> QED BY <4>1, <4>2, KindsApart DEF RowsOf
    <3>2. ASSUME \/ \E project \in Project : BeginDeleteProject(client, project)
                 \/ Stop(client) \/ UNCHANGED projectVars
          PROVE  rows' = rows
      BY <3>2 DEF BeginDeleteProject, Stop, projectVars, dbVars
    <3> QED BY <1>3, <3>1, <3>2 DEF Quiet, RowsOf
  <2>3. \A p \in Project : saved'[p] \in {saved[p], NotSaved}
    BY <1>3 DEF Quiet, BeginDeleteProject, DeleteNextSegment, Stop, projectVars, SavedOK
  <2>4. current[client] # Nothing => current[client].project \in Project
    BY DEF HookOK, Showable
  <2>5. ListedHaveRows'
    BY <1>1, <2>1, <2>2 DEF Displayed, ListedHaveRows, HookOK
  <2>6. ShownHaveRows' /\ ShownIsSaved'
    BY <1>1, <2>1, <2>2, <2>3, <2>4 DEF Displayed, ShownHaveRows, ShownIsSaved
  <2> QED BY <2>5, <2>6 DEF Displayed
<1> QED BY <1>2, <1>3

LEMMA NextDisplayed ==
  ASSUME SingleClient, JobOK, SavedOK, HookOK, Parents, Displayed, [HookNext]_vars
  PROVE  Displayed'
<1>1. CASE UNCHANGED vars
  BY <1>1 DEF vars, hookVars, projectVars, Displayed, ListedHaveRows, ShownHaveRows,
              ShownIsSaved, RowsOf
<1> QED BY <1>1, SavingDisplayed, OthersDisplayed, HookSteps

(* The invariant of a hook that is the only one.                             *)
SingleInv ==
  /\ DBTypeOK /\ JobOK /\ SavedOK /\ TakenOK /\ HookOK
  /\ Parents /\ Saves /\ Displayed

THEOREM SingleInvariance ==
  ASSUME SingleClient
  PROVE  HookSpec => []SingleInv
<1>1. HookInit => JobOK /\ SavedOK /\ Parents /\ Saves /\ Displayed
  <2>1. Init => JobOK /\ SavedOK
    BY InitJobOK
  <2>2. Init => Parents
    BY DEF Init, DBInit, Idle, Parents, NoOrphanedSegments, SaveHasProject,
           DeleteKnowsSegments
  <2>3. HookInit => Displayed
    BY DEF HookInit, Displayed, ListedHaveRows, ShownHaveRows, ShownIsSaved
  <2> QED BY <2>1, <2>2, <2>3, InitSaves DEF HookInit
<1>2. DBTypeOK /\ JobOK /\ SavedOK /\ TakenOK /\ HookOK /\ Parents /\ Saves
        /\ Displayed /\ [HookNext]_vars
        => JobOK' /\ SavedOK' /\ Parents' /\ Saves' /\ Displayed'
  BY NextHookOK, NextJobOK, NextParents, NextSaves, NextDisplayed
<1>3. HookSpec => [](DBTypeOK /\ TakenOK /\ HookOK)
  BY HookImplementsService, ImplementsDatabase, TypeCorrect, PTL
<1> QED BY <1>1, <1>2, <1>3, PTL DEF HookSpec, SingleInv

LEMMA SavedIsCarried ==
  ASSUME SingleInv, NEW c \in Client, current[c] # Nothing,
         saved[current[c].project] # NotSaved
  PROVE  Carries(current[c], DOMAIN current[c].segments \ taken[current[c].project])
<1>1. current[c].project \in Project
  BY DEF SingleInv, HookOK, Showable
<1>2. saved[current[c].project] =
        [content |-> current[c].content, segments |-> current[c].segments]
  BY DEF SingleInv, Displayed, ShownIsSaved
<1> QED BY <1>1, <1>2 DEF SingleInv, Saves, AcknowledgedSaveReplicated, Carries

(* The projects a single component lists and shows have rows, and what it    *)
(* shows is in the outbox, but for the segments whose id a call on another   *)
(* project has used since.                                                   *)
THEOREM ComponentShowsWhatIsStored ==
  ASSUME SingleClient
  PROVE  HookSpec => []ShowsWhatIsStored
<1>1. SingleInv => ShowsWhatIsStored
  BY SavedIsCarried
     DEF ShowsWhatIsStored, SingleInv, Displayed, ListedHaveRows, ShownHaveRows
<1> QED BY <1>1, SingleInvariance, PTL

LEMMA AppearsSaved ==
  ASSUME SingleClient, SingleInv, SingleInv', [HookNext]_vars, NEW c \in Client,
         current'[c] \notin {current[c], Nothing}
  PROVE  Carries(current[c], DOMAIN current[c].segments)'
<1>1. PICK client \in Client : Saving(client)
  <2>1. ASSUME NEW client \in Client, Quiet(client) \/ RemoveDeleted(client)
        PROVE  current'[c] \in {current[c], Nothing}
    BY <2>1 DEF Quiet, RemoveDeleted, SingleInv, HookOK
  <2>2. ~UNCHANGED vars
    BY DEF vars, hookVars
  <2> QED BY <2>1, <2>2, HookSteps DEF SingleInv
<1>2. PICK call \in SaveCall, new \in BOOLEAN :
        SaveStep(client, call, new) /\ Writes(client, call.project)
  BY <1>1, SavingIs DEF SingleInv
<1>3. \/ /\ job'[client] = Idle
         /\ current' = [current EXCEPT ![client] = Shown(call)]
         /\ \/ projects' = projects
            \/ projects' = [projects EXCEPT ![client] = @ \cup {call.project}]
         /\ saved' = [saved EXCEPT ![call.project] =
                        [content |-> call.content, segments |-> call.segments]]
      \/ /\ job'[client] = call
         /\ saved' = [saved EXCEPT ![call.project] = NotSaved]
         /\ UNCHANGED <<current, projects>>
  BY <1>2, SaveStepIs DEF SingleInv
<1>4. /\ current'[c] = Shown(call) /\ call.project \in Project
      /\ saved'[call.project] =
           [content |-> call.content, segments |-> call.segments]
      /\ call.content \in Content
  BY <1>3 DEF SingleInv, HookOK, SavedOK, SaveCall
<1>5. current'[c].project = call.project /\ saved'[call.project] # NotSaved
  BY <1>4, NoneAssumption DEF Shown, NotSaved
<1>6. saved'[call.project] =
        [content |-> current'[c].content, segments |-> current'[c].segments]
  BY <1>4 DEF Shown
<1>7. (AcknowledgedSaveReplicated)' /\ taken'[call.project] = {}
  BY <1>2 DEF SingleInv, Saves, Writes
<1> QED BY <1>4, <1>5, <1>6, <1>7 DEF AcknowledgedSaveReplicated, Carries

(* A single component shows a project or an edit only once all of it is in   *)
(* the outbox.                                                               *)
THEOREM ComponentShowsOnlySaved ==
  ASSUME SingleClient
  PROVE  HookSpec => ShowsOnlySaved
<1>1. SingleInv /\ SingleInv' /\ [HookNext]_vars
        => [\A c \in Client : current'[c] \notin {current[c], Nothing} =>
              Carries(current[c], DOMAIN current[c].segments)']_vars
  BY AppearsSaved
<1> QED BY <1>1, SingleInvariance, PTL DEF HookSpec, ShowsOnlySaved
=============================================================================
