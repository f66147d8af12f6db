--------------------------- MODULE ProjectService ----------------------------
(***************************************************************************)
(* frontend/lib/services/EnhancedProjectService.ts over OfflineDatabase:   *)
(* saveProject and deleteProject are several transactions, one after the   *)
(* other, and nothing joins them.  A client is one caller of the service,  *)
(* a component holding useEnhancedProjectService or another tab.  Between  *)
(* two transactions any other client may commit, and a call may stop for   *)
(* good: its next transaction aborts, or the page is closed.               *)
(***************************************************************************)
EXTENDS OfflineDatabase, Sequences

CONSTANTS
  Client,
  Duct, Fitting    \* the segments of each type; their ids begin with it

ASSUME SegmentAssumption == Duct \cup Fitting = Segment /\ Duct \cap Fitting = {}

VARIABLES
  job,    \* the call each client is in
  saved,  \* history: the last save of a project, once it was acknowledged and
          \* until another call on the project starts
  taken   \* history: the segments whose id a call on another project has saved
          \* or deleted since the project's last save (the ids are not checked)

projectVars == <<rows, syncOperations, tx, replica, job, saved, taken>>

-----------------------------------------------------------------------------
NoSegments == [s \in {} |-> None]
Segments(S) == UNION {[T -> Content] : T \in SUBSET S}

Idle == [call |-> "idle", project |-> None]
Save(project, content, segments, batches) ==
  [call |-> "save", project |-> project, content |-> content, segments |-> segments,
   batches |-> batches]
Delete(project, left) == [call |-> "delete", project |-> project, left |-> left]

NotSaved == [content |-> None, segments |-> NoSegments]

\* Mutant: fitting segments are saved only where there are no duct segments.
BatchesOneType(ducts, fittings) ==
  IF ducts # NoSegments THEN <<ducts>>
  ELSE IF fittings # NoSegments THEN <<fittings>> ELSE <<>>

\* Duct segments are saved before fitting segments; an empty list is skipped.
Batches(ducts, fittings) ==
  (IF ducts = NoSegments THEN <<>> ELSE <<ducts>>) \o
  (IF fittings = NoSegments THEN <<>> ELSE <<fittings>>)

Merge(ducts, fittings) ==
  [s \in DOMAIN ducts \cup DOMAIN fittings |->
     IF s \in DOMAIN ducts THEN ducts[s] ELSE fittings[s]]

\* The call goes on with the batches that are left, or returns to its caller.
ContinueSave(client, call) ==
  IF call.batches = <<>>
  THEN /\ job' = [job EXCEPT ![client] = Idle]
       /\ saved' = [saved EXCEPT ![call.project] =
                      [content |-> call.content, segments |-> call.segments]]
  ELSE /\ job' = [job EXCEPT ![client] = call]
       /\ saved' = [saved EXCEPT ![call.project] = NotSaved]

\* A call on the project has saved or deleted copies of these segments.
Take(project, segments) ==
  taken' = [p \in Project |-> IF p = project THEN {} ELSE taken[p] \cup segments]

-----------------------------------------------------------------------------
\* saveProject up to its first transaction, which always creates a row.
SaveProject(client, project, content, ducts, fittings) ==
  /\ job[client] = Idle
  /\ CreateProject(project, content)
  /\ ContinueSave(client,
       Save(project, content, Merge(ducts, fittings), Batches(ducts, fittings)))
  /\ Take(project, {})

\* saveDuctSegments or saveFittingSegments.
SaveSegments(client) ==
  /\ job[client].call = "save"
  /\ LET call == job[client]
         batch == Head(call.batches)
     IN /\ BulkSaveProjectSegments(
             [s \in DOMAIN batch |-> [project |-> call.project, content |-> batch[s]]])
        /\ ContinueSave(client, [call EXCEPT !.batches = Tail(@)])
        /\ Take(call.project, DOMAIN batch)

\* Mutant: keeps the uuids, not the rows.
BeginDeleteProjectByUuid(client, project) ==
  /\ job[client] = Idle
  /\ job' = [job EXCEPT ![client] =
               Delete(project, {r.uuid : r \in GetProjectSegments(project)})]
  /\ saved' = [saved EXCEPT ![project] = NotSaved]
  /\ UNCHANGED <<dbVars, taken>>

\* deleteProject reads the segments there are now ...
BeginDeleteProject(client, project) ==
  /\ job[client] = Idle
  /\ job' = [job EXCEPT ![client] = Delete(project, GetProjectSegments(project))]
  /\ saved' = [saved EXCEPT ![project] = NotSaved]
  /\ UNCHANGED <<dbVars, taken>>

\* ... deletes each of them by its uuid, with the rows other projects have of it ...
DeleteNextSegment(client) ==
  /\ job[client].call = "delete"
  /\ \E r \in job[client].left :
       /\ DeleteProjectSegment(r.uuid)
       /\ job' = [job EXCEPT ![client].left = @ \ {r}]
       /\ Take(job[client].project, {r.uuid})
  /\ UNCHANGED saved

\* Mutant: does not wait for the segments.
EndDeleteProjectEarly(client) ==
  /\ job[client].call = "delete"
  /\ DeleteProject(job[client].project)
  /\ job' = [job EXCEPT ![client] = Idle]
  /\ UNCHANGED <<saved, taken>>

\* ... and then the project.
EndDeleteProject(client) ==
  /\ job[client].call = "delete"
  /\ job[client].left = {}
  /\ DeleteProject(job[client].project)
  /\ job' = [job EXCEPT ![client] = Idle]
  /\ UNCHANGED <<saved, taken>>

\* A transaction aborts and the call rethrows, or the page goes away.
Stop(client) ==
  /\ job[client] # Idle
  /\ job' = [job EXCEPT ![client] = Idle]
  /\ UNCHANGED <<dbVars, saved, taken>>

-----------------------------------------------------------------------------
\* The indexes of projectSegments.  Dexie rejects a query on any other.
SegmentIndexes ==
  {<<"id">>, <<"uuid">>, <<"projectUuid">>, <<"segmentType">>, <<"lastModified">>,
   <<"syncStatus">>}

\* loadProject: the project's row, then its segments by project and type.
LoadProject(project) ==
  IF GetProject(project) = {} THEN "null"
  ELSE IF <<"projectUuid", "segmentType">> \in SegmentIndexes THEN "project"
  ELSE "SchemaError"

-----------------------------------------------------------------------------
Init ==
  /\ DBInit
  /\ job = [c \in Client |-> Idle]
  /\ saved = [p \in Project |-> NotSaved]
  /\ taken = [p \in Project |-> {}]

Next ==
  \E client \in Client :
    \/ SaveSegments(client)
    \/ DeleteNextSegment(client)
    \/ EndDeleteProject(client)
    \/ Stop(client)
    \/ \E project \in Project :
         \/ BeginDeleteProject(client, project)
         \/ \E content \in Content, ducts \in Segments(Duct),
               fittings \in Segments(Fitting) :
              SaveProject(client, project, content, ducts, fittings)

Spec == Init /\ [][Next]_projectVars

-----------------------------------------------------------------------------
TypeOK ==
  /\ DBTypeOK
  /\ job \in [Client ->
       {Idle}
       \cup [call : {"save"}, project : Project, content : Content,
             segments : Segments(Segment), batches : Seq(Segments(Segment))]
       \cup [call : {"delete"}, project : Project, left : SUBSET Row]]
  /\ saved \in [Project ->
       [content : Content \cup {None}, segments : Segments(Segment)]]
  /\ taken \in [Project -> SUBSET Segment]

\* No segment outlives its project, wherever a save or a delete is interrupted:
\* the project's row is written before its segments and deleted after them.  It
\* takes one client at a time.
NoOrphanedSegments == \A r \in rows : r.uuid \in Segment => RowsOf(r.project) # {}

\* Once saveProject has returned, the outbox carries the save: the server's copy of
\* the project is the one that was saved, even after earlier saves of it stopped
\* half-way, and so is the copy of each of its segments, but for those whose id a
\* call on another project has saved or deleted since.  (Ids are not checked: the
\* sample project saves the same three under every project it creates, and a server
\* has one copy of an id.)
AcknowledgedSaveReplicated ==
  \A p \in Project : saved[p] # NotSaved =>
    /\ replica[p].content = saved[p].content
    /\ \A s \in DOMAIN saved[p].segments \ taken[p] :
         replica[s] = [project |-> p, content |-> saved[p].segments[s]]

\* Reading the project back gives the content that was saved last.
SavedEditsReadBack ==
  \A p \in Project : saved[p] # NotSaved =>
    \A r \in GetProject(p) : r.content = saved[p].content

=============================================================================
