----------------------------- MODULE ProjectHook ------------------------------
(***************************************************************************)
(* frontend/lib/hooks/useEnhancedProjectService.ts over ProjectService:    *)
(* what a component shows, its current project and its list of projects,   *)
(* changes when a call of the service returns.  A client is one component, *)
(* which makes one call at a time (its buttons are disabled meanwhile).    *)
(***************************************************************************)
EXTENDS ProjectService

VARIABLES
  current,    \* state.currentProject of each component
  projects,   \* the ids in state.projects
  creating    \* whether its call is createNewProject

hookVars == <<current, projects, creating>>

Nothing == [project |-> None, content |-> None, segments |-> NoSegments]
Shown(call) ==
  [project |-> call.project, content |-> call.content, segments |-> call.segments]

Only(segments, S) == [s \in DOMAIN segments \cap S |-> segments[s]]

\* saveProject and createNewProject once the service's saveProject has returned.
\* Mutant: the state is set before the service has saved.
SavedEarly(client, call, new) ==
  /\ current' = [current EXCEPT ![client] = Shown(call)]
  /\ projects' = [projects EXCEPT ![client] =
                    IF new /\ job'[client] = Idle THEN @ \cup {call.project} ELSE @]
Saved(client, call, new) ==
  IF job'[client] = Idle
  THEN /\ current' = [current EXCEPT ![client] = Shown(call)]
       /\ projects' = [projects EXCEPT ![client] =
                         IF new THEN @ \cup {call.project} ELSE @]
  ELSE UNCHANGED <<current, projects>>

\* The service's saveProject with a project of these segments of both types.
Begin(client, project, content, segments, new) ==
  LET ducts == Only(segments, Duct)
      fittings == Only(segments, Fitting)
  IN  /\ SaveProject(client, project, content, ducts, fittings)
      /\ Saved(client,
           Save(project, content, Merge(ducts, fittings), Batches(ducts, fittings)), new)
      /\ creating' = [creating EXCEPT ![client] = new]

\* createNewProject; its id was never used.
CreateNewProject(client, project, content, segments) ==
  /\ \A o \in syncOperations : o.entityUuid # project
  /\ Begin(client, project, content, segments, TRUE)

\* saveProject of the current project with other data, and of the current project
\* with a segment added or changed, or with one left out.
SaveCurrent(client, content) ==
  /\ current[client] # Nothing
  /\ Begin(client, current[client].project, content, current[client].segments, FALSE)
PutSegment(client, segment, content) ==
  LET shown == current[client] IN
  /\ shown # Nothing
  /\ Begin(client, shown.project, shown.content,
           [s \in DOMAIN shown.segments \cup {segment} |->
              IF s = segment THEN content ELSE shown.segments[s]], FALSE)
LeaveOutSegment(client, segment) ==
  LET shown == current[client] IN
  /\ segment \in DOMAIN shown.segments
  /\ Begin(client, shown.project, shown.content,
           Only(shown.segments, Segment \ {segment}), FALSE)

ContinueSaving(client) ==
  /\ SaveSegments(client)
  /\ Saved(client, job[client], creating[client])
  /\ UNCHANGED creating

ContinueDeleting(client) ==
  /\ \/ \E project \in Project : BeginDeleteProject(client, project)
     \/ DeleteNextSegment(client)
  /\ UNCHANGED hookVars

\* deleteProject once the service's deleteProject has returned.
\* Mutant: the current project stays when it is the one deleted.
RemoveDeletedFromList(client) ==
  LET project == job[client].project IN
  /\ EndDeleteProject(client)
  /\ projects' = [projects EXCEPT ![client] = @ \ {project}]
  /\ UNCHANGED <<current, creating>>
RemoveDeleted(client) ==
  LET project == job[client].project IN
  /\ EndDeleteProject(client)
  /\ projects' = [projects EXCEPT ![client] = @ \ {project}]
  /\ current' = [current EXCEPT ![client] =
                   IF @.project = project THEN Nothing ELSE @]
  /\ UNCHANGED creating

\* The call throws: only the error is shown.
Failed(client) == Stop(client) /\ UNCHANGED hookVars

\* loadProject finds no row and shows nothing.  (One that finds a row throws, see
\* LoadProject; loadProjectList throws wherever there is a project.)
LoadNothing(client, project) ==
  /\ job[client] = Idle
  /\ LoadProject(project) = "null"
  /\ current' = [current EXCEPT ![client] = Nothing]
  /\ UNCHANGED <<projectVars, projects, creating>>
LoadProjectList(client) ==
  /\ job[client] = Idle
  /\ \A p \in Project : LoadProject(p) = "null"
  /\ projects' = [projects EXCEPT ![client] = {}]
  /\ UNCHANGED <<projectVars, current, creating>>

\* The page is closed, perhaps during a call, and opened again.
Reopen(client) ==
  /\ IF job[client] = Idle THEN UNCHANGED projectVars ELSE Stop(client)
  /\ current' = [current EXCEPT ![client] = Nothing]
  /\ projects' = [projects EXCEPT ![client] = {}]
  /\ UNCHANGED creating

HookInit ==
  /\ Init
  /\ current = [c \in Client |-> Nothing]
  /\ projects = [c \in Client |-> {}]
  /\ creating = [c \in Client |-> FALSE]

Saving(client) ==
  \/ ContinueSaving(client)
  \/ \E content \in Content :
       \/ SaveCurrent(client, content)
       \/ \E s \in Segment : PutSegment(client, s, content)
       \/ \E p \in Project : \E segments \in Segments(Segment) :
            CreateNewProject(client, p, content, segments)
  \/ \E s \in Segment : LeaveOutSegment(client, s)

HookNext ==
  \E client \in Client :
    \/ Saving(client)
    \/ ContinueDeleting(client) \/ RemoveDeleted(client)
    \/ Failed(client) \/ Reopen(client) \/ LoadProjectList(client)
    \/ \E p \in Project : LoadNothing(client, p)

vars == <<projectVars, hookVars>>
HookSpec == HookInit /\ [][HookNext]_vars

-----------------------------------------------------------------------------
\* The outbox carries the project that is shown, with these of its segments.
Carries(shown, segments) ==
  /\ replica[shown.project].content = shown.content
  /\ \A s \in segments :
       replica[s] = [project |-> shown.project, content |-> shown.segments[s]]

\* What a single component shows is in the database, however its saves and
\* deletions stop: every listed project and the current one have a row, and the
\* outbox carries the current project as it is shown, unless a call on it has begun
\* that did not return (setState after the awaits of saveProject, deleteProject),
\* and but for the segments whose id a call on another project has saved or deleted
\* since.
ShowsWhatIsStored ==
  \A c \in Client :
    /\ \A p \in projects[c] : RowsOf(p) # {}
    /\ current[c] # Nothing =>
         /\ RowsOf(current[c].project) # {}
         /\ saved[current[c].project] # NotSaved =>
              Carries(current[c],
                      DOMAIN current[c].segments \ taken[current[c].project])

\* A single component never shows as its project what it only intends to save: at
\* the moment a project or an edit appears, the outbox carries every part of it.
ShowsOnlySaved ==
  [][\A c \in Client : current'[c] \notin {current[c], Nothing} =>
       Carries(current[c], DOMAIN current[c].segments)']_vars
=============================================================================
