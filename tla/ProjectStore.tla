----------------------------- MODULE ProjectStore -----------------------------
(***************************************************************************)
(* What the service of frontend/lib/services/EnhancedOfflineService.ts     *)
(* promises the one component that uses it: a store of projects in which a *)
(* read returns what was written last.  A write takes effect at once; until*)
(* it is acknowledged a read of that project may still return what was     *)
(* there before, and the next write waits for that.                        *)
(***************************************************************************)
EXTENDS Naturals

CONSTANTS
  Project,
  Content,
  None        \* there is no such project

VARIABLES
  stored,     \* what was written last
  served      \* what a read returns now

storeVars == <<stored, served>>

Init ==
  /\ stored = [p \in Project |-> None]
  /\ served = stored

\* createProject, updateProject (content a member of Content) or deleteProject.
Put(project, content) ==
  /\ served = stored
  /\ stored' = [stored EXCEPT ![project] = content]
  /\ served' \in {served, stored'}

\* The write is acknowledged, or a read has fetched its result.
Acknowledge ==
  /\ served' = stored
  /\ UNCHANGED stored

Next ==
  \/ \E p \in Project :
       \/ \E c \in Content : Put(p, c)
       \/ Put(p, None)
  \/ Acknowledge

Spec == Init /\ [][Next]_storeVars

=============================================================================
