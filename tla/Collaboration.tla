--------------------------- MODULE Collaboration ---------------------------
(***************************************************************************)
(* The collaboration clients (lib/services/CollaborationService.ts), one   *)
(* socket each, composed with the server.  Socket.IO keeps what a client   *)
(* emits while it is offline and sends it first on the next connection.    *)
(* Cursors, presence and the lock shown to the user are display only and   *)
(* left out.                                                               *)
(***************************************************************************)
EXTENDS CollaborationServer

CONSTANTS
  MaxInFlight,   \* bound: packets on their way and awaited when a client acts
  Locker         \* bound: the users who lock and unlock documents

ASSUME ClientAssumption ==
  MaxInFlight \in [User -> Nat] /\ Locker \subseteq User

VARIABLES
  doc,        \* state.currentDocument
  view,       \* state.currentDocument.operations
  queue,      \* operationQueue
  author,     \* who made an operation, None while it is unused
  abandoned   \* operations that were queued when their author left

clientVars == <<doc, view, queue, author, abandoned>>
vars == <<installation, serverVars, restarts, links, up, down, clientVars>>

(* The connection on which what a client emits now will travel.            *)
Outlet(u) == <<u, IF connected[u] THEN conn[u] ELSE conn[u] + 1>>

Requested(type, d, op) == <<[type |-> type, doc |-> d, op |-> op]>>

(* syncPendingOperations: every queued operation, addressed to the current *)
(* document.                                                               *)
Pending(u) ==
  IF doc[u] = None THEN <<>>
  ELSE [i \in DOMAIN queue[u] |->
          [type |-> "operation", doc |-> doc[u], op |-> queue[u][i]]]

Emit(u, packets) == up' = [up EXCEPT ![Outlet(u)] = @ \o packets]

(* A client with a socket; it acts while little is on its way and little  *)
(* that the server has begun is unfinished.                                *)
InFlight ==
  FoldFunctionOnSet(+, 0, [s \in Sid |-> Len(up[s]) + Len(down[s])], Sid)
  + Len(emits) + Len(joining) + Cardinality(loading) + Cardinality(ending)
MayEmit(u) == Outlet(u) \in Sid /\ InFlight < MaxInFlight[u]

(* The handshake: the server's connect handler makes the session, then the *)
(* client's 'connect' handler sends the whole queue again.  It does not    *)
(* join the document again.                                                *)
ConnectSilently(u) ==   \* mutant: the queue is not sent again
  /\ ~connected[u]
  /\ conn[u] < MaxConnections[u]
  /\ connected' = [connected EXCEPT ![u] = TRUE]
  /\ conn' = [conn EXCEPT ![u] = @ + 1]
  /\ sessions' = sessions \cup {<<u, conn[u] + 1>>}
  /\ UNCHANGED <<installation, restarts, rooms, mixed, userDocument, documents,
                 operations, participants, lockedBy, history, loading, joining,
                 ending, emits, ghosts, up, down, clientVars>>
Connect(u) ==
  /\ ~connected[u]
  /\ conn[u] < MaxConnections[u]
  /\ connected' = [connected EXCEPT ![u] = TRUE]
  /\ conn' = [conn EXCEPT ![u] = @ + 1]
  /\ sessions' = sessions \cup {<<u, conn[u] + 1>>}
  /\ Emit(u, Pending(u))
  /\ UNCHANGED <<installation, restarts, rooms, mixed, userDocument, documents,
                 operations, participants, lockedBy, history, loading, joining,
                 ending, emits, ghosts, down, clientVars>>

(* The connection breaks and the client notices.  The server may still     *)
(* read what the client sent on it.  Of the reconnections the client tries *)
(* one succeeds: the last connection of the bound does not break.          *)
Drop(u) ==
  /\ connected[u]
  /\ conn[u] < MaxConnections[u]
  /\ connected' = [connected EXCEPT ![u] = FALSE]
  /\ down' = [down EXCEPT ![<<u, conn[u]>>] = <<>>]
  /\ mixed' = mixed \ {<<u, conn[u]>>}
  /\ UNCHANGED <<installation, restarts, sessions, rooms, userDocument,
                 documents, operations, participants, lockedBy, history,
                 loading, joining, ending, emits, ghosts, conn, up,
                 clientVars>>

EmitJoin(u, d) ==
  /\ MayEmit(u)
  /\ Emit(u, Requested("join", d, None))
  /\ UNCHANGED <<installation, restarts, serverVars, links, down, clientVars>>

(* leaveDocument sends the queue once more, does not wait for the answers, *)
(* and empties it.                                                         *)
LeaveKeepingQueue(u) ==   \* mutant: the queue is not emptied
  /\ MayEmit(u)
  /\ doc[u] # None
  /\ Emit(u, Pending(u) \o Requested("leave", doc[u], None))
  /\ doc' = [doc EXCEPT ![u] = None]
  /\ view' = [view EXCEPT ![u] = <<>>]
  /\ UNCHANGED <<installation, restarts, serverVars, links, down, queue,
                 author, abandoned>>
LeaveTooLate(u) ==   \* mutant: the document is forgotten before the request
  /\ MayEmit(u)
  /\ doc[u] # None
  /\ doc' = [doc EXCEPT ![u] = None]
  /\ Emit(u, Requested("leave", doc'[u], None))
  /\ view' = [view EXCEPT ![u] = <<>>]
  /\ queue' = [queue EXCEPT ![u] = <<>>]
  /\ abandoned' = abandoned \cup Range(queue[u])
  /\ UNCHANGED <<installation, restarts, serverVars, links, down, author>>
Leave(u) ==
  /\ MayEmit(u)
  /\ doc[u] # None
  /\ Emit(u, Pending(u) \o Requested("leave", doc[u], None))
  /\ doc' = [doc EXCEPT ![u] = None]
  /\ view' = [view EXCEPT ![u] = <<>>]
  /\ queue' = [queue EXCEPT ![u] = <<>>]
  /\ abandoned' = abandoned \cup Range(queue[u])
  /\ UNCHANGED <<installation, restarts, serverVars, links, down, author>>

(* applyOperation; an operation's id is a new uuid.                        *)
ApplyOperationQueuedOffline(u) ==   \* mutant: queued only while offline
  /\ MayEmit(u)
  /\ doc[u] # None
  /\ \E op \in Op : author[op] = None
  /\ LET op == CHOOSE o \in Op : author[o] = None IN
     /\ author' = [author EXCEPT ![op] = u]
     /\ queue' = [queue EXCEPT
                    ![u] = IF connected[u] THEN @ ELSE Append(@, op)]
     /\ Emit(u, IF connected[u] THEN Requested("operation", doc[u], op)
                ELSE <<>>)
  /\ UNCHANGED <<installation, restarts, serverVars, links, down, doc, view,
                 abandoned>>
ApplyOperation(u) ==
  /\ MayEmit(u)
  /\ doc[u] # None
  /\ \E op \in Op : author[op] = None
  /\ LET op == CHOOSE o \in Op : author[o] = None IN
     /\ author' = [author EXCEPT ![op] = u]
     /\ queue' = [queue EXCEPT ![u] = Append(@, op)]
     /\ Emit(u, IF connected[u] THEN Requested("operation", doc[u], op)
                ELSE <<>>)
  /\ UNCHANGED <<installation, restarts, serverVars, links, down, doc, view,
                 abandoned>>

LockDocument(u, type) ==
  /\ u \in Locker
  /\ MayEmit(u)
  /\ doc[u] # None
  /\ Emit(u, Requested(type, doc[u], None))
  /\ UNCHANGED <<installation, restarts, serverVars, links, down, clientVars>>

(* The client's handlers of what the server sends: the answer to a join,   *)
(* handleRemoteOperation (also of its own operations; the operation is     *)
(* taken as it comes, the server's element_id is no elementId to compare), *)
(* and the answer to an operation, which leaves the queue.                 *)
TakeDocument(u, m) ==
  /\ doc' = [doc EXCEPT ![u] = m.doc]
  /\ view' = [view EXCEPT ![u] = m.operations]
  /\ UNCHANGED queue
HandleRemoteOperation(u, m) ==
  /\ view' = [view EXCEPT ![u] = IF doc[u] = None THEN @ ELSE Append(@, m.op)]
  /\ UNCHANGED <<doc, queue>>
Without(ops, op) ==
  IF op \in Range(ops)
  THEN RemoveAt(ops, CHOOSE i \in DOMAIN ops : ops[i] = op)
  ELSE ops
TakeSuccess(u, m) ==
  /\ queue' = [queue EXCEPT ![u] = Without(@, m.op)]
  /\ UNCHANGED <<doc, view>>

Receive(u) ==
  LET s == <<u, conn[u]>> IN
  /\ connected[u]
  /\ down[s] # <<>>
  /\ down' = [down EXCEPT ![s] = Tail(@)]
  /\ LET m == Head(down[s]) IN
     \/ m.type = "document" /\ TakeDocument(u, m)
     \/ m.type = "operation" /\ HandleRemoteOperation(u, m)
     \/ m.type = "success" /\ TakeSuccess(u, m)
  /\ UNCHANGED <<installation, restarts, serverVars, links, up, author,
                 abandoned>>

Init ==
  /\ ServerInit
  /\ doc = [u \in User |-> None]
  /\ view = [u \in User |-> <<>>]
  /\ queue = [u \in User |-> <<>>]
  /\ author = [op \in Op |-> None]
  /\ abandoned = {}

ClientNext(u) ==
  \/ Connect(u) \/ Drop(u) \/ Leave(u) \/ ApplyOperation(u) \/ Receive(u)
  \/ \E d \in Doc : EmitJoin(u, d)
  \/ \E type \in {"lock", "unlock"} : LockDocument(u, type)

Next ==
  \/ ServerNext /\ UNCHANGED clientVars
  \/ \E u \in User : ClientNext(u)

Spec == Init /\ [][Next]_vars

(* The server's event loop runs every handler, and the network lets a      *)
(* client reconnect before its attempts are used up.  Nothing is assumed   *)
(* of what users do or of when a client reads.                             *)
Fairness ==
  /\ \A s \in Sid : WF_vars(Serve(s) /\ UNCHANGED clientVars)
  /\ \A u \in User : WF_vars(Connect(u))

FairSpec == Spec /\ Fairness
-----------------------------------------------------------------------------
Logged(op) == \E d \in Doc : op \in Range(history[d])

(* Types of the server's tables, the packets and the clients' state.       *)
TypeOK ==
  /\ redis \in BOOLEAN /\ encodes \in BOOLEAN
  /\ sessions \subseteq Sid
  /\ rooms \in [Sid -> SUBSET Doc]
  /\ mixed \subseteq Sid
  /\ userDocument \in [User -> Doc \cup {None}]
  /\ documents \subseteq Doc
  /\ operations \in [Doc -> Seq(Op)]
  /\ participants \in [Doc -> SUBSET User]
  /\ lockedBy \in [Doc -> User \cup {None}]
  /\ history \in [Doc -> Seq(Op)]
  /\ loading \subseteq Join /\ joining \in Seq(Join)
  /\ ending \subseteq Sid
  /\ emits \in Seq(Emitted)
  /\ ghosts \subseteq User
  /\ restarts \in 0..MaxRestarts
  /\ conn \in [User -> Nat]
  /\ \A u \in User : conn[u] <= MaxConnections[u]
  /\ connected \in [User -> BOOLEAN]
  /\ up \in [Sid -> Seq(Request)]
  /\ down \in [Sid -> Seq(Snapshot \cup Event)]
  /\ doc \in [User -> Doc \cup {None}]
  /\ view \in [User -> Seq(Op)]
  /\ queue \in [User -> Seq(Op)]
  /\ author \in [Op -> User \cup {None}]
  /\ abandoned \subseteq Op

(* No edit is lost: whatever breaks, restarts or is answered late, an      *)
(* operation is in its author's queue until a document has it, unless the  *)
(* author left while it was queued (CollaborationService.sendOperation,    *)
(* leaveDocument, process_operation).                                      *)
EditsKept ==
  \A op \in Op : author[op] # None =>
    \/ op \in Range(queue[author[op]])
    \/ op \in abandoned
    \/ Logged(op)

(* What a client will show once it has read everything on its way to it,   *)
(* and everything the server has emitted to it.                            *)
Reads(shown, m) ==
  CASE m.type = "document" -> [doc |-> m.doc, view |-> m.operations]
    [] m.type = "operation" /\ shown.doc # None ->
         [shown EXCEPT !.view = Append(@, m.op)]
    [] OTHER -> shown
Owed(s) ==   \* a success shows nothing, as an emit to others does
  [i \in DOMAIN emits |->
     [type |-> IF s \in emits[i].to THEN "operation" ELSE "success",
      op |-> emits[i].op]]
Foreseen(u) ==
  LET s == <<u, conn[u]>> IN
  FoldLeft(Reads, [doc |-> doc[u], view |-> view[u]], down[s] \o Owed(s))

(* A log with one stretch of it shown twice.                               *)
Repeating(ops, i, j) == SubSeq(ops, 1, j) \o SubSeq(ops, i + 1, Len(ops))

(* A client that is in the room of its document, has been in no other      *)
(* since it last joined and awaits no answer to a join is going to show    *)
(* the whole log of the server in its order: nothing is missing, whatever  *)
(* it and others join, leave, send again and reconnect.  One stretch may   *)
(* be shown twice: what is applied between its entering the room and the   *)
(* answer is in the document it gets and broadcast to it (join_document's  *)
(* answer and process_operation's broadcast).                              *)
Answered(s) == \A k \in DOMAIN joining : joining[k].sid # s
RoomSeesLog ==
  \A u \in User : LET s == <<u, conn[u]>>
                      shown == Foreseen(u)
                  IN
    (/\ connected[u]
     /\ s \notin mixed
     /\ Answered(s)
     /\ shown.doc # None
     /\ rooms[s] = {shown.doc})
    => \E j \in 0..Len(operations[shown.doc]) : \E i \in 0..j :
         shown.view = Repeating(operations[shown.doc], i, j)

(* Sending again applies an operation again, but no oftener than once a    *)
(* connection and once more for leaving ('connect' handler, leaveDocument).*)
Copies(op, d) == {i \in DOMAIN history[d] : history[d][i] = op}
RepeatsAreBounded ==
  \A op \in Op : author[op] # None =>
    \A d \in Doc : Cardinality(Copies(op, d)) <= conn[author[op]] + 1

(* A user the server holds in a document has a session that is not ending: *)
(* no break, late disconnect or clean-up leaves an entry of user_documents *)
(* nobody would remove, but where a join enters its room while the session *)
(* it came from is ending or after that, having awaited Redis or been      *)
(* served during the emit of disconnect (join_document, disconnect).       *)
TrackedHaveSessions ==
  \A u \in User :
    userDocument[u] # None /\ u \notin ghosts =>
      \E s \in sessions \ ending : UserOf(s) = u

(* Whatever the clients do and the connections lose, the log is the shared *)
(* log of the abstract specification.                                      *)
Shared == INSTANCE SharedLog
            WITH log <- history,
                 made <- {op \in Op : author[op] # None},
                 pending <- [u \in User |-> Range(queue[u])]
ImplementsSharedLog == Shared!LogSpec

(* An edit that is queued reaches a document, however often connections    *)
(* break, unless its author leaves or the server loses its documents       *)
(* ('connect' handler: "Sync pending operations").                         *)
EditsReachLog ==
  \A op \in Op :
    (restarts = 0 /\ \E u \in User : op \in Range(queue[u]))
      ~> (Logged(op) \/ op \in abandoned \/ restarts > 0)

(* "Real-time document synchronization" (CollaborationService.ts:8): when  *)
(* nothing is on its way or awaited, a connected client that the server    *)
(* has in rooms shows the document of one of them, as the server has it.   *)
InSync ==
  \A u \in User : LET s == <<u, conn[u]>> IN
    (/\ connected[u] /\ rooms[s] # {}
     /\ \A t \in Sid : up[t] = <<>> /\ (Live(t) => down[t] = <<>>)
     /\ loading = {} /\ joining = <<>> /\ emits = <<>>)
    => doc[u] \in rooms[s] /\ view[u] = operations[doc[u]]

=============================================================================
