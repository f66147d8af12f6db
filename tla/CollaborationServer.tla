------------------------ MODULE CollaborationServer ------------------------
(***************************************************************************)
(* The Socket.IO collaboration server                                      *)
(* (backend/collaboration/collaboration_server.py) and the connections it  *)
(* serves.  One asyncio process: a handler runs undisturbed up to its next *)
(* real suspension, where other handlers run.  It suspends where it reads  *)
(* Redis and where it emits to a room that somebody is in: the recipients  *)
(* are those in the room at that moment, the packets are sent in the order *)
(* of the emits, and the handler goes on after that.  (enter_room and      *)
(* leave_room await nothing, and an emit to nobody neither suspends nor    *)
(* encodes.)  Presence events only matter for this suspension.             *)
(*                                                                         *)
(* Two facts of the installation are chosen once: whether Redis is         *)
(* configured, and whether Socket.IO's codec encodes the datetime values   *)
(* that documents, users and operations carry.  The code passes no codec,  *)
(* and the default refuses them.                                           *)
(***************************************************************************)
EXTENDS Naturals, SequencesExt

CONSTANTS User, Doc, Op,
          None,             \* no document, no user
          MaxConnections,   \* bound: connections each client opens
          MaxRestarts       \* bound: restarts of the server process

ASSUME CollaborationAssumption ==
  /\ None \notin User \cup Doc \cup Op
  /\ MaxConnections \in [User -> Nat]
  /\ MaxRestarts \in Nat

VARIABLES
  redis, encodes,   \* the installation: self.redis; the codec takes datetimes
  sessions,         \* keys of user_sessions
  rooms,            \* Socket.IO: the documents whose room a connection is in
  mixed,            \* history: live connections that since they last joined
                    \* were in another room too, or due to get what was sent
                    \* to a room before
  userDocument,     \* user_documents
  documents,        \* keys of self.documents
  operations,       \* document.operations
  participants,     \* ids of document.participants
  lockedBy,         \* document.locked_by
  history,          \* every append to a document since the first start
  loading,          \* joins that await lrange, with their documents
  joining,          \* joins that await their emit
  ending,           \* sessions that await the emit of their leave
  emits,            \* emitted operations that are not sent yet
  ghosts,           \* history: users a join put in a document while the
                    \* session it came from was ending or gone
  restarts,         \* how often the process has restarted
  conn, connected,  \* each client's latest connection, and whether it is up
  up, down          \* packets on their way, per connection

serverVars == <<sessions, rooms, mixed, userDocument, documents, operations,
                participants, lockedBy, history, loading, joining, ending,
                emits, ghosts>>
installation == <<redis, encodes>>
links == <<conn, connected>>

(* A connection (sid) is the client's user and a number.                   *)
Sid == UNION {{u} \X (1..MaxConnections[u]) : u \in User}
UserOf(s) == s[1]
Live(s) == connected[s[1]] /\ conn[s[1]] = s[2]

Request == [type : {"join", "leave", "operation", "lock", "unlock"},
            doc : Doc, op : Op \cup {None}]
Snapshot == [type : {"document"}, doc : Doc, operations : Seq(Op)]
Event == [type : {"operation", "success"}, op : Op]
Join == [sid : Sid, doc : Doc]
Emitted == [to : SUBSET Sid, from : Sid, op : Op]

Room(d) == {t \in Sid : d \in rooms[t]}

(* A connection that is gone receives nothing.                             *)
Sent(s, packet) ==
  [down EXCEPT ![s] = IF Live(s) THEN Append(@, packet) ELSE @]

(* asdict(document), as it is when the handler comes to it.  The client    *)
(* gets no document when the codec refuses it.                             *)
Answer(join) ==
  IF encodes
  THEN Sent(join.sid, [type |-> "document", doc |-> join.doc,
                       operations |-> operations[join.doc]])
  ELSE down

Due(s) == \E i \in DOMAIN emits : s \in emits[i].to

(* join_document_internal, which tells the others in the room before the   *)
(* answer is made.  (When the codec refuses the user this raises, after    *)
(* the connection has entered the room: no document either way.)           *)
EnterRoom(s, d) ==
  /\ rooms' = [rooms EXCEPT ![s] = @ \cup {d}]
  /\ mixed' = IF ~Live(s) \/ (rooms[s] \subseteq {d} /\ ~Due(s))
              THEN mixed \ {s}
              ELSE IF rooms[s] = {d} THEN mixed ELSE mixed \cup {s}
  /\ userDocument' = [userDocument EXCEPT ![UserOf(s)] = d]
  /\ participants' = [participants EXCEPT ![d] = @ \cup {UserOf(s)}]
  /\ ghosts' = IF s \in sessions \ ending THEN ghosts \ {UserOf(s)}
               ELSE ghosts \cup {UserOf(s)}
  /\ IF Room(d) \subseteq {s}
     THEN down' = Answer([sid |-> s, doc |-> d]) /\ UNCHANGED joining
     ELSE joining' = Append(joining, [sid |-> s, doc |-> d]) /\ UNCHANGED down

(* get_or_create_document: a document is created on first use, before what *)
(* Redis has of it is read.                                                *)
JoinDocument(s, d) ==
  /\ documents' = documents \cup {d}
  /\ IF redis /\ d \notin documents
     THEN /\ loading' = loading \cup {[sid |-> s, doc |-> d]}
          /\ UNCHANGED <<rooms, mixed, userDocument, participants, joining,
                         ghosts, down>>
     ELSE EnterRoom(s, d) /\ UNCHANGED loading
  /\ UNCHANGED <<sessions, operations, lockedBy, history, ending, emits>>

(* lrange finds nothing, see ProcessOperation, or raises.  The connection  *)
(* may be gone by then, which enter_room refuses, but the clean-up of its  *)
(* session does not yet close it.                                          *)
Loaded(join) ==
  /\ loading' = loading \ {join}
  /\ \/ EnterRoom(join.sid, join.doc)
     \/ UNCHANGED <<rooms, mixed, userDocument, participants, joining, ghosts,
                    down>>
  /\ UNCHANGED <<installation, links, restarts, up, sessions, documents,
                 operations, lockedBy, history, ending, emits>>

AnswerJoin ==
  /\ joining # <<>>
  /\ joining' = Tail(joining)
  /\ down' = Answer(Head(joining))
  /\ UNCHANGED <<installation, links, restarts, up, sessions, rooms, mixed,
                 userDocument, documents, operations, participants, lockedBy,
                 history, loading, ending, emits, ghosts>>

(* leave_document_internal up to its emit: what is left is the document    *)
(* user_documents holds for the user, whichever connection or document     *)
(* asks.                                                                   *)
Forget(s) ==
  LET d == userDocument[UserOf(s)] IN
  /\ rooms' = [rooms EXCEPT ![s] = @ \ {d}]
  /\ userDocument' = [userDocument EXCEPT ![UserOf(s)] = None]
  /\ participants' = [e \in Doc |-> IF e = d
                                    THEN participants[e] \ {UserOf(s)}
                                    ELSE participants[e]]
  /\ ghosts' = ghosts \ {UserOf(s)}

LeaveDocument(s) ==
  /\ Forget(s)
  /\ UNCHANGED <<sessions, mixed, documents, operations, lockedBy, history,
                 loading, joining, ending, emits, down>>

(* operation, process_operation: neither membership nor the lock is looked *)
(* at, and no operation of the document is newer than the new one, so the  *)
(* transformation changes nothing.  An emit the codec refuses raises after *)
(* the append, and so does, with Redis, json.dumps of a datetime after the *)
(* emit: nothing is stored and the answer is a failure.  (The mutant puts  *)
(* new operations first, as lpush does.)                                   *)
ProcessOperationAtFront(s, d, op) ==
  /\ d \in documents
  /\ operations' = [operations EXCEPT ![d] = <<op>> \o @]
  /\ history' = [history EXCEPT ![d] = <<op>> \o @]
  /\ UNCHANGED <<sessions, rooms, mixed, userDocument, documents, participants,
                 lockedBy, loading, joining, ending, emits, ghosts, down>>
ProcessOperation(s, d, op) ==
  /\ IF d \in documents
     THEN /\ operations' = [operations EXCEPT ![d] = Append(@, op)]
          /\ history' = [history EXCEPT ![d] = Append(@, op)]
          /\ IF Room(d) = {}
             THEN /\ down' = IF redis THEN down
                             ELSE Sent(s, [type |-> "success", op |-> op])
                  /\ UNCHANGED emits
             ELSE /\ emits' = IF encodes
                              THEN Append(emits, [to |-> Room(d), from |-> s,
                                                  op |-> op])
                              ELSE emits
                  /\ UNCHANGED down
     ELSE UNCHANGED <<operations, history, emits, down>>
  /\ UNCHANGED <<sessions, rooms, mixed, userDocument, documents, participants,
                 lockedBy, loading, joining, ending, ghosts>>

(* The packets of an emit, and then the answer of its handler, which only  *)
(* takes the operation out of its author's queue: what runs between the    *)
(* two makes no difference.                                                *)
BroadcastSkippingSender(e, t) ==   \* mutant: skip_sid, as in user_joined
  IF t \in e.to \ {e.from} THEN <<[type |-> "operation", op |-> e.op]>>
  ELSE <<>>
Broadcast(e, t) ==
  IF t \in e.to THEN <<[type |-> "operation", op |-> e.op]>> ELSE <<>>
Success(e, t) ==
  IF t = e.from /\ ~redis THEN <<[type |-> "success", op |-> e.op]>> ELSE <<>>
Send ==
  /\ emits # <<>>
  /\ emits' = Tail(emits)
  /\ LET e == Head(emits) IN
     down' = [t \in Sid |-> IF Live(t)
                            THEN down[t] \o Broadcast(e, t) \o Success(e, t)
                            ELSE down[t]]
  /\ UNCHANGED <<installation, links, restarts, up, sessions, rooms, mixed,
                 userDocument, documents, operations, participants, lockedBy,
                 history, loading, joining, ending, ghosts>>

(* document_lock; clients only display the answer.                         *)
DocumentLock(s, d, holder) ==
  /\ lockedBy' = IF d \in documents THEN [lockedBy EXCEPT ![d] = holder]
                 ELSE lockedBy
  /\ UNCHANGED <<sessions, rooms, mixed, userDocument, documents, operations,
                 participants, history, loading, joining, ending, emits,
                 ghosts, down>>

(* The next packet of a connection the server has a session for.  What a   *)
(* client sent before its connection broke may still be served after it    *)
(* has opened another one.                                                 *)
Serve(s) ==
  /\ s \in sessions
  /\ up[s] # <<>>
  /\ up' = [up EXCEPT ![s] = Tail(@)]
  /\ LET r == Head(up[s]) IN
     \/ r.type = "join" /\ JoinDocument(s, r.doc)
     \/ r.type = "leave" /\ LeaveDocument(s)
     \/ r.type = "operation" /\ ProcessOperation(s, r.doc, r.op)
     \/ r.type = "lock" /\ DocumentLock(s, r.doc, UserOf(s))
     \/ r.type = "unlock" /\ DocumentLock(s, r.doc, None)
  /\ UNCHANGED <<installation, links, restarts>>

(* The end of disconnect: its session is deleted.  Socket.IO closes the    *)
(* rooms of a connection that is gone when the handler has ended, or after *)
(* a clean-up later.                                                       *)
EndSession(s) ==
  /\ sessions' = sessions \ {s}
  /\ up' = [up EXCEPT ![s] = <<>>]

(* disconnect, which may come long after the client has connected again;   *)
(* cleanup_inactive_sessions does the same to a session that went silent   *)
(* (a live client's heartbeat keeps its session).  It leaves the user's    *)
(* document first, if there is one, and tells the others in the room.      *)
DisconnectKeepingDocument(s) ==   \* mutant: the session goes, the entry stays
  /\ s \in sessions
  /\ ~Live(s)
  /\ EndSession(s)
  /\ UNCHANGED <<installation, links, restarts, rooms, mixed, userDocument,
                 documents, operations, participants, lockedBy, history,
                 loading, joining, ending, emits, ghosts, down>>
Disconnect(s) ==
  /\ s \in sessions
  /\ ~Live(s)
  /\ Forget(s)
  /\ LET d == userDocument[UserOf(s)] IN
     IF d = None \/ Room(d) \subseteq {s}
     THEN EndSession(s) /\ UNCHANGED ending
     ELSE ending' = ending \cup {s} /\ UNCHANGED <<sessions, up>>
  /\ UNCHANGED <<installation, links, restarts, mixed, documents, operations,
                 lockedBy, history, loading, joining, emits, down>>
EndDisconnect(s) ==
  /\ s \in ending
  /\ ending' = ending \ {s}
  /\ EndSession(s)
  /\ UNCHANGED <<installation, links, restarts, rooms, mixed, userDocument,
                 documents, operations, participants, lockedBy, history,
                 loading, joining, emits, ghosts, down>>
CloseRooms(s) ==
  /\ s \notin sessions /\ ~Live(s)
  /\ rooms[s] # {}
  /\ rooms' = [rooms EXCEPT ![s] = {}]
  /\ UNCHANGED <<installation, links, restarts, up, sessions, mixed,
                 userDocument, documents, operations, participants, lockedBy,
                 history, loading, joining, ending, emits, ghosts, down>>

(* The process ends and starts again: every table is memory, and every     *)
(* connection breaks.  Packets a client buffers while it is offline stay   *)
(* with the client.                                                        *)
Restart ==
  /\ restarts < MaxRestarts
  /\ restarts' = restarts + 1
  /\ sessions' = {}
  /\ rooms' = [s \in Sid |-> {}]
  /\ mixed' = {}
  /\ userDocument' = [u \in User |-> None]
  /\ documents' = {}
  /\ operations' = [d \in Doc |-> <<>>]
  /\ participants' = [d \in Doc |-> {}]
  /\ lockedBy' = [d \in Doc |-> None]
  /\ loading' = {} /\ joining' = <<>>
  /\ ending' = {}
  /\ emits' = <<>>
  /\ ghosts' = {}
  /\ connected' = [u \in User |-> FALSE]
  /\ up' = [s \in Sid |-> IF s[2] <= conn[s[1]] THEN <<>> ELSE up[s]]
  /\ down' = [s \in Sid |-> <<>>]
  /\ UNCHANGED <<installation, conn, history>>

ServerInit ==
  /\ redis \in BOOLEAN
  /\ encodes \in BOOLEAN
  /\ sessions = {}
  /\ rooms = [s \in Sid |-> {}]
  /\ mixed = {}
  /\ userDocument = [u \in User |-> None]
  /\ documents = {}
  /\ operations = [d \in Doc |-> <<>>]
  /\ participants = [d \in Doc |-> {}]
  /\ lockedBy = [d \in Doc |-> None]
  /\ history = [d \in Doc |-> <<>>]
  /\ loading = {} /\ joining = <<>>
  /\ ending = {}
  /\ emits = <<>>
  /\ ghosts = {}
  /\ restarts = 0
  /\ conn = [u \in User |-> 0]
  /\ connected = [u \in User |-> FALSE]
  /\ up = [s \in Sid |-> <<>>]
  /\ down = [s \in Sid |-> <<>>]

ServerNext ==
  \/ \E s \in Sid :
       Serve(s) \/ Disconnect(s) \/ EndDisconnect(s) \/ CloseRooms(s)
  \/ \E join \in loading : Loaded(join)
  \/ AnswerJoin \/ Send \/ Restart
=============================================================================
