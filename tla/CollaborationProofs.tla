-------------------------- MODULE CollaborationProofs --------------------------
(***************************************************************************)
(* For any users, documents, operations and bounds: whatever breaks, no    *)
(* edit is lost before a document holds it, the documents' histories       *)
(* implement the shared log, the server tracks only users who have a       *)
(* session or whom a join tracked while it ended, an operation is repeated *)
(* at most once for each connection and once for leaving, and a client in  *)
(* one room sees that room's document, one stretch of it twice at most.    *)
(* The argument follows an operation: its author's queue holds it, every   *)
(* request for it has an author, and an answer that removes it from the    *)
(* queue is only sent once a history holds it.  For the repeats it counts  *)
(* the requests in flight with the copies they become; for the view it     *)
(* folds the packets in flight over what the client shows.                 *)
(***************************************************************************)
EXTENDS Collaboration, SequenceTheorems, FoldTheorems, TLAPS

Made == {op \in Op : author[op] # None}
Recorded == {op \in Op : Logged(op)}
MadeBy(u) == {op \in Op : author[op] = u}

\* Requests to apply an operation name one that somebody made.
MadeRequest == {r \in Request : r.type = "operation" => r.op \in Made}
\* An answer names an operation some history holds.
EarnedEvent == {m \in Snapshot \cup Event : m.type = "success" => m.op \in Recorded}
\* An emit broadcasts an operation some history holds.
EarnedEmit == {e \in Emitted : e.op \in Recorded}
\* A queue holds each operation once.
NoRepeats(ops) == \A i, j \in DOMAIN ops : ops[i] = ops[j] => i = j

IInv ==
  /\ TypeOK
  /\ up \in [Sid -> Seq(MadeRequest)]
  /\ down \in [Sid -> Seq(EarnedEvent)]
  /\ emits \in Seq(EarnedEmit)
  /\ \A u \in User : queue[u] \in Seq(MadeBy(u)) /\ NoRepeats(queue[u])
  /\ EditsKept

-----------------------------------------------------------------------------
(* Sequences.                                                                *)
LEMMA Sent1 ==
  ASSUME NEW S, NEW x \in S
  PROVE  <<x>> \in Seq(S) /\ Len(<<x>>) = 1
OBVIOUS

LEMMA RangeAppend ==
  ASSUME NEW S, NEW ops \in Seq(S), NEW x
  PROVE  Range(Append(ops, x)) = Range(ops) \cup {x}
<1>1. DOMAIN ops = 1..Len(ops) /\ DOMAIN Append(ops, x) = 1..(Len(ops) + 1)
  OBVIOUS
<1>2. \A i \in 1..Len(ops) : Append(ops, x)[i] = ops[i]
  OBVIOUS
<1>3. Append(ops, x)[Len(ops) + 1] = x
  OBVIOUS
<1>4. Len(ops) + 1 \in DOMAIN Append(ops, x) /\ Len(ops) \in Nat
  BY <1>1
<1>5. ASSUME NEW y \in Range(Append(ops, x)) PROVE y \in Range(ops) \cup {x}
  BY <1>1, <1>2, <1>3, <1>5 DEF Range
<1>6. ASSUME NEW y \in Range(ops) PROVE y \in Range(Append(ops, x))
  BY <1>1, <1>2, <1>6 DEF Range
<1>7. x \in Range(Append(ops, x))
  BY <1>3, <1>4 DEF Range
<1> QED BY <1>5, <1>6, <1>7

LEMMA RangeOfTyped ==
  ASSUME NEW S, NEW ops \in Seq(S)
  PROVE  Range(ops) \subseteq S
BY DEF Range

LEMMA WithoutOne ==
  ASSUME NEW S, NEW ops \in Seq(S), NEW x
  PROVE  /\ Without(ops, x) \in Seq(S)
         /\ Range(ops) \ {x} \subseteq Range(Without(ops, x))
         /\ NoRepeats(ops) => /\ NoRepeats(Without(ops, x))
                              /\ Range(Without(ops, x)) = Range(ops) \ {x}
<1>1. CASE x \notin Range(ops)
  BY <1>1 DEF Without
<1>2. CASE x \in Range(ops)
  <2> DEFINE i == CHOOSE j \in DOMAIN ops : ops[j] = x
  <2> DEFINE left == SubSeq(ops, 1, i-1) \o SubSeq(ops, i+1, Len(ops))
  <2>1. i \in 1..Len(ops) /\ ops[i] = x
    BY <1>2 DEF Range
  <2>2. Without(ops, x) = left
    BY <1>2 DEF Without, RemoveAt
  <2> HIDE DEF i
  <2> DEFINE front == SubSeq(ops, 1, i-1)
             back == SubSeq(ops, i+1, Len(ops))
  <2>a. \A j \in 1..Len(ops) : ops[j] \in S
    BY ElementOfSeq
  <2>b. /\ front \in Seq(S)
        /\ Len(front) = i - 1
        /\ \A j \in 1..(i-1) : front[j] = ops[j]
    <3>1. i - 1 \in Int /\ \A j \in 1..(i-1) : ops[j] \in S
      BY <2>1, <2>a
    <3> QED BY <2>1, <3>1, SubSeqProperties
  <2>c. /\ back \in Seq(S)
        /\ Len(back) = Len(ops) - i
        /\ \A j \in 1..(Len(ops) - i) : back[j] = ops[i + j]
    <3>1. i + 1 \in Int /\ Len(ops) \in Int /\ \A j \in (i+1)..Len(ops) : ops[j] \in S
      BY <2>1, <2>a
    <3> QED BY <2>1, <3>1, SubSeqProperties
  <2>d. left = front \o back
    OBVIOUS
  <2> HIDE DEF front, back, left
  <2>e. /\ left \in Seq(S)
        /\ Len(left) = Len(front) + Len(back)
        /\ \A j \in 1 .. Len(front) + Len(back) :
              left[j] = IF j <= Len(front) THEN front[j] ELSE back[j - Len(front)]
    BY <2>b, <2>c, <2>d, ConcatProperties
  <2>3. left \in Seq(S) /\ Len(left) = Len(ops) - 1
    BY <2>1, <2>b, <2>c, <2>e
  <2>4. \A j \in 1..(Len(ops) - 1) : left[j] = IF j < i THEN ops[j] ELSE ops[j+1]
    <3> SUFFICES ASSUME NEW j \in 1..(Len(ops) - 1)
                 PROVE  left[j] = IF j < i THEN ops[j] ELSE ops[j+1]
      OBVIOUS
    <3>1. CASE j < i
      <4>1. j \in 1..(i - 1) /\ j <= Len(front) /\ j \in 1..(Len(front) + Len(back))
        BY <2>1, <2>b, <2>c, <3>1
      <4>2. left[j] = front[j] /\ front[j] = ops[j]
        BY <2>b, <2>e, <4>1
      <4> QED BY <3>1, <4>2
    <3>2. CASE j >= i
      <4>1. j - (i - 1) \in 1..(Len(ops) - i)
        BY <2>1, <3>2
      <4>2. back[j - (i - 1)] = ops[i + (j - (i - 1))] /\ i + (j - (i - 1)) = j + 1
        BY <2>1, <2>c, <4>1
      <4>3. /\ j \in 1 .. Len(front) + Len(back) /\ ~(j <= Len(front))
            /\ j - Len(front) = j - (i - 1)
        BY <2>1, <2>b, <2>c, <3>2
      <4>4. left[j] = back[j - (i - 1)]
        BY <2>e, <4>3
      <4>5. left[j] = ops[j + 1] /\ ~(j < i)
        BY <2>1, <3>2, <4>2, <4>4
      <4> QED BY <4>5
    <3> QED BY <2>1, <3>1, <3>2
  <2>5. DOMAIN left = 1..(Len(ops) - 1) /\ DOMAIN ops = 1..Len(ops)
    BY <2>3, LenProperties
  <2>6. ASSUME NEW y \in Range(ops), y # x PROVE y \in Range(left)
    <3>1. PICK j \in 1..Len(ops) : ops[j] = y
      BY <2>5, <2>6 DEF Range
    <3>2. CASE j < i
      <4>1. j \in 1..(Len(ops) - 1) /\ left[j] = y
        BY <2>1, <2>4, <3>1, <3>2
      <4> QED BY <2>5, <4>1 DEF Range
    <3>3. CASE j > i
      <4>1. j - 1 \in 1..(Len(ops) - 1) /\ left[j - 1] = y
        BY <2>1, <2>4, <3>1, <3>3
      <4> QED BY <2>5, <4>1 DEF Range
    <3> QED BY <2>1, <2>6, <3>1, <3>2, <3>3
  <2>7. ASSUME NoRepeats(ops) PROVE NoRepeats(left)
    <3> SUFFICES ASSUME NEW j \in 1..(Len(ops) - 1), NEW k \in 1..(Len(ops) - 1),
                        left[j] = left[k]
                 PROVE  j = k
      BY <2>5 DEF NoRepeats
    <3>1. \A m, n \in 1..Len(ops) : ops[m] = ops[n] => m = n
      BY <2>5, <2>7 DEF NoRepeats
    <3> QED BY <2>1, <2>4, <3>1
  <2>8. ASSUME NoRepeats(ops), NEW y \in Range(left) PROVE y \in Range(ops) \ {x}
    <3>1. PICK j \in 1..(Len(ops) - 1) : left[j] = y
      BY <2>5, <2>8 DEF Range
    <3>2. \A m, n \in 1..Len(ops) : ops[m] = ops[n] => m = n
      BY <2>5, <2>8 DEF NoRepeats
    <3>3. PICK k \in 1..Len(ops) : ops[k] = y /\ k # i
      BY <2>1, <2>4, <3>1
    <3>4. y # x
      BY <2>1, <3>2, <3>3
    <3> QED BY <2>5, <3>3, <3>4 DEF Range
  <2> QED BY <2>2, <2>3, <2>6, <2>7, <2>8
<1> QED BY <1>1, <1>2

LEMMA AppendNew ==
  ASSUME NEW S, NEW ops \in Seq(S), NEW x, x \notin Range(ops), NoRepeats(ops)
  PROVE  NoRepeats(Append(ops, x))
<1>1. DOMAIN ops = 1..Len(ops) /\ DOMAIN Append(ops, x) = 1..(Len(ops) + 1)
  OBVIOUS
<1>2. \A i \in 1..Len(ops) : Append(ops, x)[i] = ops[i] /\ ops[i] # x
  BY <1>1 DEF Range
<1>3. Append(ops, x)[Len(ops) + 1] = x
  OBVIOUS
<1>4. \A i, j \in 1..Len(ops) : ops[i] = ops[j] => i = j
  BY <1>1 DEF NoRepeats
<1> QED BY <1>1, <1>2, <1>3, <1>4 DEF NoRepeats

-----------------------------------------------------------------------------
(* The initial state, and what the packets of a step are.                    *)
LEMMA EmptyIsSeq ==
  ASSUME NEW S
  PROVE  <<>> \in Seq(S)
OBVIOUS

LEMMA InitIInv == Init => IInv
<1> SUFFICES ASSUME Init PROVE IInv
  OBVIOUS
<1>1. TypeOK
  BY CollaborationAssumption DEF Init, ServerInit, TypeOK
<1>2. up \in [Sid -> Seq(MadeRequest)] /\ down \in [Sid -> Seq(EarnedEvent)]
      /\ emits \in Seq(EarnedEmit)
  BY DEF Init, ServerInit
<1>3. \A u \in User : queue[u] \in Seq(MadeBy(u)) /\ NoRepeats(queue[u])
  BY DEF Init, NoRepeats
<1>4. EditsKept
  BY DEF Init, EditsKept
<1> QED BY <1>1, <1>2, <1>3, <1>4 DEF IInv

(* Nothing that was made or recorded is ever unmade.                         *)
LEMMA SetsGrow ==
  ASSUME IInv,
         \A op \in Op : author[op] # None => author'[op] = author[op],
         \A op \in Op : Logged(op) => Logged(op)'
  PROVE  /\ Made \subseteq Made' /\ Recorded \subseteq Recorded'
         /\ MadeRequest \subseteq MadeRequest' /\ EarnedEvent \subseteq EarnedEvent'
         /\ EarnedEmit \subseteq EarnedEmit'
         /\ \A u \in User : MadeBy(u) \subseteq MadeBy(u)'
<1>1. Made \subseteq Made' /\ Recorded \subseteq Recorded'
  BY DEF Made, Recorded
<1>2. \A u \in User : MadeBy(u) \subseteq MadeBy(u)'
  BY CollaborationAssumption DEF MadeBy
<1>3. MadeRequest \subseteq MadeRequest'
  BY <1>1 DEF MadeRequest, Request
<1>4. EarnedEvent \subseteq EarnedEvent'
  BY <1>1 DEF EarnedEvent, Snapshot, Event
<1>5. EarnedEmit \subseteq EarnedEmit'
  BY <1>1 DEF EarnedEmit, Emitted
<1> QED BY <1>1, <1>2, <1>3, <1>4, <1>5

LEMMA HistoryGrows ==
  ASSUME TypeOK,
         \/ history' = history
         \/ \E d \in Doc, op \in Op :
              history' = [history EXCEPT ![d] = Append(@, op)]
  PROVE  \A op \in Op : Logged(op) => Logged(op)'
<1>1. CASE history' = history
  BY <1>1 DEF Logged
<1>2. CASE \E d \in Doc, op \in Op : history' = [history EXCEPT ![d] = Append(@, op)]
  <2>1. PICK d \in Doc, op \in Op : history' = [history EXCEPT ![d] = Append(@, op)]
    BY <1>2
  <2>2. \A e \in Doc : history[e] \in Seq(Op)
    BY DEF TypeOK
  <2>3. \A e \in Doc : Range(history[e]) \subseteq Range(history'[e])
    <3> TAKE e \in Doc
    <3>1. CASE e = d
      <4>1. history'[e] = Append(history[e], op)
        BY <2>1, <3>1 DEF TypeOK
      <4> QED BY <2>2, <4>1, RangeAppend
    <3>2. CASE e # d
      BY <2>1, <3>2 DEF TypeOK
    <3> QED BY <3>1, <3>2
  <2> QED BY <2>3 DEF Logged
<1> QED BY <1>1, <1>2

(* A step that leaves the clients' edits alone keeps everything about them.  *)
LEMMA SameEdits ==
  ASSUME IInv, UNCHANGED <<author, queue, abandoned>>,
         \/ history' = history
         \/ \E d \in Doc, op \in Op :
              history' = [history EXCEPT ![d] = Append(@, op)]
  PROVE  /\ MadeRequest' = MadeRequest
         /\ EarnedEvent \subseteq EarnedEvent' /\ EarnedEmit \subseteq EarnedEmit'
         /\ Recorded \subseteq Recorded'
         /\ \A u \in User : queue'[u] \in Seq(MadeBy(u)') /\ NoRepeats(queue'[u])
         /\ EditsKept'
<1>1. \A op \in Op : Logged(op) => Logged(op)'
  BY HistoryGrows DEF IInv
<1>2. EarnedEvent \subseteq EarnedEvent' /\ Recorded \subseteq Recorded'
      /\ EarnedEmit \subseteq EarnedEmit'
  BY <1>1, SetsGrow
<1>3. MadeRequest' = MadeRequest
  BY DEF MadeRequest, Made, Request
<1>4. \A u \in User : queue'[u] \in Seq(MadeBy(u)') /\ NoRepeats(queue'[u])
  BY DEF IInv, MadeBy, NoRepeats
<1>5. EditsKept'
  BY <1>1 DEF IInv, EditsKept
<1> QED BY <1>2, <1>3, <1>4, <1>5

LEMMA SentTyped ==
  ASSUME NEW S, down \in [Sid -> Seq(S)], NEW s \in Sid, NEW packet \in S
  PROVE  Sent(s, packet) \in [Sid -> Seq(S)]
BY DEF Sent

LEMMA UserOfSid == \A s \in Sid : UserOf(s) \in User
BY DEF Sid, UserOf

LEMMA ForgetTyped ==
  ASSUME TypeOK, NEW s \in Sid, Forget(s)
  PROVE  /\ userDocument' \in [User -> Doc \cup {None}]
         /\ participants' \in [Doc -> SUBSET User]
         /\ rooms' \in [Sid -> SUBSET Doc] /\ ghosts' \subseteq User
BY UserOfSid DEF TypeOK, Forget

LEMMA SmallerDown ==
  ASSUME IInv, NEW S, EarnedEvent \subseteq S
  PROVE  down \in [Sid -> Seq(S)]
BY SeqMonotonic DEF IInv

(* A snapshot goes to one connection, if the codec takes it.                 *)
LEMMA AnswerTyped ==
  ASSUME IInv, NEW join \in Join
  PROVE  Answer(join) \in [Sid -> Seq(EarnedEvent)]
<1>1. join.sid \in Sid /\ operations[join.doc] \in Seq(Op) /\ join.doc \in Doc
  BY DEF Join, IInv, TypeOK
<1> DEFINE m == [type |-> "document", doc |-> join.doc, operations |-> operations[join.doc]]
<1>2. m \in EarnedEvent
  BY <1>1 DEF Snapshot, EarnedEvent
<1> HIDE DEF m
<1>3. down \in [Sid -> Seq(EarnedEvent)]
  BY DEF IInv
<1>4. Sent(join.sid, m) \in [Sid -> Seq(EarnedEvent)]
  BY <1>1, <1>2, <1>3, SentTyped
<1>5. Answer(join) = IF encodes THEN Sent(join.sid, m) ELSE down
  BY DEF Answer, m
<1> QED BY <1>3, <1>4, <1>5

(* Entering a room keeps the types of what it changes.                       *)
LEMMA EnterTyped ==
  ASSUME IInv, NEW s \in Sid, NEW d \in Doc, EnterRoom(s, d)
  PROVE  /\ rooms' \in [Sid -> SUBSET Doc] /\ mixed' \subseteq Sid
         /\ userDocument' \in [User -> Doc \cup {None}]
         /\ participants' \in [Doc -> SUBSET User]
         /\ ghosts' \subseteq User /\ joining' \in Seq(Join)
         /\ down' \in [Sid -> Seq(EarnedEvent)]
<1>0. TypeOK /\ UserOf(s) \in User /\ down \in [Sid -> Seq(EarnedEvent)]
  BY UserOfSid DEF IInv
<1>1. [sid |-> s, doc |-> d] \in Join
  BY DEF Join
<1>2. down' \in [Sid -> Seq(EarnedEvent)]
  BY <1>0, <1>1, AnswerTyped DEF EnterRoom
<1>3. joining' \in Seq(Join)
  <2>1. joining \in Seq(Join)
    BY <1>0 DEF TypeOK
  <2>2. joining' \in {joining, Append(joining, [sid |-> s, doc |-> d])}
    BY DEF EnterRoom
  <2> QED BY <1>1, <2>1, <2>2, AppendProperties
<1>4. /\ rooms' \in [Sid -> SUBSET Doc] /\ mixed' \subseteq Sid
      /\ userDocument' \in [User -> Doc \cup {None}]
      /\ participants' \in [Doc -> SUBSET User] /\ ghosts' \subseteq User
  BY <1>0 DEF EnterRoom, TypeOK
<1> QED BY <1>2, <1>3, <1>4

(* Steps of the server that record nothing and take nothing from a client.   *)
LEMMA QuietStep ==
  ASSUME IInv, UNCHANGED clientVars, UNCHANGED history,
         TypeOK', up' \in [Sid -> Seq(MadeRequest)],
         down' \in [Sid -> Seq(EarnedEvent)], emits' \in Seq(EarnedEmit)
  PROVE  IInv'
<1>1. EarnedEvent' = EarnedEvent /\ EarnedEmit' = EarnedEmit
  BY DEF EarnedEvent, EarnedEmit, Emitted, Snapshot, Event, Recorded, Logged
<1> QED BY <1>1, SameEdits DEF IInv, clientVars

LEMMA EarnedTyped ==
  ASSUME NEW f, f \in [Sid -> Seq(EarnedEvent)]
  PROVE  f \in [Sid -> Seq(Snapshot \cup Event)]
<1>1. EarnedEvent \subseteq Snapshot \cup Event
  BY DEF EarnedEvent
<1> QED BY <1>1, SeqMonotonic

(* What the server does with one packet.                                     *)
LEMMA ServeStep ==
  ASSUME IInv, NEW s \in Sid, Serve(s), UNCHANGED clientVars
  PROVE  IInv'
<1> DEFINE r == Head(up[s])
<1>0. /\ TypeOK /\ UserOf(s) \in User
      /\ down \in [Sid -> Seq(EarnedEvent)] /\ emits \in Seq(EarnedEmit)
  BY UserOfSid DEF IInv
<1>1. r \in MadeRequest /\ up' \in [Sid -> Seq(MadeRequest)]
  BY HeadTailProperties DEF Serve, IInv
<1>2. up' \in [Sid -> Seq(Request)]
  BY <1>0, HeadTailProperties DEF Serve, TypeOK
<1>3. r \in Request
  BY <1>1 DEF MadeRequest
<1>4. r.doc \in Doc /\ (r.type = "operation" => r.op \in Made /\ r.op \in Op)
  BY <1>1, <1>3 DEF MadeRequest, Request, Made
<1>a. UNCHANGED <<installation, links, restarts, clientVars>>
  BY DEF Serve
<1> HIDE DEF r
<1>5. CASE JoinDocument(s, r.doc)
  <2>0. UNCHANGED <<sessions, operations, lockedBy, history, ending, emits>>
        /\ documents' = documents \cup {r.doc}
    BY <1>5 DEF JoinDocument
  <2>1. CASE EnterRoom(s, r.doc) /\ UNCHANGED loading
    <3>1. TypeOK'
      BY <1>0, <1>2, <1>4, <1>a, <2>0, <2>1, EnterTyped, EarnedTyped
         DEF TypeOK, installation, links, clientVars
    <3> QED BY <1>0, <1>1, <1>4, <2>0, <2>1, <3>1, EnterTyped, QuietStep
  <2>2. CASE /\ loading' = loading \cup {[sid |-> s, doc |-> r.doc]}
             /\ UNCHANGED <<rooms, mixed, userDocument, participants, joining,
                            ghosts, down>>
    <3>1. [sid |-> s, doc |-> r.doc] \in Join
      BY <1>4 DEF Join
    <3>2. TypeOK'
      BY <1>0, <1>2, <1>4, <1>a, <2>0, <2>2, <3>1
         DEF TypeOK, installation, links, clientVars
    <3> QED BY <1>0, <1>1, <2>0, <2>2, <3>2, QuietStep
  <2> QED BY <1>5, <2>1, <2>2 DEF JoinDocument
<1>6. CASE LeaveDocument(s)
  <2>0. UNCHANGED <<sessions, mixed, documents, operations, lockedBy, history,
                    loading, joining, ending, emits, down>>
    BY <1>6 DEF LeaveDocument
  <2>1. TypeOK'
    BY <1>0, <1>2, <1>6, <1>a, <2>0, ForgetTyped
       DEF TypeOK, LeaveDocument, installation, links, clientVars
  <2> QED BY <1>0, <1>1, <2>0, <2>1, QuietStep
<1>7. CASE r.type = "operation" /\ ProcessOperation(s, r.doc, r.op)
  <2>1. r.op \in Op
    BY <1>4, <1>7
  <2>2. \/ history' = history
        \/ \E d \in Doc, op \in Op : history' = [history EXCEPT ![d] = Append(@, op)]
    BY <1>4, <1>7, <2>1 DEF ProcessOperation
  <2>3. EarnedEvent \subseteq EarnedEvent' /\ EarnedEmit \subseteq EarnedEmit'
    BY <2>2, SameEdits DEF clientVars
  <2>4. down \in [Sid -> Seq(EarnedEvent')] /\ emits \in Seq(EarnedEmit')
    <3> DEFINE E == EarnedEvent'
               F == EarnedEmit'
    <3>1. EarnedEvent \subseteq E /\ EarnedEmit \subseteq F
      BY <2>3
    <3> HIDE DEF E, F
    <3>2. down \in [Sid -> Seq(E)] /\ emits \in Seq(F)
      BY <1>0, <3>1, SeqMonotonic
    <3> QED BY <3>2 DEF E, F
  <2>5. ASSUME r.doc \in documents
        PROVE  down' \in [Sid -> Seq(EarnedEvent')] /\ emits' \in Seq(EarnedEmit')
    <3> DEFINE answer == [type |-> "success", op |-> r.op]
               e == [to |-> Room(r.doc), from |-> s, op |-> r.op]
    <3>1. answer \in Event /\ e \in Emitted /\ e.op = r.op
      BY <2>1 DEF Event, Emitted, Room
    <3>2. r.op \in Recorded'
      <4>1. history'[r.doc] = Append(history[r.doc], r.op) /\ history[r.doc] \in Seq(Op)
        BY <1>0, <1>4, <1>7, <2>1, <2>5 DEF ProcessOperation, TypeOK
      <4>2. r.op \in Range(history'[r.doc])
        BY <4>1, RangeAppend
      <4> QED BY <1>4, <2>1, <4>2 DEF Recorded, Logged
    <3>3. answer \in EarnedEvent'
      BY <3>1, <3>2 DEF EarnedEvent, Event, Snapshot
    <3>4. e \in EarnedEmit'
      <4> HIDE DEF e
      <4> QED BY <3>1, <3>2 DEF EarnedEmit, Emitted
    <3>5. down' \in {down, Sent(s, answer)} /\ emits' \in {emits, Append(emits, e)}
      BY <1>7, <2>5 DEF ProcessOperation
    <3> HIDE DEF answer, e
    <3>6. Sent(s, answer) \in [Sid -> Seq(EarnedEvent')]
      BY <2>4, <3>3, SentTyped
    <3>7. Append(emits, e) \in Seq(EarnedEmit')
      BY <2>4, <3>4, AppendProperties
    <3> QED BY <2>4, <3>5, <3>6, <3>7
  <2>6. ASSUME r.doc \notin documents
        PROVE  down' \in [Sid -> Seq(EarnedEvent')] /\ emits' \in Seq(EarnedEmit')
    <3>1. down' = down /\ emits' = emits
      BY <1>7, <2>6 DEF ProcessOperation
    <3> QED BY <2>4, <3>1
  <2>7. \A m \in EarnedEvent' : m \in Snapshot \cup Event
    BY DEF EarnedEvent, Snapshot, Event
  <2>8. down' \in [Sid -> Seq(Snapshot \cup Event)]
    BY <2>5, <2>6, <2>7, SeqMonotonic
  <2>9. emits' \in Seq(Emitted)
    <3>1. \A e \in EarnedEmit' : e \in Emitted
      BY DEF EarnedEmit, Emitted
    <3> QED BY <2>5, <2>6, <3>1, SeqMonotonic
  <2>10. operations' \in [Doc -> Seq(Op)] /\ history' \in [Doc -> Seq(Op)]
    <3>1. operations \in [Doc -> Seq(Op)] /\ history \in [Doc -> Seq(Op)]
      BY <1>0 DEF TypeOK
    <3>2. \/ UNCHANGED <<operations, history>>
          \/ /\ operations' = [operations EXCEPT ![r.doc] = Append(@, r.op)]
             /\ history' = [history EXCEPT ![r.doc] = Append(@, r.op)]
      BY <1>7 DEF ProcessOperation
    <3>3. Append(operations[r.doc], r.op) \in Seq(Op) /\ Append(history[r.doc], r.op) \in Seq(Op)
      BY <1>4, <2>1, <3>1, AppendProperties
    <3> QED BY <3>1, <3>2, <3>3
  <2>11. UNCHANGED <<sessions, rooms, mixed, userDocument, documents, participants,
                     lockedBy, loading, joining, ending, ghosts>>
    BY <1>7 DEF ProcessOperation
  <2>12. TypeOK'
    BY <1>0, <1>2, <1>a, <2>8, <2>9, <2>10, <2>11
       DEF TypeOK, installation, links, clientVars
  <2> QED BY <1>1, <2>2, <2>5, <2>6, <2>12, SameEdits DEF IInv, clientVars
<1>8. CASE \E holder \in User \cup {None} : DocumentLock(s, r.doc, holder)
  <2>0. UNCHANGED <<sessions, rooms, mixed, userDocument, documents, operations,
                    participants, history, loading, joining, ending, emits, ghosts,
                    down>>
    BY <1>8 DEF DocumentLock
  <2>1. lockedBy' \in [Doc -> User \cup {None}]
    BY <1>0, <1>4, <1>8 DEF DocumentLock, TypeOK
  <2>2. TypeOK'
    BY <1>0, <1>2, <1>a, <2>0, <2>1 DEF TypeOK, installation, links, clientVars
  <2> QED BY <1>0, <1>1, <2>0, <2>2, QuietStep
<1> QED BY <1>0, <1>5, <1>6, <1>7, <1>8 DEF Serve, r

(* What runs when an await of a handler is over.                             *)
LEMMA LoadedStep ==
  ASSUME IInv, NEW join \in loading, Loaded(join), UNCHANGED clientVars
  PROVE  IInv'
<1>0. /\ TypeOK /\ join \in Join /\ up \in [Sid -> Seq(MadeRequest)]
      /\ down \in [Sid -> Seq(EarnedEvent)] /\ emits \in Seq(EarnedEmit)
  BY DEF IInv, TypeOK
<1>1. join.sid \in Sid /\ join.doc \in Doc
  BY <1>0 DEF Join
<1>2. UNCHANGED <<installation, links, restarts, up, sessions, documents,
                  operations, lockedBy, history, ending, emits, clientVars>>
      /\ loading' = loading \ {join}
  BY DEF Loaded
<1>3. CASE EnterRoom(join.sid, join.doc)
  <2>1. TypeOK'
    BY <1>0, <1>1, <1>2, <1>3, EnterTyped, EarnedTyped
       DEF TypeOK, installation, links, clientVars
  <2> QED BY <1>0, <1>1, <1>2, <1>3, <2>1, EnterTyped, QuietStep
<1>4. CASE UNCHANGED <<rooms, mixed, userDocument, participants, joining, ghosts, down>>
  <2>1. TypeOK'
    BY <1>0, <1>2, <1>4 DEF TypeOK, installation, links, clientVars
  <2> QED BY <1>0, <1>2, <1>4, <2>1, QuietStep
<1> QED BY <1>3, <1>4 DEF Loaded

LEMMA AnswerJoinStep ==
  ASSUME IInv, AnswerJoin, UNCHANGED clientVars
  PROVE  IInv'
<1>0. /\ TypeOK /\ up \in [Sid -> Seq(MadeRequest)] /\ emits \in Seq(EarnedEmit)
      /\ joining \in Seq(Join)
  BY DEF IInv, TypeOK
<1>1. Head(joining) \in Join /\ joining' \in Seq(Join)
  BY <1>0, HeadTailProperties DEF AnswerJoin
<1>2. down' \in [Sid -> Seq(EarnedEvent)]
  BY <1>1, AnswerTyped DEF AnswerJoin
<1>3. UNCHANGED <<installation, links, restarts, up, sessions, rooms, mixed,
                  userDocument, documents, operations, participants, lockedBy,
                  history, loading, ending, emits, ghosts, clientVars>>
  BY DEF AnswerJoin
<1>4. TypeOK'
  BY <1>0, <1>1, <1>2, <1>3, EarnedTyped DEF TypeOK, installation, links, clientVars
<1> QED BY <1>0, <1>2, <1>3, <1>4, QuietStep

LEMMA SendStep ==
  ASSUME IInv, Send, UNCHANGED clientVars
  PROVE  IInv'
<1> DEFINE e == Head(emits)
<1>0. /\ TypeOK /\ up \in [Sid -> Seq(MadeRequest)] /\ emits \in Seq(EarnedEmit)
      /\ down \in [Sid -> Seq(EarnedEvent)] /\ emits # <<>>
  BY DEF IInv, Send
<1>1. e \in EarnedEmit /\ emits' \in Seq(EarnedEmit)
  BY <1>0, HeadTailProperties DEF Send
<1>2. emits' \in Seq(Emitted)
  <2>1. EarnedEmit \subseteq Emitted
    BY DEF EarnedEmit
  <2> QED BY <1>1, <2>1, SeqMonotonic
<1>3. down' = [t \in Sid |-> IF Live(t) THEN down[t] \o Broadcast(e, t) \o Success(e, t)
                             ELSE down[t]]
  BY DEF Send
<1> HIDE DEF e
<1>4. ASSUME NEW t \in Sid
      PROVE  Broadcast(e, t) \in Seq(EarnedEvent) /\ Success(e, t) \in Seq(EarnedEvent)
  <2>1. e.op \in Op /\ e.op \in Recorded
    BY <1>1 DEF EarnedEmit, Recorded
  <2>2. /\ [type |-> "operation", op |-> e.op] \in EarnedEvent
        /\ [type |-> "success", op |-> e.op] \in EarnedEvent
    BY <2>1 DEF EarnedEvent, Event
  <2> QED BY <2>2 DEF Broadcast, Success
<1>5. down' \in [Sid -> Seq(EarnedEvent)]
  <2>1. ASSUME NEW t \in Sid
        PROVE  down[t] \o Broadcast(e, t) \o Success(e, t) \in Seq(EarnedEvent)
    <3>1. down[t] \o Broadcast(e, t) \in Seq(EarnedEvent)
      BY <1>0, <1>4, ConcatProperties
    <3> QED BY <1>4, <3>1, ConcatProperties
  <2> QED BY <1>0, <1>3, <2>1
<1>6. UNCHANGED <<installation, links, restarts, up, sessions, rooms, mixed,
                  userDocument, documents, operations, participants, lockedBy,
                  history, loading, joining, ending, ghosts, clientVars>>
  BY DEF Send
<1>7. TypeOK'
  BY <1>0, <1>2, <1>5, <1>6, EarnedTyped DEF TypeOK, installation, links, clientVars
<1> QED BY <1>0, <1>1, <1>5, <1>6, <1>7, QuietStep

LEMMA EndSessionTyped ==
  ASSUME NEW S, up \in [Sid -> Seq(S)], NEW s \in Sid, EndSession(s) \/ up' = up
  PROVE  up' \in [Sid -> Seq(S)]
<1>1. <<>> \in Seq(S)
  BY EmptyIsSeq
<1> QED BY <1>1 DEF EndSession

LEMMA DisconnectStep ==
  ASSUME IInv, NEW s \in Sid, Disconnect(s) \/ EndDisconnect(s) \/ CloseRooms(s),
         UNCHANGED clientVars
  PROVE  IInv'
<1>0. /\ TypeOK /\ up \in [Sid -> Seq(MadeRequest)]
      /\ down \in [Sid -> Seq(EarnedEvent)] /\ emits \in Seq(EarnedEmit)
  BY DEF IInv
<1>1. UNCHANGED <<installation, links, restarts, mixed, documents, operations,
                  lockedBy, history, loading, joining, emits, down>>
  BY DEF Disconnect, EndDisconnect, CloseRooms
<1>2. up' \in [Sid -> Seq(MadeRequest)]
  BY <1>0, EndSessionTyped DEF Disconnect, EndDisconnect, CloseRooms
<1>3. up' \in [Sid -> Seq(Request)]
  BY <1>0, EndSessionTyped DEF Disconnect, EndDisconnect, CloseRooms, TypeOK
<1>a. sessions' \subseteq Sid /\ ending' \subseteq Sid
  BY <1>0 DEF Disconnect, EndDisconnect, CloseRooms, EndSession, TypeOK
<1>4. /\ rooms' \in [Sid -> SUBSET Doc] /\ userDocument' \in [User -> Doc \cup {None}]
      /\ participants' \in [Doc -> SUBSET User] /\ ghosts' \subseteq User
  BY <1>0, ForgetTyped DEF Disconnect, EndDisconnect, CloseRooms, TypeOK
<1>5. TypeOK'
  BY <1>0, <1>1, <1>3, <1>4, <1>a DEF TypeOK, installation, links, clientVars
<1> QED BY <1>0, <1>1, <1>2, <1>5, QuietStep

LEMMA RestartStep ==
  ASSUME IInv, Restart, UNCHANGED clientVars
  PROVE  IInv'
<1>1. TypeOK'
  BY CollaborationAssumption DEF IInv, TypeOK, Restart, installation, clientVars
<1>2. /\ up' \in [Sid -> Seq(MadeRequest)]
      /\ down' \in [Sid -> Seq(EarnedEvent)]
      /\ emits' \in Seq(EarnedEmit)
      /\ history' = history
  BY DEF Restart, IInv
<1> QED BY <1>1, <1>2, QuietStep

-----------------------------------------------------------------------------
(* What the clients do.                                                      *)
LEMMA EmitTyped ==
  ASSUME NEW S, up \in [Sid -> Seq(S)], NEW u, NEW packets \in Seq(S),
         Emit(u, packets)
  PROVE  up' \in [Sid -> Seq(S)]
<1> DEFINE o == Outlet(u)
<1>1. up' = [up EXCEPT ![o] = @ \o packets]
  BY DEF Emit
<1> HIDE DEF o
<1>2. ASSUME NEW s \in Sid PROVE up'[s] \in Seq(S)
  <2>1. CASE s = o
    <3>1. up'[s] = up[s] \o packets
      BY <1>1, <2>1
    <3> QED BY <3>1, ConcatProperties
  <2>2. CASE s # o
    BY <1>1, <2>2
  <2> QED BY <2>1, <2>2
<1>3. up' = [s \in Sid |-> up'[s]]
  BY <1>1
<1> QED BY <1>2, <1>3

LEMMA PendingTyped ==
  ASSUME IInv, NEW u \in User
  PROVE  Pending(u) \in Seq(MadeRequest)
<1>1. queue[u] \in Seq(MadeBy(u)) /\ doc[u] \in Doc \cup {None}
  BY DEF IInv, TypeOK
<1>2. CASE doc[u] = None
  BY <1>2 DEF Pending
<1>3. CASE doc[u] # None
  <2>1. DOMAIN queue[u] = 1..Len(queue[u]) /\ Len(queue[u]) \in Nat
    BY <1>1, LenProperties
  <2>2. \A i \in 1..Len(queue[u]) : queue[u][i] \in Op /\ queue[u][i] \in Made
    <3>1. MadeBy(u) \subseteq Op /\ MadeBy(u) \subseteq Made
      BY CollaborationAssumption DEF MadeBy, Made
    <3> QED BY <1>1, <3>1, ElementOfSeq
  <2>3. \A i \in 1..Len(queue[u]) :
          [type |-> "operation", doc |-> doc[u], op |-> queue[u][i]] \in MadeRequest
    BY <1>1, <1>3, <2>2 DEF MadeRequest, Request
  <2>4. Pending(u) \in [1..Len(queue[u]) -> MadeRequest]
    BY <1>3, <2>1, <2>3 DEF Pending
  <2> QED BY <2>1, <2>4, SeqDef
<1> QED BY <1>1, <1>2, <1>3

LEMMA RequestedTyped ==
  ASSUME NEW d \in Doc, NEW type \in {"join", "leave", "lock", "unlock"}
  PROVE  Requested(type, d, None) \in Seq(MadeRequest)
<1>1. [type |-> type, doc |-> d, op |-> None] \in MadeRequest
  BY DEF MadeRequest, Request
<1> QED BY <1>1 DEF Requested

LEMMA RequestsTyped ==
  ASSUME up' \in [Sid -> Seq(MadeRequest)]
  PROVE  up' \in [Sid -> Seq(Request)]
<1>1. MadeRequest \subseteq Request
  BY DEF MadeRequest
<1> QED BY <1>1, SeqMonotonic

LEMMA EventsTyped ==
  ASSUME down' \in [Sid -> Seq(EarnedEvent)]
  PROVE  down' \in [Sid -> Seq(Snapshot \cup Event)]
<1>1. EarnedEvent \subseteq Snapshot \cup Event
  BY DEF EarnedEvent
<1> QED BY <1>1, SeqMonotonic

LEMMA SameHistory ==
  ASSUME history' = history
  PROVE  EarnedEvent' = EarnedEvent /\ EarnedEmit' = EarnedEmit
         /\ \A op \in Op : Logged(op)' = Logged(op)
BY DEF EarnedEvent, EarnedEmit, Emitted, Snapshot, Event, Recorded, Logged

LEMMA ReplacedTyped ==
  ASSUME NEW S, down \in [Sid -> Seq(S)], NEW s, NEW packets \in Seq(S),
         down' = [down EXCEPT ![s] = packets]
  PROVE  down' \in [Sid -> Seq(S)]
OBVIOUS

(* Steps that change only connections and packets.                           *)
LEMMA LinkStep ==
  ASSUME IInv, NEW u \in User, UNCHANGED clientVars,
         \/ Connect(u) \/ Drop(u)
         \/ \E d \in Doc : EmitJoin(u, d)
         \/ \E type \in {"lock", "unlock"} : LockDocument(u, type)
  PROVE  IInv'
<1>0. /\ TypeOK /\ up \in [Sid -> Seq(MadeRequest)] /\ down \in [Sid -> Seq(EarnedEvent)]
      /\ emits \in Seq(EarnedEmit)
  BY DEF IInv
<1>a. UNCHANGED <<history, emits, installation, restarts>>
  BY DEF Connect, Drop, EmitJoin, LockDocument, serverVars
<1> SUFFICES /\ TypeOK'
             /\ history' = history
             /\ up' \in [Sid -> Seq(MadeRequest)]
             /\ down' \in [Sid -> Seq(EarnedEvent)]
  BY <1>0, <1>a, QuietStep
<1>1. ASSUME Connect(u)
      PROVE  /\ TypeOK'
             /\ history' = history
             /\ up' \in [Sid -> Seq(MadeRequest)]
             /\ down' \in [Sid -> Seq(EarnedEvent)]
  <2>1. up' \in [Sid -> Seq(MadeRequest)]
    BY <1>0, <1>1, PendingTyped, EmitTyped DEF Connect
  <2>2. MaxConnections[u] \in Nat /\ conn[u] \in Nat /\ conn[u] + 1 \in 1..MaxConnections[u]
    <3>1. MaxConnections[u] \in Nat /\ conn[u] \in Nat /\ conn[u] < MaxConnections[u]
      BY <1>0, <1>1, CollaborationAssumption DEF Connect, TypeOK
    <3> QED BY <3>1
  <2>3. <<u, conn[u] + 1>> \in Sid
    BY <2>2 DEF Sid
  <2>4. /\ conn' \in [User -> Nat] /\ connected' \in [User -> BOOLEAN]
        /\ \A w \in User : conn'[w] <= MaxConnections[w]
        /\ sessions' \subseteq Sid
    <3>1. /\ connected' = [connected EXCEPT ![u] = TRUE]
          /\ conn' = [conn EXCEPT ![u] = conn[u] + 1]
          /\ sessions' = sessions \cup {<<u, conn[u] + 1>>}
      BY <1>1 DEF Connect
    <3>2. /\ conn \in [User -> Nat] /\ connected \in [User -> BOOLEAN]
          /\ \A w \in User : conn[w] <= MaxConnections[w]
          /\ sessions \subseteq Sid
      BY <1>0 DEF TypeOK
    <3> QED BY <2>2, <2>3, <3>1, <3>2
  <2>5. up' \in [Sid -> Seq(Request)]
    BY <2>1, RequestsTyped
  <2>6. TypeOK'
    BY <1>0, <1>1, <2>4, <2>5 DEF Connect, TypeOK, installation, clientVars
  <2> QED BY <1>0, <1>1, <2>1, <2>6 DEF Connect
<1>2. ASSUME Drop(u)
      PROVE  /\ TypeOK'
             /\ history' = history
             /\ up' \in [Sid -> Seq(MadeRequest)]
             /\ down' \in [Sid -> Seq(EarnedEvent)]
  <2>1. down' \in [Sid -> Seq(EarnedEvent)]
    <3>1. down' = [down EXCEPT ![<<u, conn[u]>>] = <<>>]
      BY <1>2 DEF Drop
    <3> QED BY <1>0, <3>1, EmptyIsSeq, ReplacedTyped
  <2>2. down' \in [Sid -> Seq(Snapshot \cup Event)]
    BY <2>1, EventsTyped
  <2>3. connected' \in [User -> BOOLEAN] /\ mixed' \subseteq Sid
    BY <1>0, <1>2 DEF Drop, TypeOK
  <2>4. UNCHANGED <<installation, restarts, sessions, rooms, userDocument,
                    documents, operations, participants, lockedBy, history,
                    loading, joining, ending, emits, ghosts, conn, up, clientVars>>
    BY <1>2 DEF Drop
  <2>5. TypeOK'
    BY <1>0, <2>2, <2>3, <2>4 DEF TypeOK, installation, clientVars
  <2> QED BY <1>0, <2>1, <2>4, <2>5
<1>3. ASSUME NEW packets \in Seq(MadeRequest), Emit(u, packets),
             UNCHANGED <<installation, restarts, serverVars, links, down>>
      PROVE  /\ TypeOK'
             /\ history' = history
             /\ up' \in [Sid -> Seq(MadeRequest)]
             /\ down' \in [Sid -> Seq(EarnedEvent)]
  <2>1. up' \in [Sid -> Seq(MadeRequest)]
    BY <1>0, <1>3, EmitTyped
  <2>2. up' \in [Sid -> Seq(Request)]
    BY <2>1, RequestsTyped
  <2>3. TypeOK'
    BY <1>0, <1>3, <2>2 DEF TypeOK, installation, links, serverVars, clientVars
  <2> QED BY <1>0, <1>3, <2>1, <2>3 DEF serverVars
<1>4. ASSUME NEW d \in Doc, EmitJoin(u, d)
      PROVE  /\ TypeOK'
             /\ history' = history
             /\ up' \in [Sid -> Seq(MadeRequest)]
             /\ down' \in [Sid -> Seq(EarnedEvent)]
  BY <1>3, <1>4, RequestedTyped DEF EmitJoin
<1>5. ASSUME NEW type \in {"lock", "unlock"}, LockDocument(u, type)
      PROVE  /\ TypeOK'
             /\ history' = history
             /\ up' \in [Sid -> Seq(MadeRequest)]
             /\ down' \in [Sid -> Seq(EarnedEvent)]
  <2>1. doc[u] \in Doc
    BY <1>0, <1>5 DEF LockDocument, TypeOK
  <2> QED BY <1>3, <1>5, <2>1, RequestedTyped DEF LockDocument
<1> QED BY <1>1, <1>2, <1>4, <1>5

LEMMA LeaveStep ==
  ASSUME IInv, NEW u \in User, Leave(u)
  PROVE  IInv'
<1>0. /\ TypeOK /\ up \in [Sid -> Seq(MadeRequest)]
      /\ down \in [Sid -> Seq(EarnedEvent)] /\ EditsKept
  BY DEF IInv
<1>1. /\ UNCHANGED <<installation, restarts, serverVars, links, down, author>>
      /\ history' = history
  BY DEF Leave, serverVars
<1>2. doc[u] \in Doc
  BY <1>0 DEF Leave, TypeOK
<1>3. up' \in [Sid -> Seq(MadeRequest)]
  <2>1. Requested("leave", doc[u], None) \in Seq(MadeRequest)
    BY <1>2, RequestedTyped
  <2>2. Pending(u) \o Requested("leave", doc[u], None) \in Seq(MadeRequest)
    BY <2>1, PendingTyped, ConcatProperties
  <2> QED BY <1>0, <2>2, EmitTyped DEF Leave
<1>4. up' \in [Sid -> Seq(Request)]
  BY <1>3, RequestsTyped
<1>5. /\ doc' = [doc EXCEPT ![u] = None] /\ view' = [view EXCEPT ![u] = <<>>]
      /\ queue' = [queue EXCEPT ![u] = <<>>]
      /\ abandoned' = abandoned \cup Range(queue[u])
  BY DEF Leave
<1>6. \A w \in User : queue[w] \in Seq(Op)
  BY <1>0 DEF TypeOK
<1>7. /\ doc' \in [User -> Doc \cup {None}] /\ view' \in [User -> Seq(Op)]
      /\ queue' \in [User -> Seq(Op)] /\ abandoned' \subseteq Op
  BY <1>0, <1>5, <1>6, RangeOfTyped DEF TypeOK
<1>8. TypeOK'
  BY <1>0, <1>1, <1>4, <1>7 DEF TypeOK, installation, serverVars, links
<1>9. MadeRequest' = MadeRequest /\ EarnedEvent' = EarnedEvent
      /\ EarnedEmit' = EarnedEmit /\ emits' = emits
      /\ \A op \in Op : Logged(op)' = Logged(op)
  BY <1>1, SameHistory DEF MadeRequest, Made, Request, serverVars
<1>10. \A w \in User : queue'[w] \in Seq(MadeBy(w)') /\ NoRepeats(queue'[w])
  <2> TAKE w \in User
  <2>1. CASE w = u
    BY <1>0, <1>5, <2>1 DEF TypeOK, NoRepeats
  <2>2. CASE w # u
    <3>1. queue'[w] = queue[w] /\ MadeBy(w)' = MadeBy(w)
      BY <1>0, <1>1, <1>5, <2>2 DEF TypeOK, MadeBy
    <3> QED BY <3>1 DEF IInv
  <2> QED BY <2>1, <2>2
<1>11. EditsKept'
  <2> SUFFICES ASSUME NEW op \in Op, author[op] # None
               PROVE  \/ op \in Range(queue'[author[op]])
                      \/ op \in abandoned' \/ Logged(op)
    BY <1>1, <1>9 DEF EditsKept
  <2>1. author[op] \in User
    BY <1>0 DEF TypeOK
  <2>2. CASE author[op] = u
    BY <1>0, <1>5, <2>2 DEF EditsKept
  <2>3. CASE author[op] # u
    <3>1. queue'[author[op]] = queue[author[op]]
      BY <1>0, <1>5, <2>1, <2>3 DEF TypeOK
    <3> QED BY <1>0, <1>5, <3>1 DEF EditsKept
  <2> QED BY <2>2, <2>3
<1> QED BY <1>0, <1>1, <1>3, <1>8, <1>9, <1>10, <1>11 DEF IInv

LEMMA ApplyStep ==
  ASSUME IInv, NEW u \in User, ApplyOperation(u)
  PROVE  \E op \in Op : /\ op \notin Made
                       /\ Made' = Made \cup {op}
                       /\ queue' = [queue EXCEPT ![u] = Append(@, op)]
                       /\ UNCHANGED history
         /\ IInv'
<1> DEFINE op == CHOOSE o \in Op : author[o] = None
<1>0. /\ TypeOK /\ up \in [Sid -> Seq(MadeRequest)]
      /\ down \in [Sid -> Seq(EarnedEvent)] /\ EditsKept
  BY DEF IInv
<1>1. op \in Op /\ author[op] = None
  BY DEF ApplyOperation
<1>2. /\ author' = [author EXCEPT ![op] = u]
      /\ queue' = [queue EXCEPT ![u] = Append(@, op)]
      /\ Emit(u, IF connected[u] THEN Requested("operation", doc[u], op) ELSE <<>>)
      /\ UNCHANGED <<installation, restarts, serverVars, links, down, doc, view, abandoned>>
      /\ history' = history /\ abandoned' = abandoned /\ doc[u] # None
  BY DEF ApplyOperation, serverVars
<1> HIDE DEF op
<1>3. doc[u] \in Doc
  BY <1>0, <1>2 DEF TypeOK
<1>4. u # None
  BY CollaborationAssumption
<1>5. Made' = Made \cup {op} /\ op \notin Made
  BY <1>0, <1>1, <1>2, <1>4 DEF Made, TypeOK
<1>6. /\ \A o \in Op : author[o] # None => author'[o] = author[o]
      /\ \A o \in Op : Logged(o)' = Logged(o)
  BY <1>0, <1>1, <1>2, SameHistory DEF TypeOK
<1>7. /\ MadeRequest \subseteq MadeRequest' /\ EarnedEvent' = EarnedEvent
      /\ EarnedEmit' = EarnedEmit
      /\ \A w \in User : MadeBy(w) \subseteq MadeBy(w)'
  BY <1>2, <1>6, SetsGrow, SameHistory
<1>8. up' \in [Sid -> Seq(MadeRequest')]
  <2>1. up \in [Sid -> Seq(MadeRequest')]
    BY <1>0, <1>7, SeqMonotonic
  <2>2. [type |-> "operation", doc |-> doc[u], op |-> op] \in MadeRequest'
    BY <1>1, <1>3, <1>5 DEF MadeRequest, Request
  <2>3. Requested("operation", doc[u], op) \in Seq(MadeRequest')
        /\ <<>> \in Seq(MadeRequest')
    BY <2>2 DEF Requested
  <2> QED BY <1>2, <2>1, <2>3, EmitTyped
<1>9. up' \in [Sid -> Seq(Request)]
  <2>1. \A r \in MadeRequest' : r \in Request
    BY DEF MadeRequest, Request
  <2> QED BY <1>8, <2>1, SeqMonotonic
<1>10. \A w \in User : queue'[w] \in Seq(MadeBy(w)') /\ NoRepeats(queue'[w])
  <2> TAKE w \in User
  <2>0. queue[w] \in Seq(MadeBy(w)) /\ queue[w] \in Seq(MadeBy(w)') /\ NoRepeats(queue[w])
    BY <1>7, SeqMonotonic DEF IInv
  <2>1. CASE w = u
    <3>1. op \in MadeBy(w)'
      BY <1>0, <1>1, <1>2, <2>1 DEF MadeBy, TypeOK
    <3>2. op \notin Range(queue[w])
      BY <1>1, <1>4, <2>0, <2>1, RangeOfTyped DEF MadeBy
    <3>3. queue'[w] = Append(queue[w], op)
      BY <1>0, <1>2, <2>1 DEF TypeOK
    <3> QED BY <2>0, <3>1, <3>2, <3>3, AppendNew
  <2>2. CASE w # u
    <3>1. queue'[w] = queue[w]
      BY <1>0, <1>2, <2>2 DEF TypeOK
    <3> QED BY <2>0, <3>1
  <2> QED BY <2>1, <2>2
<1>11. queue' \in [User -> Seq(Op)] /\ author' \in [Op -> User \cup {None}]
  BY <1>0, <1>1, <1>2 DEF TypeOK
<1>12. TypeOK'
  BY <1>0, <1>2, <1>9, <1>11 DEF TypeOK, installation, serverVars, links
<1>13. \A w \in User : Range(queue[w]) \subseteq Range(queue'[w])
         /\ (w = u => op \in Range(queue'[w]))
  <2> TAKE w \in User
  <2>1. CASE w = u
    <3>1. queue'[w] = Append(queue[w], op) /\ queue[w] \in Seq(Op)
      BY <1>0, <1>2, <2>1 DEF TypeOK
    <3> QED BY <3>1, RangeAppend
  <2>2. CASE w # u
    BY <1>0, <1>2, <2>2 DEF TypeOK
  <2> QED BY <2>1, <2>2
<1>14. EditsKept'
  <2> SUFFICES ASSUME NEW o \in Op, author'[o] # None
               PROVE  \/ o \in Range(queue'[author'[o]])
                      \/ o \in abandoned' \/ Logged(o)'
    BY DEF EditsKept
  <2>1. CASE o = op
    BY <1>0, <1>1, <1>2, <1>13, <2>1 DEF TypeOK
  <2>2. CASE o # op
    <3>1. author'[o] = author[o] /\ author[o] \in User
      BY <1>0, <1>1, <1>2, <2>2 DEF TypeOK
    <3> QED BY <1>0, <1>2, <1>6, <1>13, <2>2, <3>1 DEF EditsKept
  <2> QED BY <2>1, <2>2
<1>15. down' \in [Sid -> Seq(EarnedEvent')] /\ emits' \in Seq(EarnedEmit')
  BY <1>0, <1>2, <1>7 DEF IInv, serverVars
<1>16. IInv'
  BY <1>8, <1>10, <1>12, <1>14, <1>15 DEF IInv
<1> QED BY <1>1, <1>2, <1>5, <1>16

\* A client that is connected has opened a connection.
Numbered == \A u \in User : connected[u] => conn[u] # 0

LEMMA ReceiveStep ==
  ASSUME IInv, Numbered, NEW u \in User, Receive(u)
  PROVE  /\ IInv' /\ UNCHANGED <<history, author>>
         /\ \/ UNCHANGED queue
            \/ \E op \in Recorded : queue' = [queue EXCEPT ![u] = Without(@, op)]
<1> DEFINE s == <<u, conn[u]>>
           m == Head(down[s])
<1>0. /\ TypeOK /\ up \in [Sid -> Seq(MadeRequest)]
      /\ down \in [Sid -> Seq(EarnedEvent)] /\ EditsKept
  BY DEF IInv
<1>1. s \in Sid
  <2>1. conn[u] \in Nat /\ conn[u] # 0 /\ conn[u] <= MaxConnections[u]
        /\ MaxConnections[u] \in Nat
    BY <1>0, CollaborationAssumption DEF Receive, Numbered, TypeOK
  <2>2. conn[u] \in 1..MaxConnections[u]
    BY <2>1
  <2> QED BY <2>2 DEF Sid
<1>2. /\ down[s] # <<>> /\ down' = [down EXCEPT ![s] = Tail(@)]
      /\ \/ m.type = "document" /\ TakeDocument(u, m)
         \/ m.type = "operation" /\ HandleRemoteOperation(u, m)
         \/ m.type = "success" /\ TakeSuccess(u, m)
      /\ UNCHANGED <<installation, restarts, serverVars, links, up, author, abandoned>>
  BY DEF Receive
<1>3. m \in EarnedEvent /\ down' \in [Sid -> Seq(EarnedEvent)]
  <2>1. down[s] \in Seq(EarnedEvent) /\ down[s] # <<>>
    BY <1>0, <1>1, <1>2
  <2>2. Tail(down[s]) \in Seq(EarnedEvent) /\ Head(down[s]) \in EarnedEvent
    BY <2>1, HeadTailProperties
  <2> QED BY <1>0, <1>2, <2>2, ReplacedTyped
<1> HIDE DEF m, s
<1>4. history' = history /\ author' = author /\ abandoned' = abandoned
  BY <1>2 DEF serverVars
<1>5. \/ UNCHANGED queue
      \/ m.op \in Recorded /\ queue' = [queue EXCEPT ![u] = Without(@, m.op)]
  BY <1>2, <1>3 DEF TakeDocument, HandleRemoteOperation, TakeSuccess, EarnedEvent
<1>6. doc' \in [User -> Doc \cup {None}] /\ view' \in [User -> Seq(Op)]
  <2>1. CASE m.type = "document" /\ TakeDocument(u, m)
    <3>1. m \in Snapshot
      BY <1>3, <2>1 DEF EarnedEvent, Event
    <3> QED BY <1>0, <2>1, <3>1 DEF TakeDocument, Snapshot, TypeOK
  <2>2. CASE m.type = "operation" /\ HandleRemoteOperation(u, m)
    <3>1. m \in Event
      BY <1>3, <2>2 DEF EarnedEvent, Snapshot
    <3> QED BY <1>0, <2>2, <3>1 DEF HandleRemoteOperation, Event, TypeOK
  <2>3. CASE m.type = "success" /\ TakeSuccess(u, m)
    BY <1>0, <2>3 DEF TakeSuccess, TypeOK
  <2> QED BY <1>2, <2>1, <2>2, <2>3
<1>7. \A w \in User : /\ queue[w] \in Seq(MadeBy(w)) /\ queue[w] \in Seq(Op)
                      /\ NoRepeats(queue[w])
  BY <1>0 DEF IInv, TypeOK
<1>8. \A w \in User : /\ queue'[w] \in Seq(MadeBy(w)') /\ queue'[w] \in Seq(Op)
                      /\ NoRepeats(queue'[w])
                      /\ Range(queue[w]) \subseteq Range(queue'[w]) \cup Recorded
  <2> TAKE w \in User
  <2>0. MadeBy(w)' = MadeBy(w)
    BY <1>4 DEF MadeBy
  <2>1. CASE queue'[w] = queue[w]
    BY <1>7, <2>0, <2>1
  <2>2. CASE m.op \in Recorded /\ queue'[w] = Without(queue[w], m.op)
    BY <1>7, <2>0, <2>2, WithoutOne
  <2>3. queue'[w] = queue[w] \/ (m.op \in Recorded /\ queue'[w] = Without(queue[w], m.op))
    BY <1>0, <1>5 DEF TypeOK
  <2> QED BY <2>1, <2>2, <2>3
<1>9. queue' \in [User -> Seq(Op)]
  <2>1. queue' = [w \in User |-> queue'[w]]
    BY <1>0, <1>5 DEF TypeOK
  <2> QED BY <1>8, <2>1
<1>10. down' \in [Sid -> Seq(Snapshot \cup Event)]
  BY <1>3, EventsTyped
<1>11. TypeOK'
  BY <1>0, <1>2, <1>6, <1>9, <1>10 DEF TypeOK, installation, serverVars, links
<1>12. EditsKept'
  <2> SUFFICES ASSUME NEW op \in Op, author[op] # None
               PROVE  \/ op \in Range(queue'[author[op]])
                      \/ op \in abandoned \/ Logged(op)
    BY <1>4 DEF EditsKept, Logged
  <2>1. author[op] \in User
    BY <1>0 DEF TypeOK
  <2> QED BY <1>0, <1>8, <2>1 DEF EditsKept, Recorded
<1>13. /\ EarnedEvent' = EarnedEvent /\ EarnedEmit' = EarnedEmit
       /\ MadeRequest' = MadeRequest /\ up' = up /\ emits' = emits
  BY <1>2, <1>4, SameHistory DEF MadeRequest, Made, Request, serverVars
<1>14. IInv'
  BY <1>0, <1>3, <1>8, <1>11, <1>12, <1>13 DEF IInv
<1> QED BY <1>4, <1>5, <1>14

LEMMA NumberedStep ==
  ASSUME TypeOK, Numbered, [Next]_vars
  PROVE  Numbered'
<1>1. ASSUME ServerNext PROVE Numbered'
  <2>1. CASE Restart
    BY <2>1 DEF Restart, Numbered
  <2>2. CASE UNCHANGED links
    BY <2>2 DEF links, Numbered
  <2> QED BY <1>1, <2>1, <2>2 DEF ServerNext, Serve, Disconnect, EndDisconnect, CloseRooms,
          Loaded, AnswerJoin, Send
<1>2. ASSUME NEW u \in User, ClientNext(u) PROVE Numbered'
  <2>1. CASE Connect(u)
    <3>1. \A w \in User : conn'[w] # 0 \/ (conn'[w] = conn[w] /\ connected'[w] = connected[w])
      <4>1. /\ conn' = [conn EXCEPT ![u] = conn[u] + 1]
            /\ connected' = [connected EXCEPT ![u] = TRUE]
            /\ conn \in [User -> Nat] /\ connected \in [User -> BOOLEAN]
        BY <2>1 DEF Connect, TypeOK
      <4>2. conn[u] + 1 # 0
        BY <4>1
      <4> QED BY <4>1, <4>2
    <3> QED BY <3>1 DEF Numbered
  <2>2. CASE Drop(u)
    BY <2>2 DEF Drop, Numbered, TypeOK
  <2>3. CASE UNCHANGED links
    BY <2>3 DEF links, Numbered
  <2> QED BY <1>2, <2>1, <2>2, <2>3
          DEF ClientNext, Leave, ApplyOperation, Receive, EmitJoin, LockDocument
<1>3. CASE UNCHANGED vars
  BY <1>3 DEF vars, links, Numbered
<1> QED BY <1>1, <1>2, <1>3 DEF Next

(* The invariant of every step of the composition.                           *)
LEMMA NextIInv ==
  ASSUME IInv, Numbered, [Next]_vars
  PROVE  IInv'
<1>1. ASSUME ServerNext, UNCHANGED clientVars PROVE IInv'
  BY <1>1, ServeStep, DisconnectStep, LoadedStep, AnswerJoinStep, SendStep, RestartStep
     DEF ServerNext
<1>2. ASSUME NEW u \in User, ClientNext(u) PROVE IInv'
  <2>1. CASE Leave(u) \/ ApplyOperation(u) \/ Receive(u)
    BY <2>1, LeaveStep, ApplyStep, ReceiveStep
  <2>2. ASSUME \/ Connect(u) \/ Drop(u) \/ \E d \in Doc : EmitJoin(u, d)
               \/ \E type \in {"lock", "unlock"} : LockDocument(u, type)
        PROVE  IInv'
    BY <2>2, LinkStep DEF Connect, Drop, EmitJoin, LockDocument
  <2> QED BY <1>2, <2>1, <2>2 DEF ClientNext
<1>3. CASE UNCHANGED vars
  <2>1. TypeOK' = TypeOK /\ EditsKept' = EditsKept
    BY <1>3 DEF TypeOK, EditsKept, Logged, vars, installation, serverVars, links, clientVars
  <2>2. UNCHANGED <<up, down, emits, queue, author, history>>
    BY <1>3 DEF vars, serverVars, clientVars
  <2>3. MadeRequest' = MadeRequest /\ EarnedEvent' = EarnedEvent /\ EarnedEmit' = EarnedEmit
        /\ \A u \in User : MadeBy(u)' = MadeBy(u)
    BY <2>2, SameHistory DEF MadeRequest, Made, Request, MadeBy
  <2> QED BY <2>1, <2>2, <2>3 DEF IInv, NoRepeats
<1> QED BY <1>1, <1>2, <1>3 DEF Next

(* Entering a room tracks the user: with a session, or as a ghost.           *)
LEMMA EnterTracked ==
  ASSUME TypeOK, TrackedHaveSessions, NEW s \in Sid, NEW d \in Doc, EnterRoom(s, d),
         UNCHANGED <<sessions, ending>>
  PROVE  TrackedHaveSessions'
<1>1. UserOf(s) \in User /\ userDocument' = [userDocument EXCEPT ![UserOf(s)] = d]
  BY UserOfSid DEF EnterRoom
<1>2. ASSUME NEW u \in User, u # UserOf(s)
      PROVE  userDocument'[u] = userDocument[u] /\ (u \in ghosts <=> u \in ghosts')
  BY <1>1, <1>2 DEF EnterRoom, TypeOK
<1>3. UserOf(s) \notin ghosts' => s \in sessions \ ending
  BY DEF EnterRoom
<1> QED BY <1>1, <1>2, <1>3 DEF TrackedHaveSessions

(* Forgetting a user's document keeps everybody else tracked.                *)
LEMMA ForgetTracked ==
  ASSUME TypeOK, NEW s \in Sid, Forget(s)
  PROVE  \A u \in User :
           /\ u = UserOf(s) => userDocument'[u] = None
           /\ u # UserOf(s) => /\ userDocument'[u] = userDocument[u]
                               /\ u \in ghosts <=> u \in ghosts'
<1>1. /\ UserOf(s) \in User /\ userDocument' = [userDocument EXCEPT ![UserOf(s)] = None]
      /\ ghosts' = ghosts \ {UserOf(s)} /\ userDocument \in [User -> Doc \cup {None}]
  BY UserOfSid DEF Forget, TypeOK
<1> QED BY <1>1

LEMMA TrackedStep ==
  ASSUME TypeOK, TrackedHaveSessions, [Next]_vars
  PROVE  TrackedHaveSessions'
<1>1. ASSUME UNCHANGED <<userDocument, ghosts>>, sessions \ ending \subseteq sessions' \ ending'
      PROVE  TrackedHaveSessions'
  BY <1>1 DEF TrackedHaveSessions
<1>2. ASSUME NEW s \in Sid, Serve(s) PROVE TrackedHaveSessions'
  <2> DEFINE r == Head(up[s])
  <2>1. r.doc \in Doc
    <3>1. r \in Request
      BY <1>2, HeadTailProperties DEF Serve, TypeOK
    <3> QED BY <3>1 DEF Request
  <2> HIDE DEF r
  <2>2. CASE JoinDocument(s, r.doc)
    <3>1. UNCHANGED <<sessions, ending>>
      BY <2>2 DEF JoinDocument
    <3>2. EnterRoom(s, r.doc) \/ UNCHANGED <<userDocument, ghosts>>
      BY <2>2 DEF JoinDocument
    <3> QED BY <1>1, <2>1, <3>1, <3>2, EnterTracked
  <2>3. CASE LeaveDocument(s)
    BY <2>3, ForgetTracked DEF LeaveDocument, TrackedHaveSessions
  <2>4. ASSUME NEW d, NEW op, ProcessOperation(s, d, op) PROVE TrackedHaveSessions'
    BY <1>1, <2>4 DEF ProcessOperation
  <2>5. ASSUME NEW d, NEW holder, DocumentLock(s, d, holder) PROVE TrackedHaveSessions'
    BY <1>1, <2>5 DEF DocumentLock
  <2> QED BY <1>2, <2>2, <2>3, <2>4, <2>5 DEF Serve, r
<1>3. ASSUME NEW s \in Sid, Disconnect(s) PROVE TrackedHaveSessions'
  <2>1. \A u \in User : /\ u = UserOf(s) => userDocument'[u] = None
                        /\ u # UserOf(s) => /\ userDocument'[u] = userDocument[u]
                                            /\ u \in ghosts <=> u \in ghosts'
    BY <1>3, ForgetTracked DEF Disconnect
  <2>2. \A t \in sessions \ ending : t # s => t \in sessions' \ ending'
    BY <1>3 DEF Disconnect, EndSession
  <2> QED BY <2>1, <2>2 DEF TrackedHaveSessions
<1>4. ASSUME NEW s \in Sid, EndDisconnect(s) PROVE TrackedHaveSessions'
  BY <1>1, <1>4 DEF EndDisconnect, EndSession
<1>5. ASSUME NEW s \in Sid, CloseRooms(s) PROVE TrackedHaveSessions'
  BY <1>1, <1>5 DEF CloseRooms
<1>6. ASSUME NEW join \in loading, Loaded(join) PROVE TrackedHaveSessions'
  <2>1. join.sid \in Sid /\ join.doc \in Doc
    BY DEF TypeOK, Join
  <2>2. UNCHANGED <<sessions, ending>>
    BY <1>6 DEF Loaded
  <2>3. EnterRoom(join.sid, join.doc) \/ UNCHANGED <<userDocument, ghosts>>
    BY <1>6 DEF Loaded
  <2> QED BY <1>1, <2>1, <2>2, <2>3, EnterTracked
<1>7. CASE AnswerJoin \/ Send
  BY <1>1, <1>7 DEF AnswerJoin, Send
<1>8. CASE Restart
  BY <1>8 DEF Restart, TrackedHaveSessions
<1>9. ASSUME NEW u \in User, ClientNext(u) PROVE TrackedHaveSessions'
  <2>1. sessions \subseteq sessions' /\ UNCHANGED <<userDocument, ghosts, ending>>
    BY <1>9 DEF ClientNext, Connect, Drop, Leave, ApplyOperation, Receive,
                EmitJoin, LockDocument, serverVars
  <2> QED BY <1>1, <2>1
<1>10. CASE UNCHANGED vars
  BY <1>1, <1>10 DEF vars, serverVars
<1> QED BY <1>2, <1>3, <1>4, <1>5, <1>6, <1>7, <1>8, <1>9, <1>10 DEF Next, ServerNext

-----------------------------------------------------------------------------
(* The inductive invariant holds of every behaviour of the server and its    *)
(* clients (process_operation, sendOperation, the socket's handlers).        *)
THEOREM EditsInvariance == Spec => [](IInv /\ Numbered)
<1>1. Init => Numbered
  BY DEF Init, ServerInit, Numbered
<1>2. IInv /\ Numbered /\ [Next]_vars => (IInv /\ Numbered)'
  BY NextIInv, NumberedStep DEF IInv
<1> QED BY InitIInv, <1>1, <1>2, PTL DEF Spec

(* The server's tables, the packets and the clients' state keep their types  *)
(* (collaboration_server.py, CollaborationService.ts).                       *)
THEOREM CollaborationTypeCorrect == Spec => []TypeOK
<1>1. IInv => TypeOK
  BY DEF IInv
<1> QED BY EditsInvariance, <1>1, PTL

(* No edit is lost: it is queued with its author until a document has it,    *)
(* unless the author left (sendOperation, leaveDocument, process_operation). *)
THEOREM NoEditLost == Spec => []EditsKept
<1>1. IInv => EditsKept
  BY DEF IInv
<1> QED BY EditsInvariance, <1>1, PTL

(* A user the server tracks in a document has a session that is not ending,  *)
(* unless a join put it there for a session that was ending or gone          *)
(* (join_document, leave_document_internal, disconnect).                     *)
THEOREM TrackedHaveSessionsAlways == Spec => []TrackedHaveSessions
<1>1. Init => TrackedHaveSessions
  BY DEF Init, ServerInit, TrackedHaveSessions
<1>2. TypeOK /\ TrackedHaveSessions /\ [Next]_vars => TrackedHaveSessions'
  BY TrackedStep
<1> QED BY CollaborationTypeCorrect, <1>1, <1>2, PTL DEF Spec

-----------------------------------------------------------------------------
(* Every step is one of the shared log, or a stutter.                        *)
LEMMA RangeOfEmpty == Range(<<>>) = {}
<1>1. DOMAIN <<>> = {}
  BY EmptyIsSeq, LenProperties
<1> QED BY <1>1 DEF Range

LEMMA InitShared == Init => Shared!LogInit
<1> SUFFICES ASSUME Init PROVE Shared!LogInit
  OBVIOUS
<1>1. history = [d \in Doc |-> <<>>] /\ {op \in Op : author[op] # None} = {}
  BY DEF Init, ServerInit
<1>2. \A u \in User : Range(queue[u]) = {}
  BY RangeOfEmpty DEF Init
<1> QED BY <1>1, <1>2 DEF Shared!LogInit

LEMMA ServeShared ==
  ASSUME IInv, NEW s \in Sid, Serve(s), UNCHANGED clientVars
  PROVE  [Shared!LogNext]_(Shared!logVars)
<1> DEFINE r == Head(up[s])
<1>1. r \in MadeRequest
  BY HeadTailProperties DEF Serve, IInv
<1>2. r.doc \in Doc /\ (r.type = "operation" => r.op \in Made /\ r.op \in Op)
  BY <1>1 DEF MadeRequest, Request, Made
<1> HIDE DEF r
<1>3. UNCHANGED <<author, queue>>
  BY DEF clientVars
<1>4. CASE history' = history
  BY <1>3, <1>4 DEF Shared!logVars
<1>5. CASE r.type = "operation" /\ history' = [history EXCEPT ![r.doc] = Append(@, r.op)]
  BY <1>2, <1>3, <1>5 DEF Shared!LogNext, Shared!Record, Made
<1>6. \/ history' = history
      \/ r.type = "operation" /\ history' = [history EXCEPT ![r.doc] = Append(@, r.op)]
  BY DEF Serve, JoinDocument, LeaveDocument, ProcessOperation, DocumentLock, r
<1> QED BY <1>4, <1>5, <1>6

LEMMA LeaveShared ==
  ASSUME IInv, NEW u \in User, Leave(u)
  PROVE  Shared!LogNext
<1>1. history' = history /\ author' = author /\ queue' = [queue EXCEPT ![u] = <<>>]
  BY DEF Leave, serverVars
<1>2. \A w \in User : queue'[w] = IF w = u THEN <<>> ELSE queue[w]
  BY <1>1 DEF IInv, TypeOK
<1>4. [w \in User |-> Range(queue'[w])]
        = [[w \in User |-> Range(queue[w])] EXCEPT ![u] = {}]
  BY <1>2, RangeOfEmpty
<1>5. Shared!Abandon(u)
  BY <1>1, <1>4 DEF Shared!Abandon
<1> QED BY <1>5 DEF Shared!LogNext

LEMMA ApplyShared ==
  ASSUME IInv, NEW u \in User, ApplyOperation(u)
  PROVE  Shared!LogNext
<1>1. PICK op \in Op : /\ op \notin Made
                       /\ Made' = Made \cup {op}
                       /\ queue' = [queue EXCEPT ![u] = Append(@, op)]
                       /\ UNCHANGED history
  BY ApplyStep
<1>2. \A w \in User : Range(queue'[w]) = IF w = u THEN Range(queue[w]) \cup {op}
                                         ELSE Range(queue[w])
  <2> TAKE w \in User
  <2>1. queue[w] \in Seq(Op)
    BY DEF IInv, TypeOK
  <2>2. queue'[w] = IF w = u THEN Append(queue[w], op) ELSE queue[w]
    BY <1>1 DEF IInv, TypeOK
  <2> QED BY <2>1, <2>2, RangeAppend
<1>3. [w \in User |-> Range(queue'[w])]
        = [[w \in User |-> Range(queue[w])] EXCEPT ![u] = @ \cup {op}]
  BY <1>2
<1>4. Shared!Make(u, op)
  BY <1>1, <1>3 DEF Shared!Make, Made
<1> QED BY <1>4 DEF Shared!LogNext

LEMMA ReceiveShared ==
  ASSUME IInv, Numbered, NEW u \in User, Receive(u)
  PROVE  [Shared!LogNext]_(Shared!logVars)
<1>1. UNCHANGED <<history, author>>
  BY ReceiveStep
<1>2. CASE UNCHANGED queue
  BY <1>1, <1>2 DEF Shared!logVars
<1>3. CASE \E op \in Recorded : queue' = [queue EXCEPT ![u] = Without(@, op)]
  <2>1. PICK op \in Recorded : queue' = [queue EXCEPT ![u] = Without(@, op)]
    BY <1>3
  <2>2. \A w \in User : Range(queue'[w]) = IF w = u THEN Range(queue[w]) \ {op}
                                           ELSE Range(queue[w])
    <3> TAKE w \in User
    <3>1. queue[w] \in Seq(Op) /\ NoRepeats(queue[w])
      BY DEF IInv, TypeOK
    <3>2. queue'[w] = IF w = u THEN Without(queue[w], op) ELSE queue[w]
      BY <2>1 DEF IInv, TypeOK
    <3> QED BY <3>1, <3>2, WithoutOne
  <2>3. [w \in User |-> Range(queue'[w])]
          = [[w \in User |-> Range(queue[w])] EXCEPT ![u] = @ \ {op}]
    BY <2>2
  <2>4. op \in Op /\ \E d \in Doc : op \in Range(history[d])
    BY <2>1 DEF Recorded, Logged
  <2>5. Shared!Settle(u, op)
    BY <1>1, <2>3, <2>4 DEF Shared!Settle, Shared!Range, Range
  <2> QED BY <2>4, <2>5 DEF Shared!LogNext
<1> QED BY <1>2, <1>3, ReceiveStep

(* The histories, the edits made and the queues implement SharedLog: every   *)
(* document is one log that grows at its end by edits somebody made, and an  *)
(* edit leaves its author's queue only once a log holds it or the author     *)
(* leaves (process_operation, applyOperation, sendOperation, leaveDocument). *)
THEOREM CollaborationImplementsSharedLog == Spec => ImplementsSharedLog
<1>1. IInv /\ Numbered /\ [Next]_vars => [Shared!LogNext]_(Shared!logVars)
  <2> SUFFICES ASSUME IInv, Numbered, [Next]_vars
               PROVE  [Shared!LogNext]_(Shared!logVars)
    OBVIOUS
  <2>1. ASSUME UNCHANGED <<history, author, queue>>
        PROVE  [Shared!LogNext]_(Shared!logVars)
    BY <2>1 DEF Shared!logVars
  <2>2. ASSUME ServerNext, UNCHANGED clientVars
        PROVE  [Shared!LogNext]_(Shared!logVars)
    <3>1. CASE \E s \in Sid : Serve(s)
      BY <2>2, <3>1, ServeShared
    <3>2. CASE ~\E s \in Sid : Serve(s)
      <4>1. UNCHANGED history
        BY <2>2, <3>2 DEF ServerNext, Disconnect, EndDisconnect, CloseRooms, Loaded,
           AnswerJoin, Send, Restart
      <4> QED BY <2>1, <2>2, <4>1 DEF clientVars
    <3> QED BY <3>1, <3>2
  <2>3. ASSUME NEW u \in User, ClientNext(u)
        PROVE  [Shared!LogNext]_(Shared!logVars)
    <3>1. ASSUME \/ Connect(u) \/ Drop(u) \/ \E d \in Doc : EmitJoin(u, d)
                 \/ \E type \in {"lock", "unlock"} : LockDocument(u, type)
          PROVE  UNCHANGED <<history, author, queue>>
      BY <3>1 DEF Connect, Drop, EmitJoin, LockDocument, serverVars, clientVars
    <3> QED BY <2>1, <2>3, <3>1, LeaveShared, ApplyShared, ReceiveShared DEF ClientNext
  <2>4. CASE UNCHANGED vars
    BY <2>1, <2>4 DEF vars, serverVars, clientVars
  <2> QED BY <2>2, <2>3, <2>4 DEF Next
<1> QED BY InitShared, EditsInvariance, <1>1, PTL
        DEF Spec, ImplementsSharedLog, Shared!LogSpec

-----------------------------------------------------------------------------
(* How often an operation is applied.                                        *)
\* How often a sequence holds an element.
Count(seq, x) == Cardinality({i \in DOMAIN seq : seq[i] = x})

(* A sequence holds a finite number of copies of anything, none of what is   *)
(* not in its range.                                                         *)
LEMMA CountType ==
  ASSUME NEW S, NEW seq \in Seq(S), NEW x
  PROVE  /\ IsFiniteSet({i \in DOMAIN seq : seq[i] = x})
         /\ Count(seq, x) \in Nat
         /\ x \notin Range(seq) => Count(seq, x) = 0
<1>1. Len(seq) \in Nat /\ DOMAIN seq = 1..Len(seq)
  BY LenProperties
<1>2. IsFiniteSet(1..Len(seq))
  BY <1>1, FS_Interval
<1>3. IsFiniteSet({i \in DOMAIN seq : seq[i] = x})
  BY <1>1, <1>2, FS_Subset
<1>4. x \notin Range(seq) => {i \in DOMAIN seq : seq[i] = x} = {}
  BY DEF Range
<1> QED BY <1>3, <1>4, FS_CardinalityType, FS_EmptySet DEF Count

(* A sequence of one packet.                                                 *)
LEMMA CountOne ==
  ASSUME NEW y, NEW x
  PROVE  Count(<<y>>, x) = IF y = x THEN 1 ELSE 0
<1>1. DOMAIN <<y>> = {1} /\ <<y>>[1] = y
  OBVIOUS
<1>2. {i \in DOMAIN <<y>> : <<y>>[i] = x} = IF y = x THEN {1} ELSE {}
  BY <1>1
<1> QED BY <1>2, FS_Singleton, FS_EmptySet DEF Count

(* The copies in two sequences, one after the other, add up.                 *)
LEMMA CountConcat ==
  ASSUME NEW S, NEW a \in Seq(S), NEW b \in Seq(S), NEW x
  PROVE  Count(a \o b, x) = Count(a, x) + Count(b, x)
<1> DEFINE A == {i \in DOMAIN a : a[i] = x}
           B == {i \in DOMAIN b : b[i] = x}
           D == {k \in (Len(a) + 1)..(Len(a) + Len(b)) : b[k - Len(a)] = x}
           C == {k \in DOMAIN (a \o b) : (a \o b)[k] = x}
           move == [i \in B |-> i + Len(a)]
<1>1. /\ Len(a) \in Nat /\ DOMAIN a = 1..Len(a)
      /\ Len(b) \in Nat /\ DOMAIN b = 1..Len(b)
  BY LenProperties
<1>2. /\ a \o b \in Seq(S) /\ Len(a \o b) = Len(a) + Len(b)
      /\ \A i \in 1..(Len(a) + Len(b)) :
           (a \o b)[i] = IF i <= Len(a) THEN a[i] ELSE b[i - Len(a)]
  BY ConcatProperties
<1>3. DOMAIN (a \o b) = 1..(Len(a) + Len(b))
  BY <1>2, LenProperties
<1>4. IsFiniteSet(A) /\ IsFiniteSet(B) /\ Count(a, x) = Cardinality(A)
      /\ Count(b, x) = Cardinality(B) /\ Count(a \o b, x) = Cardinality(C)
  BY CountType DEF Count
<1>5. C = A \cup D /\ A \cap D = {}
  <2>1. \A k \in A : k \in 1..Len(a) /\ a[k] = x
    BY <1>1
  <2>2. \A k \in D : k \in (Len(a) + 1)..(Len(a) + Len(b)) /\ b[k - Len(a)] = x
    OBVIOUS
  <2>3. \A k \in 1..(Len(a) + Len(b)) : k \in C <=> (k \in A \/ k \in D)
    BY <1>1, <1>2, <1>3
  <2>4. A \subseteq 1..(Len(a) + Len(b)) /\ D \subseteq 1..(Len(a) + Len(b))
        /\ C \subseteq 1..(Len(a) + Len(b))
    BY <1>1, <1>3
  <2>5. A \cap D = {}
    BY <1>1, <2>1, <2>2
  <2> HIDE DEF A, C, D
  <2> QED BY <2>3, <2>4, <2>5
<1>6. move \in Bijection(B, D)
  <2>1. \A i \in B : i \in 1..Len(b) /\ b[i] = x
    BY <1>1
  <2>2. move \in [B -> D]
    BY <1>1
  <2>3. \A i, j \in B : move[i] = move[j] => i = j
    BY <1>1
  <2>4. \A k \in D : k - Len(a) \in B /\ move[k - Len(a)] = k
    BY <1>1
  <2> HIDE DEF B, D, move
  <2> QED BY <2>2, <2>3, <2>4 DEF Bijection, Injection, IsInjective, Surjection
<1>7. IsFiniteSet(D) /\ Cardinality(D) = Cardinality(B)
  <2> HIDE DEF B, D, move
  <2> QED BY <1>4, <1>6, FS_Bijection DEF ExistsBijection
<1> HIDE DEF A, B, C, D
<1>8. Cardinality(A) \in Nat /\ Cardinality(D) \in Nat
  BY <1>4, <1>7, FS_CardinalityType
<1>9. Cardinality(C) = Cardinality(A) + Cardinality(D)
  <2>1. Cardinality(A \cup D) = Cardinality(A) + Cardinality(D) - 0
    BY <1>4, <1>5, <1>7, FS_Union, FS_EmptySet
  <2> QED BY <1>5, <1>8, <2>1
<1> QED BY <1>4, <1>7, <1>9

(* One more element is one more copy, of that element.                       *)
LEMMA CountAppend ==
  ASSUME NEW S, NEW a \in Seq(S), NEW y \in S, NEW x
  PROVE  Count(Append(a, y), x) = Count(a, x) + (IF y = x THEN 1 ELSE 0)
<1>1. Append(a, y) = a \o <<y>> /\ <<y>> \in Seq(S)
  BY AppendIsConcat
<1>2. Count(a \o <<y>>, x) = Count(a, x) + Count(<<y>>, x)
  BY <1>1, CountConcat
<1> QED BY <1>1, <1>2, CountOne

(* Taking the first element takes one copy, of that element.                 *)
LEMMA CountTail ==
  ASSUME NEW S, NEW a \in Seq(S), a # <<>>, NEW x
  PROVE  Count(a, x) = Count(Tail(a), x) + (IF Head(a) = x THEN 1 ELSE 0)
<1>1. Head(a) \in S /\ Tail(a) \in Seq(S) /\ <<Head(a)>> \in Seq(S)
  BY HeadTailProperties
<1>2. a = <<Head(a)>> \o Tail(a)
  BY <1>1
<1>3. Count(<<Head(a)>> \o Tail(a), x) = Count(<<Head(a)>>, x) + Count(Tail(a), x)
  BY <1>1, CountConcat
<1>4. Count(Tail(a), x) \in Nat
  BY <1>1, CountType
<1>5. Count(a, x) = Count(<<Head(a)>>, x) + Count(Tail(a), x)
  BY <1>2, <1>3, Zenon
<1> QED BY <1>4, <1>5, CountOne

\* The request to apply an operation to a document.
Asking(op, d) == [type |-> "operation", doc |-> d, op |-> op]
\* The requests on a user's connections to apply an operation to a document.
Asked(packets, u, op, d) ==
  [n \in 1..MaxConnections[u] |-> Count(packets[<<u, n>>], Asking(op, d))]
\* How many of them there are.
Flying(packets, u, op, d) ==
  SumFunctionOnSet(Asked(packets, u, op, d), 1..MaxConnections[u])

\* The requests a user can have sent: its operations are its own.
Own(u) == {r \in Request : r.type = "operation" => r.op \in MadeBy(u)}

\* The copies of an operation in a document's history and the requests for
\* one more are no more than the connections its author has opened, and one
\* more once it has left the queue: while it is queued the next connection
\* will send it again, and leaving the queue without an answer is
\* leaveDocument, which sends it once more.
Counted ==
  /\ \A s \in Sid : up[s] \in Seq(Own(UserOf(s)))
  /\ \A d \in Doc : history[d] \in Seq(Made)
  /\ \A op \in Made, d \in Doc :
       Count(history[d], op) + Flying(up, author[op], op, d)
         <= conn[author[op]] + (IF op \in Range(queue[author[op]]) THEN 0 ELSE 1)

(* A user has finitely many connections, each a session id.                  *)
LEMMA ConnectionsOf ==
  \A u \in User : /\ MaxConnections[u] \in Nat
                  /\ IsFiniteSet(1..MaxConnections[u])
                  /\ \A n \in 1..MaxConnections[u] : <<u, n>> \in Sid
<1> TAKE u \in User
<1>1. MaxConnections[u] \in Nat /\ 1 \in Int /\ MaxConnections[u] \in Int
  BY CollaborationAssumption
<1>2. IsFiniteSet(1..MaxConnections[u])
  BY <1>1, FS_Interval
<1> QED BY <1>1, <1>2 DEF Sid

(* A session id is its user and the number of one of its connections.        *)
LEMMA SidIsPair ==
  \A s \in Sid : s = <<UserOf(s), s[2]>> /\ UserOf(s) \in User
                 /\ s[2] \in 1..MaxConnections[UserOf(s)]
BY DEF Sid, UserOf

(* The requests for an operation in flight are counted connection by         *)
(* connection.                                                               *)
LEMMA FlyingType ==
  ASSUME NEW packets \in [Sid -> Seq(Request)], NEW u \in User, NEW op, NEW d
  PROVE  /\ \A n \in 1..MaxConnections[u] :
              /\ Asked(packets, u, op, d)[n] = Count(packets[<<u, n>>], Asking(op, d))
              /\ Asked(packets, u, op, d)[n] \in Nat
         /\ Flying(packets, u, op, d) \in Nat
<1>1. \A n \in 1..MaxConnections[u] :
              /\ Asked(packets, u, op, d)[n] = Count(packets[<<u, n>>], Asking(op, d))
              /\ Asked(packets, u, op, d)[n] \in Nat
  BY ConnectionsOf, CountType DEF Asked
<1> QED BY <1>1, ConnectionsOf, SumType DEF Flying

(* One connection's packets replaced.                                        *)
LEMMA FlyingChange ==
  ASSUME up \in [Sid -> Seq(Request)], up' \in [Sid -> Seq(Request)],
         NEW u \in User, NEW op, NEW d,
         NEW s \in Sid, \A t \in Sid : t # s => up'[t] = up[t]
  PROVE  /\ UserOf(s) = u =>
              Flying(up', u, op, d) + Count(up[s], Asking(op, d))
                = Flying(up, u, op, d) + Count(up'[s], Asking(op, d))
         /\ UserOf(s) # u => Flying(up', u, op, d) = Flying(up, u, op, d)
<1> DEFINE f == Asked(up, u, op, d)
           g == Asked(up', u, op, d)
           S == 1..MaxConnections[u]
           n == s[2]
<1>1. \A m \in S : /\ f[m] = Count(up[<<u, m>>], Asking(op, d)) /\ f[m] \in Nat
                   /\ g[m] = Count(up'[<<u, m>>], Asking(op, d)) /\ g[m] \in Nat
  <2>1. \A m \in 1..MaxConnections[u] :
          /\ Asked(up, u, op, d)[m] = Count(up[<<u, m>>], Asking(op, d))
          /\ Asked(up, u, op, d)[m] \in Nat
    BY FlyingType
  <2>2. \A m \in 1..MaxConnections[u] :
          /\ Asked(up', u, op, d)[m] = Count(up'[<<u, m>>], Asking(op, d))
          /\ Asked(up', u, op, d)[m] \in Nat
    BY FlyingType
  <2> QED BY <2>1, <2>2
<1>2. s = <<UserOf(s), n>> /\ n \in 1..MaxConnections[UserOf(s)]
  BY SidIsPair
<1>3. IsFiniteSet(S) /\ \A m \in S : <<u, m>> \in Sid
  BY ConnectionsOf
<1> HIDE DEF f, g, n
<1>4. CASE UserOf(s) = u
  <2>1. s = <<u, n>> /\ n \in S
    BY <1>2, <1>4
  <2>2. \A m \in S : m # n => g[m] = f[m]
    BY <1>1, <1>3, <2>1
  <2>3. f[n] = Count(up[s], Asking(op, d)) /\ g[n] = Count(up'[s], Asking(op, d))
    BY <1>1, <2>1
  <2> HIDE DEF S
  <2>4. SumFunctionOnSet(g, S) + f[n] = SumFunctionOnSet(f, S) + g[n]
    <3>1. \A m \in S : f[m] \in Nat /\ g[m] \in Nat /\ (m # n => g[m] = f[m])
      BY <1>1, <2>2
    <3>2. IsFiniteSet(S) /\ n \in S
      BY <1>3, <2>1
    <3> QED BY <3>1, <3>2, SumChange
  <2> QED BY <1>4, <2>3, <2>4 DEF Flying, f, g, S
<1>5. CASE UserOf(s) # u
  <2>1. \A m \in S : g[m] = f[m]
    <3> TAKE m \in S
    <3>1. <<u, m>> \in Sid /\ <<u, m>> # s
      BY <1>2, <1>3, <1>5
    <3> QED BY <1>1, <3>1
  <2> HIDE DEF S
  <2>2. SumFunctionOnSet(g, S) = SumFunctionOnSet(f, S)
    BY <1>1, <1>3, <2>1, SumSame
  <2> QED BY <1>5, <2>2 DEF Flying, f, g, S
<1> QED BY <1>4, <1>5

(* Links that lose what they carry carry no more of any request.             *)
LEMMA FlyingLess ==
  ASSUME up \in [Sid -> Seq(Request)], up' \in [Sid -> Seq(Request)],
         \A t \in Sid : up'[t] = up[t] \/ up'[t] = <<>>,
         NEW u \in User, NEW op, NEW d
  PROVE  Flying(up', u, op, d) <= Flying(up, u, op, d)
<1> DEFINE f == Asked(up, u, op, d)
           g == Asked(up', u, op, d)
           S == 1..MaxConnections[u]
<1>1. \A m \in S : /\ f[m] = Count(up[<<u, m>>], Asking(op, d)) /\ f[m] \in Nat
                   /\ g[m] = Count(up'[<<u, m>>], Asking(op, d)) /\ g[m] \in Nat
  <2>1. \A m \in 1..MaxConnections[u] :
          /\ Asked(up, u, op, d)[m] = Count(up[<<u, m>>], Asking(op, d))
          /\ Asked(up, u, op, d)[m] \in Nat
    BY FlyingType
  <2>2. \A m \in 1..MaxConnections[u] :
          /\ Asked(up', u, op, d)[m] = Count(up'[<<u, m>>], Asking(op, d))
          /\ Asked(up', u, op, d)[m] \in Nat
    BY FlyingType
  <2> QED BY <2>1, <2>2
<1>2. IsFiniteSet(S) /\ \A m \in S : <<u, m>> \in Sid
  BY ConnectionsOf
<1>3. Count(<<>>, Asking(op, d)) = 0
  BY EmptyIsSeq, RangeOfEmpty, CountType
<1> HIDE DEF f, g, S
<1>4. \A m \in S : g[m] <= f[m]
  <2> TAKE m \in S
  <2>1. up'[<<u, m>>] = up[<<u, m>>] \/ up'[<<u, m>>] = <<>>
    BY <1>2
  <2>2. g[m] = f[m] \/ g[m] = 0
    BY <1>1, <1>3, <2>1
  <2>3. f[m] \in Nat /\ g[m] \in Nat
    BY <1>1
  <2> QED BY <2>2, <2>3
<1>5. SumFunctionOnSet(g, S) <= SumFunctionOnSet(f, S)
  BY <1>1, <1>2, <1>4, SumMonotonic
<1> QED BY <1>5 DEF Flying, f, g, S

(* What a client emits is on its own connections.                            *)
LEMMA FlyingEmitted ==
  ASSUME up \in [Sid -> Seq(Request)], up' \in [Sid -> Seq(Request)],
         NEW u \in User, Outlet(u) \in Sid, NEW packets \in Seq(Request), Emit(u, packets),
         NEW w \in User, NEW op, NEW d
  PROVE  Flying(up', w, op, d)
           = Flying(up, w, op, d) + (IF w = u THEN Count(packets, Asking(op, d)) ELSE 0)
<1> DEFINE o == Outlet(u)
<1>1. up' = [up EXCEPT ![o] = @ \o packets] /\ o \in Sid /\ UserOf(o) = u
  BY DEF Emit, Outlet, UserOf
<1> HIDE DEF o
<1>2. up'[o] = up[o] \o packets /\ \A t \in Sid : t # o => up'[t] = up[t]
  BY <1>1
<1>3. /\ Count(up'[o], Asking(op, d)) = Count(up[o], Asking(op, d)) + Count(packets, Asking(op, d))
      /\ Count(up[o], Asking(op, d)) \in Nat /\ Count(packets, Asking(op, d)) \in Nat
  <2>1. up[o] \in Seq(Request)
    BY <1>1
  <2>2. Count(up[o] \o packets, Asking(op, d))
          = Count(up[o], Asking(op, d)) + Count(packets, Asking(op, d))
    BY <2>1, CountConcat
  <2>3. Count(up[o], Asking(op, d)) \in Nat /\ Count(packets, Asking(op, d)) \in Nat
    BY <2>1, CountType
  <2> QED BY <1>2, <2>2, <2>3
<1>4. Flying(up', w, op, d) \in Nat /\ Flying(up, w, op, d) \in Nat
  BY FlyingType
<1> DEFINE x == Asking(op, d)
           new == Flying(up', w, op, d)
           old == Flying(up, w, op, d)
<1>5. CASE w = u
  <2>1. new + Count(up[o], x) = old + Count(up'[o], x)
    <3>1. o \in Sid /\ UserOf(o) = w /\ \A t \in Sid : t # o => up'[t] = up[t]
      BY <1>1, <1>2, <1>5
    <3>2. Flying(up', w, op, d) + Count(up[o], Asking(op, d))
            = Flying(up, w, op, d) + Count(up'[o], Asking(op, d))
      BY <3>1, FlyingChange
    <3> QED BY <3>2
  <2> HIDE DEF x, new, old
  <2>2. new = old + Count(packets, x)
    BY <1>3, <1>4, <2>1 DEF x, new, old
  <2> QED BY <1>5, <2>2 DEF x, new, old
<1>6. CASE w # u
  <2>1. new = old
    BY <1>1, <1>2, <1>6, FlyingChange
  <2> HIDE DEF x, new, old
  <2>2. old \in Nat
    BY <1>4 DEF old
  <2>3. new = old + 0
    BY <2>1, <2>2
  <2> QED BY <1>6, <2>3 DEF new, old
<1> QED BY <1>5, <1>6

(* What is queued is sent once each.                                         *)
LEMMA PendingCount ==
  ASSUME IInv, NEW u \in User, NEW op, NEW d
  PROVE  /\ Pending(u) \in Seq(Request)
         /\ Count(Pending(u), Asking(op, d)) \in Nat
         /\ Count(Pending(u), Asking(op, d)) <= IF op \in Range(queue[u]) THEN 1 ELSE 0
<1> DEFINE P == {i \in DOMAIN Pending(u) : Pending(u)[i] = Asking(op, d)}
<1>1. Pending(u) \in Seq(MadeRequest) /\ MadeRequest \subseteq Request
  BY PendingTyped DEF MadeRequest
<1>2. Pending(u) \in Seq(Request)
  BY <1>1, SeqMonotonic
<1>3. Count(Pending(u), Asking(op, d)) = Cardinality(P)
      /\ Count(Pending(u), Asking(op, d)) \in Nat
  BY <1>2, CountType DEF Count
<1>4. \A i \in P : i \in DOMAIN queue[u] /\ queue[u][i] = op
  <2>1. CASE doc[u] = None
    <3>1. Pending(u) = <<>> /\ DOMAIN <<>> = {}
      BY <2>1, EmptyIsSeq, LenProperties DEF Pending
    <3> QED BY <3>1
  <2>2. CASE doc[u] # None
    BY <2>2 DEF Pending, Asking
  <2> QED BY <2>1, <2>2
<1>5. op \notin Range(queue[u]) => P = {}
  BY <1>4 DEF Range
<1>6. NoRepeats(queue[u])
  BY DEF IInv
<1>7. \A i, j \in P : i = j
  BY <1>4, <1>6 DEF NoRepeats
<1> HIDE DEF P
<1>8. P = {} \/ \E i : P = {i}
  BY <1>7
<1>9. Cardinality(P) = 0 \/ Cardinality(P) = 1
  BY <1>8, FS_EmptySet, FS_Singleton
<1>10. op \notin Range(queue[u]) => Cardinality(P) = 0
  BY <1>5, FS_EmptySet
<1> QED BY <1>2, <1>3, <1>9, <1>10

(* What a client sends out of its queue it made itself.                      *)
LEMMA OwnPending ==
  ASSUME IInv, NEW u \in User
  PROVE  Pending(u) \in Seq(Own(u))
<1>1. Pending(u) \in Seq(MadeRequest) /\ queue[u] \in Seq(MadeBy(u))
  BY PendingTyped DEF IInv
<1>2. DOMAIN Pending(u) = 1..Len(Pending(u)) /\ Len(Pending(u)) \in Nat
      /\ \A i \in 1..Len(Pending(u)) : Pending(u)[i] \in MadeRequest
  BY <1>1, LenProperties, ElementOfSeq
<1>3. \A i \in DOMAIN Pending(u) : Pending(u)[i].op \in MadeBy(u)
  <2>1. CASE doc[u] = None
    <3>1. Pending(u) = <<>> /\ DOMAIN <<>> = {}
      BY <2>1, EmptyIsSeq, LenProperties DEF Pending
    <3> QED BY <3>1
  <2>2. CASE doc[u] # None
    <3> SUFFICES ASSUME NEW i \in DOMAIN Pending(u) PROVE Pending(u)[i].op \in MadeBy(u)
      OBVIOUS
    <3>1. i \in DOMAIN queue[u] /\ Pending(u)[i].op = queue[u][i]
      BY <2>2 DEF Pending
    <3>2. queue[u][i] \in MadeBy(u)
      BY <1>1, <3>1, ElementOfSeq, LenProperties
    <3> QED BY <3>1, <3>2
  <2> QED BY <2>1, <2>2
<1>4. \A i \in 1..Len(Pending(u)) : Pending(u)[i] \in Own(u)
  BY <1>2, <1>3 DEF Own, MadeRequest
<1>5. Pending(u) = [i \in 1..Len(Pending(u)) |-> Pending(u)[i]]
  BY <1>1, <1>2, LenProperties
<1> QED BY <1>2, <1>4, <1>5, IsASeq

(* The server takes a packet.                                                *)
LEMMA FlyingServed ==
  ASSUME TypeOK, TypeOK', NEW s \in Sid, Serve(s), NEW u \in User, NEW op, NEW d
  PROVE  /\ UserOf(s) = u =>
              Flying(up', u, op, d) + (IF Head(up[s]) = Asking(op, d) THEN 1 ELSE 0)
                = Flying(up, u, op, d)
         /\ UserOf(s) # u => Flying(up', u, op, d) = Flying(up, u, op, d)
         /\ Flying(up', u, op, d) \in Nat /\ Flying(up, u, op, d) \in Nat
<1>1. up \in [Sid -> Seq(Request)] /\ up' \in [Sid -> Seq(Request)]
  BY DEF TypeOK
<1>2. up[s] # <<>> /\ up'[s] = Tail(up[s]) /\ \A t \in Sid : t # s => up'[t] = up[t]
  BY <1>1 DEF Serve
<1>3. Flying(up', u, op, d) \in Nat /\ Flying(up, u, op, d) \in Nat
  BY <1>1, FlyingType
<1>4. up[s] \in Seq(Request) /\ up'[s] \in Seq(Request)
  BY <1>1
<1> DEFINE x == Asking(op, d)
           one == IF Head(up[s]) = x THEN 1 ELSE 0
           a == Count(up[s], x)
           b == Count(up'[s], x)
           new == Flying(up', u, op, d)
           old == Flying(up, u, op, d)
<1>5. a \in Nat /\ b \in Nat /\ one \in Nat
  BY <1>4, CountType
<1>6. a = b + one
  BY <1>2, <1>4, CountTail
<1>7. CASE UserOf(s) = u
  <2>1. new + a = old + b
    BY <1>1, <1>2, <1>7, FlyingChange
  <2>2. new \in Nat /\ old \in Nat
    BY <1>3
  <2> HIDE DEF a, b, new, old, one
  <2>3. new + one = old
    BY <1>5, <1>6, <2>1, <2>2
  <2> QED BY <1>3, <1>7, <2>3 DEF one, new, old, x
<1>8. CASE UserOf(s) # u
  BY <1>1, <1>2, <1>3, <1>8, FlyingChange
<1> QED BY <1>7, <1>8

(* As long as nobody makes an operation, the same operations are everybody's *)
(* own.                                                                      *)
LEMMA SameMakers ==
  ASSUME author' = author
  PROVE  /\ Made' = Made
         /\ \A u \in User : MadeBy(u)' = MadeBy(u) /\ Own(u)' = Own(u)
BY DEF Made, MadeBy, Own, Request

(* The numbers the invariant compares.                                       *)
LEMMA CountsAreNat ==
  ASSUME IInv, Counted, NEW op \in Made, NEW d \in Doc
  PROVE  /\ author[op] \in User
         /\ conn[author[op]] \in Nat
         /\ Count(history[d], op) \in Nat
         /\ Flying(up, author[op], op, d) \in Nat
<1>1. author[op] \in User /\ history[d] \in Seq(Op) /\ up \in [Sid -> Seq(Request)]
  BY DEF IInv, TypeOK, Made
<1>2. conn[author[op]] \in Nat
  BY <1>1 DEF IInv, TypeOK
<1> QED BY <1>1, <1>2, CountType, FlyingType

(* The server takes a packet: a request in flight becomes at most one more   *)
(* copy in a history (process_operation appends; every other handler leaves  *)
(* the histories).                                                           *)
LEMMA ServeCounted ==
  ASSUME IInv, IInv', Counted, NEW s \in Sid, Serve(s), UNCHANGED clientVars
  PROVE  Counted'
<1> DEFINE r == Head(up[s])
<1>0. TypeOK /\ TypeOK' /\ UserOf(s) \in User
  BY UserOfSid DEF IInv
<1>1. /\ author' = author /\ queue' = queue /\ conn' = conn
      /\ up[s] # <<>> /\ up'[s] = Tail(up[s]) /\ \A t \in Sid : t # s => up'[t] = up[t]
  BY <1>0 DEF Serve, clientVars, links, TypeOK
<1>2. Made' = Made /\ \A u \in User : Own(u)' = Own(u)
  BY <1>1, SameMakers
<1>3. r \in Own(UserOf(s)) /\ up'[s] \in Seq(Own(UserOf(s)))
  BY <1>1, HeadTailProperties DEF Counted
<1>4. \A t \in Sid : up'[t] \in Seq(Own(UserOf(t))')
  BY <1>1, <1>2, <1>3, UserOfSid DEF Counted
<1>5. r \in Request /\ (r.type = "operation" => r.op \in Op /\ author[r.op] = UserOf(s))
  BY <1>3 DEF Own, MadeBy
<1> HIDE DEF r
<1>6. r.doc \in Doc /\ (r.type = "operation" => r.op \in Made)
  BY <1>0, <1>5, CollaborationAssumption DEF Request, Made
<1>7. \/ history' = history
      \/ r.type = "operation" /\ history' = [history EXCEPT ![r.doc] = Append(@, r.op)]
  BY DEF Serve, JoinDocument, LeaveDocument, ProcessOperation, DocumentLock, r
<1>8. \A d \in Doc : history[d] \in Seq(Made) /\ history \in [Doc -> Seq(Op)]
  BY <1>0 DEF Counted, TypeOK
<1>9. \A d \in Doc :
        \/ history'[d] = history[d]
        \/ /\ r.type = "operation" /\ d = r.doc
           /\ history'[d] = Append(history[d], r.op)
  BY <1>6, <1>7, <1>8
<1>10. \A d \in Doc : history'[d] \in Seq(Made')
  <2> TAKE d \in Doc
  <2>1. CASE history'[d] = history[d]
    BY <1>2, <1>8, <2>1
  <2>2. CASE r.type = "operation" /\ history'[d] = Append(history[d], r.op)
    BY <1>2, <1>6, <1>8, <2>2, AppendProperties
  <2> QED BY <1>9, <2>1, <2>2
<1>11. ASSUME NEW op \in Made, NEW d \in Doc
       PROVE  Count(history'[d], op) + Flying(up', author[op], op, d)
                <= Count(history[d], op) + Flying(up, author[op], op, d)
  <2> DEFINE u == author[op]
             x == Asking(op, d)
             new == Flying(up', u, op, d)
             old == Flying(up, u, op, d)
             H == Count(history[d], op)
             G == Count(history'[d], op)
  <2>1. u \in User /\ H \in Nat
    BY CountsAreNat
  <2>2. /\ UserOf(s) = u => new + (IF r = x THEN 1 ELSE 0) = old
        /\ UserOf(s) # u => new = old
        /\ new \in Nat /\ old \in Nat
    BY <1>0, <2>1, FlyingServed DEF r
  <2>3. G = H \/ (r = x /\ UserOf(s) = u /\ G = H + 1)
    <3>1. CASE history'[d] = history[d]
      BY <3>1
    <3>2. CASE r.type = "operation" /\ d = r.doc /\ history'[d] = Append(history[d], r.op)
      <4>1. G = H + (IF r.op = op THEN 1 ELSE 0)
        BY <1>6, <1>8, <3>2, CountAppend
      <4>2. CASE r.op = op
        <5>1. r = x
          BY <1>5, <3>2, <4>2 DEF Asking, Request
        <5> QED BY <1>5, <3>2, <4>1, <4>2, <5>1
      <4>3. CASE r.op # op
        BY <2>1, <4>1, <4>3
      <4> QED BY <4>2, <4>3
    <3> QED BY <1>9, <3>1, <3>2
  <2> HIDE DEF u, x, new, old, H, G
  <2>4. G + new <= H + old
    BY <2>1, <2>2, <2>3
  <2> QED BY <2>4 DEF u, new, old, H, G
<1>12. ASSUME NEW op \in Made, NEW d \in Doc
       PROVE  Count(history'[d], op) + Flying(up', author'[op], op, d)
         <= conn'[author'[op]] + (IF op \in Range(queue'[author'[op]]) THEN 0 ELSE 1)
  <2> DEFINE old == Count(history[d], op) + Flying(up, author[op], op, d)
             new == Count(history'[d], op) + Flying(up', author[op], op, d)
             bound == conn[author[op]] + (IF op \in Range(queue[author[op]]) THEN 0 ELSE 1)
  <2>1. new <= old
    BY <1>11
  <2>2. old <= bound
    BY DEF Counted
  <2>3. old \in Nat /\ bound \in Nat
    BY CountsAreNat
  <2>4. new \in Nat
    <3>1. author[op] \in User /\ history'[d] \in Seq(Made') /\ up' \in [Sid -> Seq(Request)]
      BY <1>0, <1>10, CountsAreNat DEF TypeOK
    <3>2. Count(history'[d], op) \in Nat
      BY <3>1, CountType
    <3>3. Flying(up', author[op], op, d) \in Nat
      BY <3>1, FlyingType
    <3> QED BY <3>2, <3>3
  <2> HIDE DEF old, new, bound
  <2>5. new <= bound
    BY <2>1, <2>2, <2>3, <2>4
  <2> QED BY <1>1, <2>5 DEF new, bound
<1> QED BY <1>2, <1>4, <1>10, <1>12 DEF Counted

(* A connection ends, at the server or with it: requests are lost.           *)
LEMMA ShrinkCounted ==
  ASSUME IInv, IInv', Counted, \A s \in Sid : up'[s] = up[s] \/ up'[s] = <<>>,
         history' = history, conn' = conn, UNCHANGED clientVars
  PROVE  Counted'
<1>1. author' = author /\ queue' = queue
  BY DEF clientVars
<1>2. Made' = Made /\ \A u \in User : Own(u)' = Own(u)
  BY <1>1, SameMakers
<1>3. \A s \in Sid : up'[s] \in Seq(Own(UserOf(s))')
  BY <1>2, UserOfSid, EmptyIsSeq DEF Counted
<1>4. ASSUME NEW op \in Made, NEW d \in Doc
      PROVE  Count(history'[d], op) + Flying(up', author'[op], op, d)
         <= conn'[author'[op]] + (IF op \in Range(queue'[author'[op]]) THEN 0 ELSE 1)
  <2> DEFINE H == Count(history[d], op)
             old == Flying(up, author[op], op, d)
             new == Flying(up', author[op], op, d)
             bound == conn[author[op]] + (IF op \in Range(queue[author[op]]) THEN 0 ELSE 1)
  <2>1. author[op] \in User /\ old \in Nat /\ bound \in Nat /\ H \in Nat
    BY CountsAreNat
  <2>2. up \in [Sid -> Seq(Request)] /\ up' \in [Sid -> Seq(Request)]
    BY DEF IInv, TypeOK
  <2>3. new <= old
    BY <2>1, <2>2, FlyingLess
  <2>4. new \in Nat
    BY <2>1, <2>2, FlyingType
  <2>5. H + old <= bound
    BY DEF Counted
  <2> HIDE DEF H, old, new, bound
  <2>6. H + new <= bound
    BY <2>1, <2>3, <2>4, <2>5
  <2> QED BY <1>1, <2>6 DEF H, new, bound
<1> QED BY <1>2, <1>3, <1>4 DEF Counted

(* Nothing is sent, and what leaves a queue leaves it for good.              *)
LEMMA StillCounted ==
  ASSUME IInv, Counted, UNCHANGED <<up, history, conn, author>>,
         \A u \in User : Range(queue'[u]) \subseteq Range(queue[u])
  PROVE  Counted'
<1>1. Made' = Made /\ \A u \in User : Own(u)' = Own(u)
  BY SameMakers
<1>2. \A s \in Sid : up'[s] \in Seq(Own(UserOf(s))')
  BY <1>1, UserOfSid DEF Counted
<1>3. ASSUME NEW op \in Made, NEW d \in Doc
      PROVE  Count(history[d], op) + Flying(up, author[op], op, d)
         <= conn[author[op]] + (IF op \in Range(queue'[author[op]]) THEN 0 ELSE 1)
  <2> DEFINE new == IF op \in Range(queue'[author[op]]) THEN 0 ELSE 1
             old == IF op \in Range(queue[author[op]]) THEN 0 ELSE 1
             sum == Count(history[d], op) + Flying(up, author[op], op, d)
  <2>1. author[op] \in User /\ conn[author[op]] \in Nat /\ sum \in Nat
    BY CountsAreNat
  <2>2. sum <= conn[author[op]] + old
    BY DEF Counted
  <2>3. old \in Nat /\ new \in Nat /\ old <= new
    BY <2>1
  <2> HIDE DEF old, new, sum
  <2>4. sum <= conn[author[op]] + new
    BY <2>1, <2>2, <2>3
  <2> QED BY <2>4 DEF new, sum
<1> QED BY <1>1, <1>2, <1>3 DEF Counted

(* A client sends requests: it may send one for an operation only when it    *)
(* opens a connection or forgets the operation by it.                        *)
LEMMA EmitCounted ==
  ASSUME IInv, IInv', Counted, UNCHANGED <<history, author>>,
         NEW u \in User, Outlet(u) \in Sid, NEW packets \in Seq(Own(u)), Emit(u, packets),
         \A w \in User : w # u => conn'[w] = conn[w] /\ queue'[w] = queue[w],
         \A op \in Op, d \in Doc :
           Count(packets, Asking(op, d)) + conn[u] + (IF op \in Range(queue[u]) THEN 0 ELSE 1)
             <= conn'[u] + (IF op \in Range(queue'[u]) THEN 0 ELSE 1)
  PROVE  Counted'
<1>1. Made' = Made /\ \A w \in User : Own(w)' = Own(w)
  BY SameMakers
<1>2. /\ packets \in Seq(Request) /\ up \in [Sid -> Seq(Request)] /\ up' \in [Sid -> Seq(Request)]
      /\ conn \in [User -> Nat] /\ conn' \in [User -> Nat]
  <2>1. Own(u) \subseteq Request
    BY DEF Own
  <2> QED BY <2>1, SeqMonotonic DEF IInv, TypeOK
<1>3. \A s \in Sid : up'[s] \in Seq(Own(UserOf(s))')
  <2> TAKE s \in Sid
  <2>1. CASE s = Outlet(u)
    <3>1. UserOf(s) = u
      BY <2>1 DEF Outlet, UserOf
    <3>2. up'[s] = up[s] \o packets /\ up[s] \in Seq(Own(u))
      BY <1>2, <2>1, <3>1 DEF Emit, Counted
    <3> QED BY <1>1, <3>1, <3>2, ConcatProperties
  <2>2. CASE s # Outlet(u)
    BY <1>1, <1>2, <2>2, UserOfSid DEF Emit, Counted
  <2> QED BY <2>1, <2>2
<1>4. ASSUME NEW op \in Made, NEW d \in Doc
      PROVE  Count(history[d], op) + Flying(up', author[op], op, d)
         <= conn'[author[op]] + (IF op \in Range(queue'[author[op]]) THEN 0 ELSE 1)
  <2> DEFINE w == author[op]
             x == Asking(op, d)
             H == Count(history[d], op)
             old == Flying(up, w, op, d)
             new == Flying(up', w, op, d)
             sent == Count(packets, x)
             left == IF op \in Range(queue[w]) THEN 0 ELSE 1
             allowed == IF op \in Range(queue'[w]) THEN 0 ELSE 1
  <2>1. w \in User /\ conn[w] \in Nat /\ H \in Nat /\ old \in Nat /\ op \in Op
    BY CountsAreNat DEF Made
  <2>2. H + old <= conn[w] + left
    BY DEF Counted
  <2>3. new = old + (IF w = u THEN sent ELSE 0)
    BY <1>2, <2>1, FlyingEmitted
  <2>4. sent \in Nat /\ left \in Nat /\ allowed \in Nat /\ conn'[w] \in Nat
    BY <1>2, <2>1, CountType
  <2>5. w = u => sent + conn[w] + left <= conn'[w] + allowed
    BY <2>1
  <2>6. w # u => conn'[w] = conn[w] /\ allowed = left
    BY <2>1
  <2> HIDE DEF w, x, H, old, new, sent, left, allowed
  <2>7. H + new <= conn'[w] + allowed
    BY <2>1, <2>2, <2>3, <2>4, <2>5, <2>6
  <2> QED BY <2>7 DEF w, H, new, allowed
<1> QED BY <1>1, <1>2, <1>3, <1>4 DEF Counted

(* A packet that is no operation.                                            *)
LEMMA OtherRequests ==
  ASSUME NEW d \in Doc, NEW type \in {"join", "leave", "lock", "unlock"}, NEW u
  PROVE  /\ Requested(type, d, None) \in Seq(Own(u))
         /\ \A op, e : Count(Requested(type, d, None), Asking(op, e)) = 0
<1> DEFINE r == [type |-> type, doc |-> d, op |-> None]
<1>1. r \in Own(u) /\ \A op, e : r # Asking(op, e)
  BY DEF Own, Request, Asking
<1>2. Requested(type, d, None) = <<r>>
  BY DEF Requested
<1> HIDE DEF r
<1> QED BY <1>1, <1>2, CountOne

(* The 'connect' handler of the client sends each queued operation once      *)
(* more, on one more connection.                                             *)
LEMMA ConnectCounted ==
  ASSUME IInv, IInv', Counted, NEW u \in User, Connect(u)
  PROVE  Counted'
<1>0. conn \in [User -> Nat]
  BY DEF IInv, TypeOK
<1>1. /\ conn' = [conn EXCEPT ![u] = @ + 1] /\ Emit(u, Pending(u)) /\ ~connected[u]
      /\ UNCHANGED <<history, author>> /\ queue' = queue
      /\ conn[u] < MaxConnections[u]
  BY DEF Connect, clientVars
<1>2. Outlet(u) \in Sid
  <2>1. MaxConnections[u] \in Nat /\ conn[u] \in Nat
    BY <1>0, CollaborationAssumption
  <2>2. conn[u] + 1 \in 1..MaxConnections[u]
    BY <1>1, <2>1
  <2> QED BY <1>1, <2>2 DEF Outlet, Sid
<1>3. ASSUME NEW op \in Op, NEW d \in Doc
      PROVE  Count(Pending(u), Asking(op, d)) + conn[u] + (IF op \in Range(queue[u]) THEN 0 ELSE 1)
               <= conn'[u] + (IF op \in Range(queue'[u]) THEN 0 ELSE 1)
  <2>1. /\ Count(Pending(u), Asking(op, d)) \in Nat /\ conn[u] \in Nat
        /\ Count(Pending(u), Asking(op, d)) <= IF op \in Range(queue[u]) THEN 1 ELSE 0
    BY <1>0, PendingCount
  <2>2. conn'[u] = conn[u] + 1 /\ queue'[u] = queue[u]
    BY <1>0, <1>1
  <2> QED BY <2>1, <2>2
<1>4. \A w \in User : w # u => conn'[w] = conn[w] /\ queue'[w] = queue[w]
  BY <1>0, <1>1
<1> QED BY <1>1, <1>2, <1>3, <1>4, OwnPending, EmitCounted

(* The join, leave and lock packets ask for no operation.                    *)
LEMMA OtherCounted ==
  ASSUME IInv, IInv', Counted, NEW u \in User, MayEmit(u),
         NEW d \in Doc, NEW type \in {"join", "leave", "lock", "unlock"},
         Emit(u, Requested(type, d, None)),
         UNCHANGED <<history, author, conn, queue>>
  PROVE  Counted'
<1>0. conn \in [User -> Nat]
  BY DEF IInv, TypeOK
<1>1. \A op \in Op, e \in Doc :
           Count(Requested(type, d, None), Asking(op, e)) + conn[u]
               + (IF op \in Range(queue[u]) THEN 0 ELSE 1)
             <= conn'[u] + (IF op \in Range(queue'[u]) THEN 0 ELSE 1)
  <2> SUFFICES ASSUME NEW op \in Op, NEW e \in Doc
               PROVE  Count(Requested(type, d, None), Asking(op, e)) + conn[u]
               + (IF op \in Range(queue[u]) THEN 0 ELSE 1)
             <= conn[u] + (IF op \in Range(queue[u]) THEN 0 ELSE 1)
    OBVIOUS
  <2>1. Count(Requested(type, d, None), Asking(op, e)) = 0 /\ conn[u] \in Nat
    BY <1>0, OtherRequests
  <2> QED BY <2>1
<1>2. Outlet(u) \in Sid /\ Requested(type, d, None) \in Seq(Own(u))
  BY OtherRequests DEF MayEmit
<1> QED BY <1>1, <1>2, EmitCounted

(* leaveDocument sends each queued operation once more and empties the       *)
(* queue, so that no connection sends it again.                              *)
LEMMA LeaveCounted ==
  ASSUME IInv, IInv', Counted, NEW u \in User, Leave(u)
  PROVE  Counted'
<1> DEFINE left == Requested("leave", doc[u], None)
<1>0. conn \in [User -> Nat] /\ queue \in [User -> Seq(Op)] /\ doc[u] \in Doc
  BY DEF IInv, TypeOK, Leave
<1>1. /\ conn' = conn /\ queue' = [queue EXCEPT ![u] = <<>>]
      /\ UNCHANGED <<history, author>> /\ Outlet(u) \in Sid
      /\ Emit(u, Pending(u) \o left)
  BY DEF Leave, links, serverVars, MayEmit
<1>2. Pending(u) \o left \in Seq(Own(u))
  BY <1>0, OwnPending, OtherRequests, ConcatProperties
<1>3. ASSUME NEW op \in Op, NEW d \in Doc
      PROVE  Count(Pending(u) \o left, Asking(op, d)) + conn[u]
               + (IF op \in Range(queue[u]) THEN 0 ELSE 1)
             <= conn'[u] + (IF op \in Range(queue'[u]) THEN 0 ELSE 1)
  <2>1. Pending(u) \in Seq(Request) /\ left \in Seq(Request)
    <3>1. Pending(u) \in Seq(Request)
      BY PendingCount
    <3>2. left \in Seq(MadeRequest) /\ MadeRequest \subseteq Request
      BY <1>0, RequestedTyped DEF MadeRequest
    <3> HIDE DEF left
    <3>3. left \in Seq(Request)
      BY <3>2, SeqMonotonic
    <3> QED BY <3>1, <3>3
  <2>2. Count(Pending(u) \o left, Asking(op, d))
          = Count(Pending(u), Asking(op, d)) + Count(left, Asking(op, d))
    BY <2>1, CountConcat
  <2>3. Count(left, Asking(op, d)) = 0
    BY <1>0, OtherRequests
  <2>4. /\ Count(Pending(u), Asking(op, d)) \in Nat
        /\ Count(Pending(u), Asking(op, d)) <= IF op \in Range(queue[u]) THEN 1 ELSE 0
    BY PendingCount
  <2>5. op \notin Range(queue'[u]) /\ conn'[u] = conn[u] /\ conn[u] \in Nat
    BY <1>0, <1>1, RangeOfEmpty
  <2> HIDE DEF left
  <2> QED BY <2>2, <2>3, <2>4, <2>5
<1>4. \A w \in User : w # u => conn'[w] = conn[w] /\ queue'[w] = queue[w]
  BY <1>0, <1>1
<1> QED BY <1>1, <1>2, <1>3, <1>4, EmitCounted

(* applyOperation makes a new operation, which no history and no link holds  *)
(* yet, and sends it once if the client is connected.                        *)
LEMMA ApplyCounted ==
  ASSUME IInv, IInv', Numbered, Counted, NEW u \in User, ApplyOperation(u)
  PROVE  Counted'
<1> DEFINE new == CHOOSE o \in Op : author[o] = None
           packets == IF connected[u] THEN Requested("operation", doc[u], new) ELSE <<>>
<1>0. TypeOK /\ doc[u] \in Doc /\ u # None
  BY CollaborationAssumption DEF IInv, TypeOK, ApplyOperation
<1>1. /\ new \in Op /\ author[new] = None
      /\ author' = [author EXCEPT ![new] = u]
      /\ queue' = [queue EXCEPT ![u] = Append(@, new)]
      /\ Emit(u, packets) /\ Outlet(u) \in Sid
      /\ history' = history /\ conn' = conn
  BY DEF ApplyOperation, serverVars, links, MayEmit
<1> HIDE DEF new
<1>2. \A o \in Op : author'[o] = IF o = new THEN u ELSE author[o]
  BY <1>0, <1>1 DEF TypeOK
<1>3. Made' = Made \cup {new} /\ new \notin Made
      /\ \A w \in User : Own(w) \subseteq Own(w)'
  <2>1. Made' = Made \cup {new} /\ new \notin Made
    BY <1>0, <1>1, <1>2 DEF Made
  <2>2. ASSUME NEW w \in User PROVE MadeBy(w) \subseteq MadeBy(w)'
    BY <1>1, <1>2, CollaborationAssumption DEF MadeBy
  <2> QED BY <2>1, <2>2 DEF Own, Request
<1>4. packets \in Seq(Own(u)') /\ packets \in Seq(Request)
  <2>1. [type |-> "operation", doc |-> doc[u], op |-> new] \in Request
    BY <1>0, <1>1 DEF Request
  <2>2. [type |-> "operation", doc |-> doc[u], op |-> new] \in Own(u)'
    BY <1>1, <1>2, <2>1 DEF Own, MadeBy, Request
  <2> QED BY <2>1, <2>2 DEF Requested
<1>5. \A op, d : /\ op # new => Count(packets, Asking(op, d)) = 0
                 /\ Count(packets, Asking(op, d)) \in Nat
                 /\ Count(packets, Asking(op, d)) <= IF connected[u] THEN 1 ELSE 0
  <2> TAKE op, d
  <2>1. CASE connected[u]
    <3>1. packets = <<Asking(new, doc[u])>>
      BY <2>1 DEF Requested, Asking
    <3>2. op # new => Asking(new, doc[u]) # Asking(op, d)
      BY DEF Asking
    <3> QED BY <2>1, <3>1, <3>2, CountOne
  <2>2. CASE ~connected[u]
    <3>1. packets = <<>> /\ Count(<<>>, Asking(op, d)) = 0
      BY <2>2, EmptyIsSeq, RangeOfEmpty, CountType
    <3> QED BY <2>2, <3>1
  <2> QED BY <2>1, <2>2
<1> HIDE DEF packets
<1>6. \A s \in Sid : up'[s] \in Seq(Own(UserOf(s))')
  <2> TAKE s \in Sid
  <2>0. up[s] \in Seq(Own(UserOf(s))') /\ UserOf(s) \in User
    BY <1>3, UserOfSid, SeqMonotonic DEF Counted
  <2>1. CASE s = Outlet(u)
    <3>1. UserOf(s) = u
      BY <2>1 DEF Outlet, UserOf
    <3>2. up'[s] = up[s] \o packets
      BY <1>0, <1>1, <2>1 DEF Emit, TypeOK
    <3> QED BY <1>4, <2>0, <3>1, <3>2, ConcatProperties
  <2>2. CASE s # Outlet(u)
    <3>1. up'[s] = up[s]
      BY <1>0, <1>1, <2>2 DEF Emit, TypeOK
    <3> QED BY <2>0, <3>1
  <2> QED BY <2>1, <2>2
<1>7. \A d \in Doc : history[d] \in Seq(Made) /\ history'[d] \in Seq(Made')
  BY <1>1, <1>3, SeqMonotonic DEF Counted
<1>8. up \in [Sid -> Seq(Request)] /\ up' \in [Sid -> Seq(Request)]
      /\ conn \in [User -> Nat] /\ queue \in [User -> Seq(Op)]
  BY DEF IInv, TypeOK
<1>9. ASSUME NEW d \in Doc
      PROVE  Count(history[d], new) + Flying(up', u, new, d)
         <= conn[u] + (IF new \in Range(queue'[u]) THEN 0 ELSE 1)
  <2>1. Count(history[d], new) = 0
    BY <1>3, <1>7, RangeOfTyped, CountType
  <2>2. Flying(up, u, new, d) = 0
    <3>1. \A n \in 1..MaxConnections[u] : Asked(up, u, new, d)[n] = 0
      <4> TAKE n \in 1..MaxConnections[u]
      <4>1. <<u, n>> \in Sid /\ UserOf(<<u, n>>) = u
        BY ConnectionsOf DEF UserOf
      <4>2. up[<<u, n>>] \in Seq(Own(u))
        BY <4>1 DEF Counted
      <4>3. Asking(new, d) \notin Own(u)
        BY <1>0, <1>1 DEF Own, MadeBy, Asking
      <4>4. Count(up[<<u, n>>], Asking(new, d)) = 0
        BY <4>2, <4>3, RangeOfTyped, CountType
      <4> QED BY <4>4 DEF Asked
    <3> QED BY <3>1, ConnectionsOf, SumZeros DEF Flying
  <2>3. Flying(up', u, new, d) = Flying(up, u, new, d) + Count(packets, Asking(new, d))
    BY <1>1, <1>4, <1>8, FlyingEmitted
  <2>4. conn[u] \in Nat /\ (connected[u] => conn[u] # 0)
    BY <1>8 DEF Numbered
  <2>5. Count(packets, Asking(new, d)) <= conn[u] /\ Count(packets, Asking(new, d)) \in Nat
    <3>1. /\ Count(packets, Asking(new, d)) \in Nat
          /\ Count(packets, Asking(new, d)) <= IF connected[u] THEN 1 ELSE 0
      BY <1>5
    <3> QED BY <2>4, <3>1
  <2> QED BY <2>1, <2>2, <2>3, <2>4, <2>5
<1>10. ASSUME NEW op \in Made, NEW d \in Doc
       PROVE  Count(history[d], op) + Flying(up', author[op], op, d)
         <= conn[author[op]] + (IF op \in Range(queue'[author[op]]) THEN 0 ELSE 1)
  <2> DEFINE w == author[op]
  <2>1. w \in User /\ op # new
    BY <1>3, CountsAreNat
  <2>2. Flying(up', w, op, d)
          = Flying(up, w, op, d) + (IF w = u THEN Count(packets, Asking(op, d)) ELSE 0)
    BY <1>1, <1>4, <1>8, <2>1, FlyingEmitted
  <2>3. Count(packets, Asking(op, d)) = 0 /\ Flying(up, w, op, d) \in Nat
    BY <1>5, <2>1, CountsAreNat
  <2>4. op \in Range(queue'[w]) <=> op \in Range(queue[w])
    <3>1. CASE w = u
      <4>1. queue'[w] = Append(queue[w], new) /\ queue[w] \in Seq(Op)
        BY <1>1, <1>8, <2>1, <3>1
      <4> QED BY <2>1, <4>1, RangeAppend
    <3>2. CASE w # u
      BY <1>1, <1>8, <2>1, <3>2
    <3> QED BY <3>1, <3>2
  <2>5. Count(history[d], op) + Flying(up, w, op, d)
          <= conn[w] + (IF op \in Range(queue[w]) THEN 0 ELSE 1)
    BY DEF Counted
  <2>6. Flying(up', w, op, d) = Flying(up, w, op, d)
    BY <2>2, <2>3
  <2> QED BY <2>4, <2>5, <2>6
<1>11. ASSUME NEW op \in Made', NEW d \in Doc
       PROVE  Count(history'[d], op) + Flying(up', author'[op], op, d)
         <= conn'[author'[op]] + (IF op \in Range(queue'[author'[op]]) THEN 0 ELSE 1)
  <2>1. CASE op = new
    BY <1>1, <1>2, <1>9, <2>1
  <2>2. CASE op # new
    <3>1. op \in Made /\ author'[op] = author[op]
      BY <1>2, <1>3, <2>2 DEF Made
    <3> QED BY <1>1, <1>10, <3>1
  <2> QED BY <2>1, <2>2
<1> QED BY <1>6, <1>7, <1>11 DEF Counted

(* Every step keeps the count.                                               *)
LEMMA CountedStep ==
  ASSUME IInv, IInv', Numbered, Counted, [Next]_vars
  PROVE  Counted'
<1>1. ASSUME NEW s \in Sid, Serve(s), UNCHANGED clientVars PROVE Counted'
  BY <1>1, ServeCounted
<1>2. ASSUME ServerNext, UNCHANGED clientVars, ~\E s \in Sid : Serve(s), ~Restart
      PROVE  Counted'
  <2>1. history' = history /\ conn' = conn /\ (up' = up \/ \E s \in Sid : EndSession(s))
    BY <1>2 DEF ServerNext, Disconnect, EndDisconnect, CloseRooms, Loaded, AnswerJoin, Send, links
  <2>2. up \in [Sid -> Seq(Request)]
    BY DEF IInv, TypeOK
  <2>3. \A t \in Sid : up'[t] = up[t] \/ up'[t] = <<>>
    BY <2>1, <2>2 DEF EndSession
  <2> QED BY <1>2, <2>1, <2>3, ShrinkCounted
<1>3. ASSUME Restart, UNCHANGED clientVars PROVE Counted'
  <2>1. /\ up' = [s \in Sid |-> IF s[2] <= conn[s[1]] THEN <<>> ELSE up[s]]
        /\ history' = history /\ conn' = conn
    BY <1>3 DEF Restart
  <2>2. \A t \in Sid : up'[t] = up[t] \/ up'[t] = <<>>
    BY <2>1
  <2> QED BY <1>3, <2>1, <2>2, ShrinkCounted
<1>4. ASSUME NEW u \in User, ClientNext(u) PROVE Counted'
  <2>1. CASE Connect(u)
    BY <2>1, ConnectCounted
  <2>2. CASE Leave(u)
    BY <2>2, LeaveCounted
  <2>3. CASE ApplyOperation(u)
    BY <2>3, ApplyCounted
  <2>4. CASE Drop(u)
    BY <2>4, StillCounted DEF Drop, clientVars
  <2>5. CASE Receive(u)
    <3>1. UNCHANGED <<up, history, conn, author>>
      BY <2>5 DEF Receive, serverVars, links
    <3>2. \A w \in User : queue[w] \in Seq(Op) /\ NoRepeats(queue[w])
      BY DEF IInv, TypeOK
    <3>3. \/ UNCHANGED queue
          \/ \E op \in Recorded : queue' = [queue EXCEPT ![u] = Without(@, op)]
      BY <2>5, ReceiveStep
    <3>4. \A w \in User : Range(queue'[w]) \subseteq Range(queue[w])
      <4>1. CASE UNCHANGED queue
        BY <4>1
      <4>2. ASSUME NEW op \in Recorded, queue' = [queue EXCEPT ![u] = Without(@, op)],
                   NEW w \in User
            PROVE  Range(queue'[w]) \subseteq Range(queue[w])
        <5>1. queue'[w] = IF w = u THEN Without(queue[w], op) ELSE queue[w]
          BY <4>2 DEF IInv, TypeOK
        <5> QED BY <3>2, <5>1, WithoutOne
      <4> QED BY <3>3, <4>1, <4>2
    <3> QED BY <3>1, <3>4, StillCounted
  <2>6. ASSUME NEW d \in Doc, EmitJoin(u, d) PROVE Counted'
    BY <2>6, OtherCounted DEF EmitJoin, serverVars, links, clientVars
  <2>7. ASSUME NEW type \in {"lock", "unlock"}, LockDocument(u, type) PROVE Counted'
    <3>1. doc[u] \in Doc
      BY <2>7 DEF LockDocument, IInv, TypeOK
    <3> QED BY <2>7, <3>1, OtherCounted DEF LockDocument, serverVars, links, clientVars
  <2> QED BY <1>4, <2>1, <2>2, <2>3, <2>4, <2>5, <2>6, <2>7 DEF ClientNext
<1>5. CASE UNCHANGED vars
  BY <1>5, StillCounted DEF vars, serverVars, links, clientVars
<1> QED BY <1>1, <1>2, <1>3, <1>4, <1>5 DEF Next, ServerNext

(* A document holds an operation at most once for each connection its author *)
(* has opened, and once more for leaveDocument: the 'connect' handler and    *)
(* leaveDocument send the whole queue without asking what the server has     *)
(* already applied, process_operation appends whatever arrives, but a        *)
(* request is never applied twice and an operation that has left its         *)
(* author's queue is never sent again.                                       *)
THEOREM RepeatsBounded == Spec => []RepeatsAreBounded
<1>1. Init => Counted
  <2> SUFFICES ASSUME Init PROVE Counted
    OBVIOUS
  <2>1. Made = {} /\ up = [s \in Sid |-> <<>>] /\ history = [d \in Doc |-> <<>>]
    BY DEF Init, ServerInit, Made
  <2> QED BY <2>1 DEF Counted
<1>2. IInv /\ Numbered /\ Counted /\ [Next]_vars => Counted'
  BY NextIInv, CountedStep
<1>3. IInv /\ Counted => RepeatsAreBounded
  <2> SUFFICES ASSUME IInv, Counted, NEW op \in Op, author[op] # None, NEW d \in Doc
               PROVE  Cardinality(Copies(op, d)) <= conn[author[op]] + 1
    BY DEF RepeatsAreBounded
  <2> DEFINE H == Count(history[d], op)
             flying == Flying(up, author[op], op, d)
             left == IF op \in Range(queue[author[op]]) THEN 0 ELSE 1
  <2>1. op \in Made
    BY DEF Made
  <2>2. H + flying <= conn[author[op]] + left
    BY <2>1 DEF Counted
  <2>3. conn[author[op]] \in Nat /\ H \in Nat /\ flying \in Nat
    BY <2>1, CountsAreNat
  <2>4. Cardinality(Copies(op, d)) = H
    BY DEF Copies, Count
  <2> HIDE DEF H, flying
  <2> QED BY <2>2, <2>3, <2>4
<1> QED BY EditsInvariance, <1>1, <1>2, <1>3, PTL DEF Spec

-----------------------------------------------------------------------------
(* What a client shows once it has read what is on its way.                  *)
\* What a client shows: its document and the operations it has applied to
\* it.
Shown == [doc : Doc \cup {None}, view : Seq(Op)]
Packet == Snapshot \cup Event
\* What it shows after reading packets in their order.
ReadAll(shown, packets) == FoldLeft(Reads, shown, packets)

(* What each kind of packet makes a client show.                             *)
LEMMA ReadsType ==
  ASSUME NEW shown \in Shown, NEW m \in Packet
  PROVE  /\ Reads(shown, m) \in Shown
         /\ m \in Snapshot <=> m.type = "document"
         /\ m.type = "document" => Reads(shown, m) = [doc |-> m.doc, view |-> m.operations]
         /\ m.type = "operation" =>
              Reads(shown, m) = IF shown.doc = None THEN shown
                                ELSE [doc |-> shown.doc, view |-> Append(shown.view, m.op)]
         /\ m.type = "success" => Reads(shown, m) = shown
<1>1. CASE m \in Snapshot
  BY <1>1 DEF Snapshot, Shown, Reads
<1>2. CASE m \in Event /\ m.type = "operation"
  <2>1. m.op \in Op /\ m \notin Snapshot /\ m.type = "operation"
    BY <1>2 DEF Event, Snapshot
  <2>2. shown.doc \in Doc \cup {None} /\ shown.view \in Seq(Op)
        /\ shown = [doc |-> shown.doc, view |-> shown.view]
    BY DEF Shown
  <2>3. CASE shown.doc = None
    BY <2>1, <2>2, <2>3 DEF Reads
  <2>4. CASE shown.doc # None
    <3>1. Reads(shown, m) = [shown EXCEPT !.view = Append(@, m.op)]
      BY <2>1, <2>4 DEF Reads
    <3>2. Append(shown.view, m.op) \in Seq(Op)
      BY <2>1, <2>2, AppendProperties
    <3>3. Reads(shown, m) = [doc |-> shown.doc, view |-> Append(shown.view, m.op)]
      BY <2>2, <3>1
    <3> QED BY <2>1, <2>2, <2>4, <3>2, <3>3 DEF Shown
  <2> QED BY <2>3, <2>4
<1>3. CASE m \in Event /\ m.type = "success"
  BY <1>3 DEF Event, Snapshot, Shown, Reads
<1> QED BY <1>1, <1>2, <1>3 DEF Packet, Event

(* The largest number of a finite set.                                       *)
LEMMA MaxIn ==
  ASSUME NEW S \in SUBSET Nat, IsFiniteSet(S), S # {}
  PROVE  Max(S) \in S /\ \A x \in S : Max(S) >= x
<1> DEFINE G == {s \in SUBSET S : s # {} => \E m \in s : \A x \in s : m >= x}
<1>1. \A s \in SUBSET S : (\A x \in s : s \ {x} \in G) => s \in G
  <2> SUFFICES ASSUME NEW s \in SUBSET S, \A x \in s : s \ {x} \in G, s # {}
               PROVE  \E m \in s : \A x \in s : m >= x
    OBVIOUS
  <2>1. PICK y \in s : TRUE
    OBVIOUS
  <2>2. CASE s \ {y} = {}
    <3>1. s = {y} /\ y \in Nat
      BY <2>1, <2>2
    <3> QED BY <3>1
  <2>3. CASE s \ {y} # {}
    <3>1. PICK m \in s \ {y} : \A x \in s \ {y} : m >= x
      BY <2>1, <2>3
    <3>2. m \in Nat /\ y \in Nat
      BY <2>1, <3>1
    <3>3. CASE m >= y
      BY <3>1, <3>3
    <3>4. CASE y >= m
      <4>1. \A x \in s : y >= x
        BY <3>1, <3>2, <3>4
      <4> QED BY <2>1, <4>1
    <3> QED BY <3>2, <3>3, <3>4
  <2> QED BY <2>2, <2>3
<1>2. G \in SUBSET (SUBSET S)
  OBVIOUS
<1>3. S \in G
  <2> HIDE DEF G
  <2> QED BY <1>1, <1>2, SubsetInduction
<1> QED BY <1>3 DEF Max

(* Reading packets is a recursion over them, the first packet first.         *)
LEMMA ReadAllSteps ==
  ASSUME NEW shown \in Shown, NEW packets \in Seq(Packet)
  PROVE  \E h \in [0..Len(packets) -> Shown] :
           /\ h[0] = shown
           /\ \A i \in 1..Len(packets) : h[i] = Reads(h[i - 1], packets[i])
           /\ ReadAll(shown, packets) = h[Len(packets)]
<1> DEFINE n == Len(packets)
           D == DOMAIN packets
           ch == [s \in (SUBSET D) \ {{}} |-> Max(s)]
           step == [p \in D \X Shown |-> Reads(p[2], packets[p[1]])]
           Body(iter) == [s \in SUBSET D |-> IF s = {} THEN shown
                                             ELSE Reads(iter[s \ {Max(s)}], packets[Max(s)])]
           all == CHOOSE iter : iter = Body(iter)
<1>1. n \in Nat /\ D = 1..n /\ IsFiniteSet(D) /\ \A i \in D : packets[i] \in Packet
  BY LenProperties, FS_Interval, ElementOfSeq
<1>2. ASSUME NEW s \in SUBSET D, s # {} PROVE Max(s) \in s /\ \A x \in s : Max(s) >= x
  <2>1. IsFiniteSet(s) /\ s \in SUBSET Nat
    BY <1>1, FS_Subset
  <2> QED BY <1>2, <2>1, MaxIn
<1>3. /\ ch \in [(SUBSET D) \ {{}} -> D]
      /\ \A s \in (SUBSET D) \ {{}} : ch[s] \in s /\ ch[s] = Max(s)
  BY <1>2
<1>4. /\ step \in [D \X Shown -> Shown]
      /\ \A i \in D, b \in Shown : step[<<i, b>>] = Reads(b, packets[i])
  BY <1>1, ReadsType
<1>5. ReadAll(shown, packets) = all[D]
  BY DEF ReadAll, FoldLeft, MapThenFoldSet
<1> HIDE DEF ch, step, D, n
<1>6. PICK iter \in [SUBSET D -> Shown] : Solves(iter, D, shown, ch, step)
  BY <1>1, <1>3, <1>4, RecursionOnSets
<1>7. ASSUME NEW s \in SUBSET D
      PROVE  iter[s] = IF s = {} THEN shown ELSE Reads(iter[s \ {Max(s)}], packets[Max(s)])
  <2>1. CASE s = {}
    BY <1>6, <2>1 DEF Solves
  <2>2. CASE s # {}
    <3>1. iter[s] = step[<<ch[s], iter[s \ {ch[s]}]>>] /\ ch[s] = Max(s) /\ ch[s] \in D
      BY <1>3, <1>6, <2>2 DEF Solves
    <3>2. iter[s \ {ch[s]}] \in Shown
      BY <1>6
    <3> QED BY <1>4, <2>2, <3>1, <3>2
  <2> QED BY <2>1, <2>2
<1>8. iter = Body(iter)
  BY <1>6, <1>7
<1>9. all = Body(all)
  BY <1>8
<1>10. \A s \in SUBSET D :
         all[s] = IF s = {} THEN shown ELSE Reads(all[s \ {Max(s)}], packets[Max(s)])
  BY <1>9
<1> HIDE DEF all
<1> DEFINE h == [i \in 0..n |-> all[1..i]]
<1>11. h[0] = shown /\ h[n] = all[D]
  <2>1. 1..0 = {} /\ 0 \in 0..n /\ n \in 0..n /\ {} \in SUBSET D
    BY <1>1
  <2>2. all[{}] = shown
    BY <1>10, <2>1
  <2> QED BY <1>1, <2>1, <2>2
<1>12. ASSUME NEW i \in 1..n PROVE h[i] = Reads(h[i - 1], packets[i])
  <2>1. 1..i \in SUBSET D /\ i \in 1..i /\ i - 1 \in 0..n /\ i \in 0..n
    BY <1>1
  <2>2. Max(1..i) \in 1..i /\ Max(1..i) >= i
    BY <1>2, <2>1
  <2>3. Max(1..i) = i /\ (1..i) \ {i} = 1..(i - 1)
    BY <2>2
  <2>4. all[1..i] = Reads(all[1..(i - 1)], packets[i])
    BY <1>10, <2>1, <2>3
  <2> QED BY <2>1, <2>4
<1>13. ASSUME NEW i \in 0..n PROVE h[i] \in Shown
  <2> DEFINE T == {k \in Nat : k <= n => h[k] \in Shown}
  <2>1. 0 \in T
    BY <1>11
  <2>2. ASSUME NEW k \in T PROVE k + 1 \in T
    <3> SUFFICES ASSUME k + 1 <= n PROVE h[k + 1] \in Shown
      BY <2>2
    <3>0. k \in Nat /\ k <= n /\ (k <= n => h[k] \in Shown)
      BY <1>1, <2>2
    <3> HIDE DEF h, T
    <3>1. k + 1 \in 1..n /\ (k + 1) - 1 = k /\ h[k] \in Shown
      BY <1>1, <3>0
    <3>2. h[k + 1] = Reads(h[k], packets[k + 1]) /\ packets[k + 1] \in Packet
      BY <1>1, <1>12, <3>1
    <3> QED BY <3>1, <3>2, ReadsType
  <2>3. T \in SUBSET Nat
    OBVIOUS
  <2> HIDE DEF T
  <2>4. T = Nat
    BY <2>1, <2>2, <2>3, NatInductionOnSet
  <2>5. i \in T /\ i <= n
    BY <1>1, <2>4
  <2> QED BY <2>5 DEF T
<1>14. h \in [0..n -> Shown]
  BY <1>13
<1> HIDE DEF h
<1> QED BY <1>5, <1>11, <1>12, <1>14 DEF n, D

\* Each state is the one before it and the packet read.
Follows(h, n, packets) == \A i \in 1..n : h[i] = Reads(h[i - 1], packets[i])
\* The states of a client that reads packets one after another.
Readings(h, shown, packets) ==
  /\ h \in [0..Len(packets) -> Shown]
  /\ h[0] = shown
  /\ Follows(h, Len(packets), packets)

(* Readings that begin alike are alike.                                      *)
LEMMA ReadingsAgree ==
  ASSUME NEW f, NEW g, NEW packets, NEW n \in Nat,
         f[0] = g[0], Follows(f, n, packets), Follows(g, n, packets)
  PROVE  \A i \in 0..n : f[i] = g[i]
<1> DEFINE T == {k \in Nat : k <= n => f[k] = g[k]}
<1>1. 0 \in T
  OBVIOUS
<1>2. ASSUME NEW k \in T PROVE k + 1 \in T
  <2> SUFFICES ASSUME k + 1 <= n PROVE f[k + 1] = g[k + 1]
    BY <1>2
  <2>1. k + 1 \in 1..n /\ (k + 1) - 1 = k /\ f[k] = g[k]
    BY <1>2
  <2> QED BY <2>1 DEF Follows
<1>3. T = Nat
  <2>1. T \in SUBSET Nat
    OBVIOUS
  <2> HIDE DEF T
  <2> QED BY <1>1, <1>2, <2>1, NatInductionOnSet
<1> QED BY <1>3

(* Whatever function reads the packets one after another ends where the fold *)
(* does.                                                                     *)
LEMMA ReadAllIs ==
  ASSUME NEW shown \in Shown, NEW packets \in Seq(Packet)
  PROVE  /\ \E h : Readings(h, shown, packets)
         /\ \A h : Readings(h, shown, packets) => ReadAll(shown, packets) = h[Len(packets)]
         /\ ReadAll(shown, packets) \in Shown
<1>1. PICK h \in [0..Len(packets) -> Shown] :
           /\ h[0] = shown
           /\ \A i \in 1..Len(packets) : h[i] = Reads(h[i - 1], packets[i])
           /\ ReadAll(shown, packets) = h[Len(packets)]
  BY ReadAllSteps
<1>2. Len(packets) \in Nat
  BY LenProperties
<1>3. ASSUME NEW g, Readings(g, shown, packets)
      PROVE  ReadAll(shown, packets) = g[Len(packets)]
  <2>1. \A i \in 0..Len(packets) : g[i] = h[i]
    <3>1. g[0] = h[0] /\ Follows(g, Len(packets), packets) /\ Follows(h, Len(packets), packets)
      BY <1>1, <1>3 DEF Readings, Follows
    <3> QED BY <1>2, <3>1, ReadingsAgree
  <2> QED BY <1>1, <1>2, <2>1
<1> QED BY <1>1, <1>2, <1>3 DEF Readings, Follows

(* One more packet in flight is one more to read.                            *)
LEMMA ReadAllAppend ==
  ASSUME NEW shown \in Shown, NEW packets \in Seq(Packet), NEW m \in Packet
  PROVE  ReadAll(shown, Append(packets, m)) = Reads(ReadAll(shown, packets), m)
<1> DEFINE n == Len(packets)
           more == Append(packets, m)
<1>1. /\ more \in Seq(Packet) /\ Len(more) = n + 1 /\ n \in Nat /\ more[n + 1] = m
      /\ \A i \in 1..n : more[i] = packets[i]
  BY AppendProperties, LenProperties
<1>2. PICK h : Readings(h, shown, more)
  BY <1>1, ReadAllIs
<1>3. PICK g : Readings(g, shown, packets)
  BY ReadAllIs
<1> HIDE DEF more, n
<1>4. \A i \in 0..n : h[i] = g[i]
  <2>1. Follows(h, n, packets) /\ Follows(g, n, packets)
    BY <1>1, <1>2, <1>3 DEF Readings, Follows, n
  <2>2. h[0] = g[0]
    BY <1>2, <1>3 DEF Readings
  <2> QED BY <1>1, <2>1, <2>2, ReadingsAgree
<1>5. ReadAll(shown, more) = h[n + 1] /\ ReadAll(shown, packets) = g[n]
  BY <1>1, <1>2, <1>3, ReadAllIs DEF n
<1>6. h[n + 1] = Reads(h[n], m)
  <2>1. n + 1 \in 1..(n + 1) /\ (n + 1) - 1 = n
    BY <1>1
  <2> QED BY <1>1, <1>2, <2>1 DEF Readings, Follows
<1>7. h[n] = g[n]
  BY <1>1, <1>4
<1> QED BY <1>5, <1>6, <1>7 DEF more

(* A packet that has been read leaves the rest to read.                      *)
LEMMA ReadAllTail ==
  ASSUME NEW shown \in Shown, NEW packets \in Seq(Packet), packets # <<>>
  PROVE  ReadAll(Reads(shown, Head(packets)), Tail(packets)) = ReadAll(shown, packets)
<1> DEFINE n == Len(packets)
           rest == Tail(packets)
           m == Head(packets)
<1>1. /\ rest \in Seq(Packet) /\ Len(rest) = n - 1 /\ n \in Nat /\ m \in Packet
      /\ \A i \in 1..Len(rest) : rest[i] = packets[i + 1]
  BY HeadTailProperties, LenProperties
<1>2. n # 0 /\ m = packets[1]
  BY LenProperties, EmptySeq
<1>3. PICK h : Readings(h, shown, packets)
  BY ReadAllIs
<1>4. Reads(shown, m) \in Shown
  BY <1>1, ReadsType
<1> DEFINE g == [i \in 0..(n - 1) |-> h[i + 1]]
<1> HIDE DEF rest, m, n
<1>5. g[0] = Reads(shown, m)
  <2>1. 1 \in 1..n /\ 1 - 1 = 0 /\ 0 \in 0..(n - 1) /\ 0 + 1 = 1
    BY <1>1, <1>2
  <2>2. h[1] = Reads(h[1 - 1], packets[1])
    BY <1>3, <2>1 DEF Readings, Follows, n
  <2>3. g[0] = h[0 + 1]
    BY <2>1
  <2> HIDE DEF g
  <2> QED BY <1>2, <1>3, <2>1, <2>2, <2>3 DEF Readings, Follows
<1>6. g \in [0..(n - 1) -> Shown]
  <2>1. \A i \in 0..(n - 1) : h[i + 1] \in Shown
    BY <1>1, <1>2, <1>3 DEF Readings, Follows, n
  <2> QED BY <2>1
<1>7. \A i \in 1..(n - 1) : g[i] = Reads(g[i - 1], rest[i])
  <2> TAKE i \in 1..(n - 1)
  <2>1. i + 1 \in 1..n /\ (i + 1) - 1 = i /\ i \in 0..(n - 1) /\ i - 1 \in 0..(n - 1)
        /\ (i - 1) + 1 = i
    BY <1>1, <1>2
  <2>2. h[i + 1] = Reads(h[i], packets[i + 1])
    BY <1>3, <2>1 DEF Readings, Follows, n
  <2>3. rest[i] = packets[i + 1]
    BY <1>1
  <2>4. g[i] = h[i + 1] /\ g[i - 1] = h[i]
    BY <2>1
  <2> HIDE DEF g
  <2> QED BY <2>2, <2>3, <2>4
<1>8. g[n - 1] = h[n]
  BY <1>1, <1>2
<1> HIDE DEF g
<1>9. Readings(g, Reads(shown, m), rest)
  BY <1>1, <1>5, <1>6, <1>7 DEF Readings, Follows
<1>10. ReadAll(Reads(shown, m), rest) = g[n - 1]
  BY <1>1, <1>4, <1>9, ReadAllIs
<1>11. ReadAll(shown, packets) = h[n]
  BY <1>3, ReadAllIs DEF n
<1> QED BY <1>8, <1>10, <1>11 DEF rest, m

(* A client that forgets its document shows nothing, until the next          *)
(* snapshot makes it show what it would have shown.                          *)
LEMMA ReadAllForgotten ==
  ASSUME NEW shown \in Shown, NEW packets \in Seq(Packet),
         NEW empty \in Shown, empty.doc = None
  PROVE  \/ ReadAll(empty, packets).doc = None
         \/ ReadAll(empty, packets) = ReadAll(shown, packets)
<1> DEFINE n == Len(packets)
<1>1. n \in Nat /\ \A i \in 1..n : packets[i] \in Packet
  BY LenProperties, ElementOfSeq
<1>2. PICK f : Readings(f, empty, packets)
  BY ReadAllIs
<1>3. PICK g : Readings(g, shown, packets)
  BY ReadAllIs
<1> HIDE DEF n
<1> DEFINE T == {k \in Nat : k <= n => f[k].doc = None \/ f[k] = g[k]}
<1>4. 0 \in T
  BY <1>2 DEF Readings
<1>5. ASSUME NEW k \in T PROVE k + 1 \in T
  <2> SUFFICES ASSUME k + 1 <= n PROVE f[k + 1].doc = None \/ f[k + 1] = g[k + 1]
    BY <1>5
  <2>1. k + 1 \in 1..n /\ (k + 1) - 1 = k /\ k \in 0..n /\ (f[k].doc = None \/ f[k] = g[k])
    BY <1>1, <1>5
  <2> DEFINE m == packets[k + 1]
  <2>2. f[k + 1] = Reads(f[k], m) /\ g[k + 1] = Reads(g[k], m) /\ m \in Packet
        /\ f[k] \in Shown /\ g[k] \in Shown
    BY <1>1, <1>2, <1>3, <2>1 DEF Readings, Follows, n
  <2> HIDE DEF m
  <2>3. CASE f[k] = g[k]
    BY <2>2, <2>3
  <2>4. CASE f[k].doc = None
    <3>1. m.type \in {"document", "operation", "success"}
      BY <2>2 DEF Packet, Snapshot, Event
    <3>2. CASE m.type = "document"
      <4>1. Reads(f[k], m) = [doc |-> m.doc, view |-> m.operations]
        BY <2>2, <3>2, ReadsType
      <4>2. Reads(g[k], m) = [doc |-> m.doc, view |-> m.operations]
        BY <2>2, <3>2, ReadsType
      <4> QED BY <2>2, <4>1, <4>2
    <3>3. CASE m.type # "document"
      <4>1. Reads(f[k], m) = f[k]
        BY <2>2, <2>4, <3>1, <3>3, ReadsType
      <4> QED BY <2>2, <2>4, <4>1
    <3> QED BY <3>2, <3>3
  <2> QED BY <2>1, <2>3, <2>4
<1>6. T = Nat
  <2>1. T \in SUBSET Nat
    OBVIOUS
  <2> HIDE DEF T
  <2> QED BY <1>4, <1>5, <2>1, NatInductionOnSet
<1>7. f[n].doc = None \/ f[n] = g[n]
  BY <1>1, <1>6
<1>8. ReadAll(empty, packets) = f[n] /\ ReadAll(shown, packets) = g[n]
  BY <1>2, <1>3, ReadAllIs DEF n
<1> QED BY <1>7, <1>8

(* Packets that show nothing leave what is shown.                            *)
LEMMA ReadAllSame ==
  ASSUME NEW shown \in Shown, NEW packets \in Seq(Packet),
         \A i \in 1..Len(packets) : Reads(shown, packets[i]) = shown
  PROVE  ReadAll(shown, packets) = shown
<1> DEFINE n == Len(packets)
           h == [i \in 0..n |-> shown]
<1>1. n \in Nat
  BY LenProperties
<1>2. Readings(h, shown, packets)
  <2>1. 0 \in 0..n /\ \A i \in 1..n : i \in 0..n /\ i - 1 \in 0..n
    BY <1>1
  <2> QED BY <2>1 DEF Readings, Follows
<1>3. h[n] = shown
  BY <1>1
<1> QED BY <1>2, <1>3, ReadAllIs

(* One packet alone.                                                         *)
LEMMA ReadAllOne ==
  ASSUME NEW shown \in Shown, NEW m \in Packet
  PROVE  ReadAll(shown, <<m>>) = Reads(shown, m) /\ ReadAll(shown, <<>>) = shown
<1>1. <<>> \in Seq(Packet) /\ Append(<<>>, m) = <<m>> /\ 1..Len(<<>>) = {}
  BY EmptyIsSeq
<1>2. ReadAll(shown, <<>>) = shown
  <2>1. \A i \in 1..Len(<<>>) : Reads(shown, <<>>[i]) = shown
    BY <1>1
  <2> QED BY <1>1, <2>1, ReadAllSame
<1> QED BY <1>1, <1>2, ReadAllAppend

(* Packets are read one part after the other.                                *)
LEMMA ReadAllConcat ==
  ASSUME NEW shown \in Shown, NEW p \in Seq(Packet), NEW q \in Seq(Packet)
  PROVE  /\ p \o q \in Seq(Packet)
         /\ ReadAll(shown, p \o q) = ReadAll(ReadAll(shown, p), q)
<1> DEFINE m == Len(p)
           n == Len(q)
           all == p \o q
<1>1. /\ m \in Nat /\ n \in Nat /\ all \in Seq(Packet) /\ Len(all) = m + n
      /\ \A i \in 1..(m + n) : all[i] = IF i <= m THEN p[i] ELSE q[i - m]
  BY ConcatProperties, LenProperties
<1> HIDE DEF m, n, all
<1>2. PICK h : Readings(h, shown, all)
  BY <1>1, ReadAllIs
<1>3. PICK g : Readings(g, shown, p)
  BY ReadAllIs
<1>4. \A i \in 0..m : h[i] = g[i]
  <2>1. h[0] = g[0]
    BY <1>2, <1>3 DEF Readings
  <2>2. Follows(h, m, p)
    <3> SUFFICES ASSUME NEW i \in 1..m PROVE h[i] = Reads(h[i - 1], p[i])
      BY DEF Follows
    <3>1. i \in 1..(m + n) /\ i <= m
      BY <1>1
    <3> QED BY <1>1, <1>2, <3>1 DEF Readings, Follows
  <2>3. Follows(g, m, p)
    BY <1>3 DEF Readings, m
  <2> QED BY <1>1, <2>1, <2>2, <2>3, ReadingsAgree
<1>5. ReadAll(shown, p) = h[m] /\ h[m] \in Shown
  <2>1. ReadAll(shown, p) = g[m] /\ m \in 0..m /\ m \in 0..(m + n)
    BY <1>1, <1>3, ReadAllIs DEF m
  <2> QED BY <1>1, <1>2, <1>4, <2>1 DEF Readings
<1> DEFINE k == [i \in 0..n |-> h[m + i]]
<1>6. Readings(k, h[m], q)
  <2>1. k \in [0..n -> Shown]
    <3>1. \A i \in 0..n : m + i \in 0..(m + n)
      BY <1>1
    <3> QED BY <1>1, <1>2, <3>1 DEF Readings
  <2>2. k[0] = h[m]
    BY <1>1
  <2>3. Follows(k, n, q)
    <3> SUFFICES ASSUME NEW i \in 1..n PROVE k[i] = Reads(k[i - 1], q[i])
      BY DEF Follows
    <3>1. /\ m + i \in 1..(m + n) /\ ~(m + i <= m) /\ (m + i) - m = i
          /\ (m + i) - 1 = m + (i - 1) /\ i \in 0..n /\ i - 1 \in 0..n
      BY <1>1
    <3>2. h[m + i] = Reads(h[(m + i) - 1], all[m + i]) /\ all[m + i] = q[i]
      BY <1>1, <1>2, <3>1 DEF Readings, Follows
    <3>3. k[i] = h[m + i] /\ k[i - 1] = h[m + (i - 1)]
      BY <3>1
    <3> HIDE DEF k
    <3> QED BY <3>1, <3>2, <3>3
  <2> HIDE DEF k
  <2> QED BY <2>1, <2>2, <2>3 DEF Readings, n
<1>7. k[n] = h[m + n]
  BY <1>1
<1> HIDE DEF k
<1>8. ReadAll(h[m], q) = k[n]
  BY <1>5, <1>6, ReadAllIs DEF n
<1>9. ReadAll(shown, all) = h[m + n]
  BY <1>1, <1>2, ReadAllIs
<1> QED BY <1>1, <1>5, <1>7, <1>8, <1>9 DEF all

\* The operations that events add to a document.
Added(d, packets) == ReadAll([doc |-> d, view |-> <<>>], packets).view

LEMMA ConcatAppend ==
  \A p, q \in Seq(Op), x \in Op : Append(p \o q, x) = p \o Append(q, x)
<1> TAKE p, q \in Seq(Op), x \in Op
<1>1. p \o q \in Seq(Op) /\ <<x>> \in Seq(Op)
  BY ConcatProperties
<1>2. Append(p \o q, x) = (p \o q) \o <<x>> /\ Append(q, x) = q \o <<x>>
  BY <1>1, AppendIsConcat
<1> QED BY <1>1, <1>2, ConcatAssociative

(* Events leave the document and add to whatever is shown of it.             *)
LEMMA ReadAllEvents ==
  ASSUME NEW d \in Doc, NEW ops \in Seq(Op), NEW packets \in Seq(Event)
  PROVE  /\ Added(d, packets) \in Seq(Op)
         /\ ReadAll([doc |-> d, view |-> ops], packets)
              = [doc |-> d, view |-> ops \o Added(d, packets)]
<1> DEFINE n == Len(packets)
           empty == [doc |-> d, view |-> <<>>]
           shown == [doc |-> d, view |-> ops]
<1>1. n \in Nat /\ (\A i \in 1..n : packets[i] \in Event) /\ packets \in Seq(Packet)
  <2>1. packets \in Seq(Packet)
    BY SeqMonotonic DEF Packet
  <2> QED BY <2>1, LenProperties, ElementOfSeq
<1>2. empty \in Shown /\ shown \in Shown /\ d # None
  BY EmptyIsSeq, CollaborationAssumption DEF Shown
<1>3. PICK f : Readings(f, empty, packets)
  BY <1>1, <1>2, ReadAllIs
<1>4. PICK g : Readings(g, shown, packets)
  BY <1>1, <1>2, ReadAllIs
<1> HIDE DEF n
<1> DEFINE Alike(i) == f[i].doc = d /\ g[i].doc = d /\ g[i].view = ops \o f[i].view
           T == {i \in Nat : i <= n => Alike(i)}
<1>5. 0 \in T
  <2>1. ops \o <<>> = ops
    BY ConcatEmptySeq
  <2> QED BY <1>3, <1>4, <2>1 DEF Readings
<1>6. ASSUME NEW i \in T PROVE i + 1 \in T
  <2> SUFFICES ASSUME i + 1 <= n PROVE Alike(i + 1)
    BY <1>6
  <2>1. i + 1 \in 1..n /\ (i + 1) - 1 = i /\ i \in 0..n /\ Alike(i)
    BY <1>1, <1>6
  <2> DEFINE m == packets[i + 1]
  <2>2. /\ f[i + 1] = Reads(f[i], m) /\ g[i + 1] = Reads(g[i], m) /\ m \in Event
        /\ f[i] \in Shown /\ g[i] \in Shown
    BY <1>1, <1>3, <1>4, <2>1 DEF Readings, Follows, n
  <2> HIDE DEF m
  <2>3. m \in Packet /\ m.type \in {"operation", "success"} /\ m.op \in Op
    BY <2>2 DEF Packet, Event
  <2>4. CASE m.type = "success"
    <3>1. f[i + 1] = f[i] /\ g[i + 1] = g[i]
      BY <2>2, <2>3, <2>4, ReadsType
    <3> QED BY <2>1, <3>1
  <2>5. CASE m.type = "operation"
    <3>1. /\ f[i + 1] = [doc |-> d, view |-> Append(f[i].view, m.op)]
          /\ g[i + 1] = [doc |-> d, view |-> Append(g[i].view, m.op)]
      <4>1. f[i].doc = d /\ g[i].doc = d
        BY <2>1
      <4>2. Reads(f[i], m) = IF f[i].doc = None THEN f[i]
                             ELSE [doc |-> f[i].doc, view |-> Append(f[i].view, m.op)]
        BY <2>2, <2>3, <2>5, ReadsType
      <4>3. Reads(g[i], m) = IF g[i].doc = None THEN g[i]
                             ELSE [doc |-> g[i].doc, view |-> Append(g[i].view, m.op)]
        BY <2>2, <2>3, <2>5, ReadsType
      <4> QED BY <1>2, <2>2, <4>1, <4>2, <4>3
    <3>2. f[i].view \in Seq(Op)
      BY <2>2 DEF Shown
    <3>3. Append(ops \o f[i].view, m.op) = ops \o Append(f[i].view, m.op)
      <4> HIDE DEF Alike, T
      <4> QED BY <2>3, <3>2, ConcatAppend
    <3>4. g[i].view = ops \o f[i].view
      BY <2>1
    <3>5. g[i + 1].view = Append(g[i].view, m.op) /\ f[i + 1].view = Append(f[i].view, m.op)
          /\ f[i + 1].doc = d /\ g[i + 1].doc = d
      <4> HIDE DEF Alike, T
      <4> QED BY <3>1
    <3>6. g[i + 1].view = ops \o f[i + 1].view
      BY <3>3, <3>4, <3>5
    <3> QED BY <3>5, <3>6
  <2> QED BY <2>3, <2>4, <2>5
<1>7. T = Nat
  <2>1. T \in SUBSET Nat
    OBVIOUS
  <2> HIDE DEF T
  <2> QED BY <1>5, <1>6, <2>1, NatInductionOnSet
<1> HIDE DEF T
<1>8. Alike(n)
  <2>1. n \in T /\ n <= n
    BY <1>1, <1>7
  <2> QED BY <2>1 DEF T
<1>9. ReadAll(empty, packets) = f[n] /\ ReadAll(shown, packets) = g[n]
  BY <1>1, <1>2, <1>3, <1>4, ReadAllIs DEF n
<1>10. f[n] \in Shown /\ g[n] \in Shown
  BY <1>1, <1>3, <1>4 DEF Readings, n
<1>11. Added(d, packets) = f[n].view
  BY <1>9 DEF Added
<1> QED BY <1>8, <1>9, <1>10, <1>11 DEF Shown

-----------------------------------------------------------------------------
(* What a client is going to show, and the log it is shown.                  *)
\* A user's latest connection, and what its client shows now.
Conn(u) == <<u, conn[u]>>
Now(u) == [doc |-> doc[u], view |-> view[u]]
\* A log of which one stretch has been shown twice.
Repeats(seen, ops) ==
  \E a, b, c \in Seq(Op) : ops = (a \o b) \o c /\ seen = (a \o b) \o (b \o c)
\* RoomSeesLog for one user.
Sees(u) ==
  (/\ connected[u]
   /\ Conn(u) \notin mixed
   /\ Answered(Conn(u))
   /\ Foreseen(u).doc # None
   /\ rooms[Conn(u)] = {Foreseen(u).doc})
  => Repeats(Foreseen(u).view, operations[Foreseen(u).doc])
\* What the server still owes a connection is the end of its room's log.
Kept(u) ==
  connected[u] /\ Conn(u) \notin mixed =>
    \A d \in rooms[Conn(u)] : \E front \in Seq(Op) :
      operations[d] = front \o Added(d, Owed(Conn(u)))

\* Rooms and joins are those of connections that were opened, a live
\* connection that is not mixed is in one room at most, and an installation
\* that cannot encode a document sends none and emits nothing.
Placed ==
  /\ \A s \in sessions : s[2] <= conn[s[1]]
  /\ \A join \in loading : join.sid[2] <= conn[join.sid[1]]
  /\ \A s \in Sid : rooms[s] # {} => s[2] <= conn[s[1]]
  /\ \A u \in User : connected[u] /\ Conn(u) \notin mixed =>
       \A d, e \in rooms[Conn(u)] : d = e
  /\ ~encodes => /\ emits = <<>>
                 /\ \A u \in User : doc[u] = None
                 /\ \A s \in Sid : down[s] \in Seq(Event)

(* The parts of a concatenation.                                             *)
LEMMA ConcatParts ==
  ASSUME NEW S, NEW p \in Seq(S), NEW q \in Seq(S)
  PROVE  /\ SubSeq(p \o q, 1, Len(p)) = p
         /\ SubSeq(p \o q, Len(p) + 1, Len(p \o q)) = q
<1> DEFINE m == Len(p)
           n == Len(q)
           all == p \o q
           first == SubSeq(all, 1, m)
           second == SubSeq(all, m + 1, m + n)
<1>1. /\ m \in Nat /\ n \in Nat /\ all \in Seq(S) /\ Len(all) = m + n
      /\ \A i \in 1..(m + n) : all[i] = IF i <= m THEN p[i] ELSE q[i - m]
  BY ConcatProperties, LenProperties
<1>2. \A i \in 1..(m + n) : all[i] \in S
  BY <1>1, ElementOfSeq
<1> HIDE DEF m, n, all
<1>3. first \in Seq(S) /\ Len(first) = m /\ \A i \in 1..m : first[i] = all[i]
  <2>1. 1 \in Int /\ m \in Int /\ \A i \in 1..m : all[i] \in S
    BY <1>1, <1>2
  <2> QED BY <1>1, <2>1, SubSeqProperties
<1>4. second \in Seq(S) /\ Len(second) = n /\ \A i \in 1..n : second[i] = all[m + i]
  <2>1. m + 1 \in Int /\ m + n \in Int /\ \A i \in (m + 1)..(m + n) : all[i] \in S
    BY <1>1, <1>2
  <2>2. /\ second \in Seq(S)
        /\ Len(second) = IF m + 1 <= m + n THEN (m + n) - (m + 1) + 1 ELSE 0
        /\ \A i \in 1..((m + n) - (m + 1) + 1) : second[i] = all[(m + 1) + i - 1]
    BY <2>1, SubSeqProperties
  <2> HIDE DEF second
  <2>3. (m + n) - (m + 1) + 1 = n /\ (m + 1 <= m + n \/ n = 0)
        /\ \A i \in 1..n : (m + 1) + i - 1 = m + i
    BY <1>1
  <2> QED BY <2>2, <2>3
<1> HIDE DEF first, second
<1>5. \A i \in 1..m : first[i] = p[i]
  BY <1>1, <1>3
<1>6. \A i \in 1..n : second[i] = q[i]
  <2> TAKE i \in 1..n
  <2>1. m + i \in 1..(m + n) /\ ~(m + i <= m) /\ (m + i) - m = i
    BY <1>1
  <2> QED BY <1>1, <1>4, <2>1
<1>7. first = p
  BY <1>3, <1>5, SeqEqual DEF m
<1>8. second = q
  BY <1>4, <1>6, SeqEqual DEF n
<1> QED BY <1>1, <1>7, <1>8 DEF first, second, all, m

(* A repeated stretch is what RoomSeesLog allows.                            *)
LEMMA RepeatsIs ==
  ASSUME NEW ops \in Seq(Op), NEW seen, Repeats(seen, ops)
  PROVE  \E j \in 0..Len(ops) : \E i \in 0..j : seen = Repeating(ops, i, j)
<1>1. PICK a \in Seq(Op), b \in Seq(Op), c \in Seq(Op) :
           ops = (a \o b) \o c /\ seen = (a \o b) \o (b \o c)
  BY DEF Repeats
<1>2. a \o b \in Seq(Op) /\ b \o c \in Seq(Op) /\ Len(a \o b) = Len(a) + Len(b)
  BY ConcatProperties
<1>3. ops = a \o (b \o c)
  <2>1. (a \o b) \o c = a \o (b \o c)
    BY ConcatAssociative
  <2> QED BY <1>1, <2>1
<1> DEFINE i == Len(a)
           j == Len(a \o b)
<1>4. SubSeq(ops, 1, j) = a \o b /\ SubSeq(ops, i + 1, Len(ops)) = b \o c
  <2>1. SubSeq((a \o b) \o c, 1, j) = a \o b
    BY <1>2, ConcatParts
  <2>2. SubSeq(a \o (b \o c), i + 1, Len(a \o (b \o c))) = b \o c
    BY <1>2, ConcatParts
  <2> QED BY <1>1, <1>3, <2>1, <2>2
<1>5. Len(ops) = j + Len(c)
  BY <1>1, <1>2, ConcatProperties
<1>6. i \in Nat /\ Len(b) \in Nat /\ Len(c) \in Nat /\ j = i + Len(b)
  BY <1>2, LenProperties
<1> HIDE DEF i, j
<1>7. j \in 0..Len(ops) /\ i \in 0..j
  BY <1>5, <1>6
<1>8. seen = Repeating(ops, i, j)
  BY <1>1, <1>4 DEF Repeating
<1> QED BY <1>7, <1>8

(* The log and what is shown of it grow together.                            *)
LEMMA RepeatsAppend ==
  ASSUME NEW seen, NEW ops, Repeats(seen, ops), NEW op \in Op
  PROVE  Repeats(Append(seen, op), Append(ops, op))
<1>1. PICK a \in Seq(Op), b \in Seq(Op), c \in Seq(Op) :
           ops = (a \o b) \o c /\ seen = (a \o b) \o (b \o c)
  BY DEF Repeats
<1>2. a \o b \in Seq(Op) /\ b \o c \in Seq(Op) /\ Append(c, op) \in Seq(Op)
  BY ConcatProperties, AppendProperties
<1>3. Append(b \o c, op) = b \o Append(c, op)
  BY ConcatAppend
<1> DEFINE ab == a \o b
           bc == b \o c
<1>4. ab \in Seq(Op) /\ bc \in Seq(Op)
  BY <1>2
<1> HIDE DEF ab, bc
<1>5. Append(ab \o c, op) = ab \o Append(c, op)
  BY <1>4, ConcatAppend
<1>6. Append(ab \o bc, op) = ab \o Append(bc, op)
  BY <1>4, ConcatAppend
<1>7. Append(ops, op) = (a \o b) \o Append(c, op)
  BY <1>1, <1>5 DEF ab
<1>8. Append(seen, op) = (a \o b) \o (b \o Append(c, op))
  BY <1>1, <1>3, <1>6 DEF ab, bc
<1> QED BY <1>2, <1>7, <1>8 DEF Repeats

(* What is owed to a connection is a sequence of events.                     *)
LEMMA OwedTyped ==
  ASSUME emits \in Seq(Emitted), NEW s \in Sid
  PROVE  Owed(s) \in Seq(Event) /\ Owed(s) \in Seq(Packet) /\ Len(Owed(s)) = Len(emits)
<1>1. Len(emits) \in Nat /\ DOMAIN emits = 1..Len(emits)
      /\ \A i \in 1..Len(emits) : emits[i].op \in Op
  <2>1. \A i \in 1..Len(emits) : emits[i] \in Emitted
    BY ElementOfSeq
  <2> QED BY <2>1, LenProperties DEF Emitted
<1> DEFINE packet(i) == [type |-> IF s \in emits[i].to THEN "operation" ELSE "success",
                         op |-> emits[i].op]
<1>2. Owed(s) = [i \in 1..Len(emits) |-> packet(i)]
  BY <1>1 DEF Owed
<1>3. \A i \in 1..Len(emits) : packet(i) \in Event
  BY <1>1 DEF Event
<1>4. Owed(s) \in Seq(Event) /\ Len(Owed(s)) = Len(emits)
  <2> HIDE DEF packet
  <2>1. Owed(s) \in [1..Len(emits) -> Event]
    BY <1>2, <1>3
  <2>2. Owed(s) \in Seq(Event)
    BY <1>1, <2>1, SeqDef
  <2>3. Len(Owed(s)) \in Nat /\ DOMAIN Owed(s) = 1..Len(Owed(s)) /\ DOMAIN Owed(s) = 1..Len(emits)
    BY <1>2, <2>2, LenProperties
  <2> DEFINE n == Len(Owed(s))
             k == Len(emits)
  <2>4. n \in Nat /\ k \in Nat /\ 1..n = 1..k
    BY <1>1, <2>3
  <2> HIDE DEF n, k
  <2>5. n <= k
    <3>1. n >= 1 => n \in 1..k
      BY <2>4
    <3> QED BY <2>4, <3>1
  <2>6. k <= n
    <3>1. k >= 1 => k \in 1..n
      BY <2>4
    <3> QED BY <2>4, <3>1
  <2>7. n = k
    BY <2>4, <2>5, <2>6
  <2> QED BY <2>2, <2>7 DEF n, k
<1> QED BY <1>4, SeqMonotonic DEF Packet

\* What the server owes a connection of one emit.
Owing(e, s) ==
  [type |-> IF s \in e.to THEN "operation" ELSE "success", op |-> e.op]

LEMMA OwingTyped ==
  \A e \in Emitted : \A s \in Sid :
    /\ Owing(e, s) \in Event /\ Owing(e, s) \in Packet /\ Owing(e, s).op = e.op
    /\ e.op \in Op
    /\ Owing(e, s).type = IF s \in e.to THEN "operation" ELSE "success"
BY DEF Owing, Emitted, Event, Packet

LEMMA OwedAppend ==
  ASSUME emits \in Seq(Emitted), NEW e \in Emitted, NEW s \in Sid, emits' = Append(emits, e)
  PROVE  Owed(s)' = Append(Owed(s), Owing(e, s))
<1> DEFINE n == Len(emits)
           more == Append(emits, e)
           longer == Append(Owed(s), Owing(e, s))
           now == [i \in DOMAIN more |-> Owing(more[i], s)]
<1>1. /\ n \in Nat /\ more \in Seq(Emitted) /\ Len(more) = n + 1 /\ more[n + 1] = e
      /\ (\A i \in 1..n : more[i] = emits[i]) /\ DOMAIN more = 1..(n + 1) /\ DOMAIN emits = 1..n
  <2>1. more \in Seq(Emitted) /\ Len(more) = n + 1
    BY AppendProperties
  <2> QED BY <2>1, AppendProperties, LenProperties
<1>2. /\ longer \in Seq(Event) /\ Len(longer) = n + 1 /\ longer[n + 1] = Owing(e, s)
      /\ \A i \in 1..n : longer[i] = Owed(s)[i]
  BY OwedTyped, OwingTyped, AppendProperties
<1>3. \A i \in 1..n : Owed(s)[i] = Owing(emits[i], s)
  BY <1>1 DEF Owed, Owing
<1>4. Owed(s)' = now
  BY DEF Owed, Owing
<1> HIDE DEF n, more, longer
<1>5. DOMAIN longer = 1..(n + 1) /\ longer = [i \in 1..(n + 1) |-> longer[i]]
  BY <1>2, LenProperties
<1>6. \A i \in 1..(n + 1) : longer[i] = Owing(more[i], s)
  <2> TAKE i \in 1..(n + 1)
  <2>1. CASE i = n + 1
    BY <1>1, <1>2, <2>1
  <2>2. CASE i # n + 1
    <3>1. i \in 1..n
      BY <1>1, <2>2
    <3> QED BY <1>1, <1>2, <1>3, <3>1
  <2> QED BY <2>1, <2>2
<1>7. now = longer
  BY <1>1, <1>5, <1>6
<1> QED BY <1>4, <1>7 DEF longer

LEMMA OwedTail ==
  ASSUME emits \in Seq(Emitted), emits # <<>>, emits' = Tail(emits), NEW s \in Sid
  PROVE  /\ Owed(s)' \in Seq(Packet) /\ Owed(s)' \in Seq(Event)
         /\ Owed(s) = <<Owing(Head(emits), s)>> \o Owed(s)'
<1> DEFINE n == Len(emits)
           rest == Tail(emits)
           m == Owing(Head(emits), s)
           now == [i \in DOMAIN rest |-> Owing(rest[i], s)]
           whole == <<m>> \o now
<1>1. /\ n \in Nat /\ n # 0 /\ rest \in Seq(Emitted) /\ Len(rest) = n - 1
      /\ \A i \in 1..(n - 1) : rest[i] = emits[i + 1]
  BY HeadTailProperties, LenProperties, EmptySeq
<1>2. Head(emits) = emits[1] /\ Head(emits) \in Emitted
      /\ DOMAIN rest = 1..(n - 1) /\ DOMAIN emits = 1..n
  BY <1>1, HeadTailProperties, LenProperties
<1>3. Owed(s)' = now
  BY DEF Owed, Owing
<1>4. \A i \in 1..n : Owed(s)[i] = Owing(emits[i], s)
  BY <1>2 DEF Owed, Owing
<1>5. Owed(s) \in Seq(Event) /\ Len(Owed(s)) = n /\ m \in Event
  BY <1>2, OwedTyped, OwingTyped
<1>6. now \in Seq(Event) /\ Len(now) = n - 1 /\ \A i \in 1..(n - 1) : now[i] = Owing(rest[i], s)
  <2>1. \A i \in 1..(n - 1) : rest[i] \in Emitted
    BY <1>1, ElementOfSeq
  <2>2. now \in [1..(n - 1) -> Event] /\ n - 1 \in Nat
    BY <1>1, <1>2, <2>1, OwingTyped
  <2>3. now \in Seq(Event)
    BY <2>2, SeqDef
  <2>4. Len(now) = n - 1
    <3> HIDE DEF n, rest
    <3> QED BY <1>2, <2>2
  <2> QED BY <1>2, <2>3, <2>4
<1> HIDE DEF n, rest, now, m
<1>7. /\ whole \in Seq(Event) /\ Len(whole) = n
      /\ \A i \in 1..n : whole[i] = IF i <= 1 THEN m ELSE now[i - 1]
  <2>1. <<m>> \in Seq(Event) /\ Len(<<m>>) = 1 /\ <<m>>[1] = m
    BY <1>5
  <2> DEFINE one == <<m>>
  <2>2. one \in Seq(Event) /\ Len(one) = 1 /\ one[1] = m
    BY <2>1
  <2> HIDE DEF one
  <2>a. /\ one \o now \in Seq(Event) /\ Len(one \o now) = Len(one) + Len(now)
        /\ \A i \in 1..Len(one) + Len(now) :
             (one \o now)[i] = IF i <= Len(one) THEN one[i] ELSE now[i - Len(one)]
    BY <1>6, <2>2, ConcatProperties
  <2>3. /\ one \o now \in Seq(Event) /\ Len(one \o now) = 1 + (n - 1)
        /\ \A i \in 1..(1 + (n - 1)) : (one \o now)[i] = IF i <= 1 THEN one[i] ELSE now[i - 1]
    BY <1>6, <2>2, <2>a
  <2>4. 1 + (n - 1) = n /\ \A i \in 1..n : i <= 1 => i = 1
    BY <1>1
  <2> QED BY <2>2, <2>3, <2>4 DEF one
<1> HIDE DEF whole
<1>8. \A i \in 1..Len(whole) : whole[i] = Owed(s)[i]
  <2> SUFFICES ASSUME NEW i \in 1..n PROVE whole[i] = Owed(s)[i]
    BY <1>7
  <2>1. CASE i = 1
    BY <1>1, <1>2, <1>4, <1>7, <2>1 DEF m
  <2>2. CASE i # 1
    <3>1. i - 1 \in 1..(n - 1) /\ (i - 1) + 1 = i /\ ~(i <= 1)
      BY <1>1, <2>2
    <3> QED BY <1>1, <1>4, <1>6, <1>7, <3>1
  <2> QED BY <2>1, <2>2
<1>9. whole = Owed(s)
  BY <1>5, <1>7, <1>8, SeqEqual
<1>10. now \in Seq(Packet)
  BY <1>6, SeqMonotonic DEF Packet
<1> QED BY <1>3, <1>6, <1>9, <1>10 DEF whole, m

(* Nothing is owed to a connection to which nothing was emitted.             *)
LEMMA NotDue ==
  ASSUME emits \in Seq(Emitted), NEW s \in Sid, ~Due(s), NEW d \in Doc
  PROVE  Added(d, Owed(s)) = <<>>
<1> DEFINE shown == [doc |-> d, view |-> <<>>]
<1>1. shown \in Shown
  BY EmptyIsSeq DEF Shown
<1>2. Owed(s) \in Seq(Packet) /\ Len(Owed(s)) = Len(emits)
  BY OwedTyped
<1>3. ASSUME NEW i \in 1..Len(Owed(s)) PROVE Reads(shown, Owed(s)[i]) = shown
  <2>1. i \in DOMAIN emits
    BY <1>2, LenProperties
  <2>2. Owed(s)[i] \in Packet /\ Owed(s)[i].type = "success"
    <3>1. Owed(s)[i] \in Packet
      BY <1>2, ElementOfSeq
    <3> QED BY <2>1, <3>1 DEF Owed, Due
  <2> HIDE DEF shown
  <2> QED BY <1>1, <2>2, ReadsType
<1>4. ReadAll(shown, Owed(s)) = shown
  <2> HIDE DEF shown
  <2> QED BY <1>1, <1>2, <1>3, ReadAllSame
<1> QED BY <1>4 DEF Added

(* A connected client has its own link; it reads what is on it, then what it *)
(* is owed.                                                                  *)
LEMMA ForeseenIs ==
  ASSUME TypeOK, Numbered, NEW u \in User, connected[u]
  PROVE  /\ Conn(u) \in Sid /\ UserOf(Conn(u)) = u /\ Live(Conn(u))
         /\ Now(u) \in Shown /\ down[Conn(u)] \in Seq(Packet)
         /\ ReadAll(Now(u), down[Conn(u)]) \in Shown
         /\ Owed(Conn(u)) \in Seq(Event) /\ Owed(Conn(u)) \in Seq(Packet)
         /\ Foreseen(u) = ReadAll(ReadAll(Now(u), down[Conn(u)]), Owed(Conn(u)))
         /\ Foreseen(u) \in Shown
<1>1. conn[u] \in Nat /\ conn[u] # 0 /\ conn[u] <= MaxConnections[u] /\ MaxConnections[u] \in Nat
  BY CollaborationAssumption DEF TypeOK, Numbered
<1>2. conn[u] \in 1..MaxConnections[u]
  BY <1>1
<1>3. Conn(u) \in Sid /\ UserOf(Conn(u)) = u /\ Live(Conn(u))
  BY <1>2 DEF Conn, Sid, UserOf, Live
<1>4. Now(u) \in Shown /\ down[Conn(u)] \in Seq(Packet)
  BY <1>3 DEF TypeOK, Now, Shown, Packet
<1>5. Owed(Conn(u)) \in Seq(Event) /\ Owed(Conn(u)) \in Seq(Packet)
  BY <1>3, OwedTyped DEF TypeOK
<1>6. Foreseen(u) = ReadAll(Now(u), down[Conn(u)] \o Owed(Conn(u)))
  BY DEF Foreseen, ReadAll, Now, Conn
<1>7. ReadAll(Now(u), down[Conn(u)]) \in Shown
  BY <1>4, ReadAllIs
<1>8. Foreseen(u) = ReadAll(ReadAll(Now(u), down[Conn(u)]), Owed(Conn(u)))
  BY <1>4, <1>5, <1>6, ReadAllConcat
<1> QED BY <1>3, <1>4, <1>5, <1>7, <1>8, ReadAllIs

(* Without a codec for documents nobody ever shows one.                      *)
LEMMA NothingForeseen ==
  ASSUME TypeOK, Numbered, Placed, ~encodes, NEW u \in User, connected[u]
  PROVE  Foreseen(u).doc = None
<1> DEFINE shown == Now(u)
           packets == down[Conn(u)]
<1>1. shown.doc = None /\ packets \in Seq(Event) /\ shown \in Shown /\ packets \in Seq(Packet)
  BY ForeseenIs DEF Placed, Now
<1>2. Owed(Conn(u)) = <<>>
  <2>1. emits = <<>> /\ Len(Owed(Conn(u))) = Len(emits) /\ Owed(Conn(u)) \in Seq(Event)
    BY ForeseenIs, OwedTyped DEF Placed, TypeOK
  <2> QED BY <2>1, EmptySeq
<1>3. ReadAll(shown, packets) = shown
  <2> HIDE DEF shown, packets
  <2>1. ASSUME NEW i \in 1..Len(packets) PROVE Reads(shown, packets[i]) = shown
    <3>1. packets[i] \in Event
      BY <1>1, ElementOfSeq
    <3>2. packets[i] \in Packet /\ packets[i].type \in {"operation", "success"}
      BY <3>1 DEF Event, Packet
    <3> QED BY <1>1, <3>2, ReadsType
  <2> QED BY <1>1, <2>1, ReadAllSame
<1>4. Foreseen(u) = ReadAll(shown, <<>>)
  BY <1>2, <1>3, ForeseenIs
<1>5. ReadAll(shown, <<>>) = shown
  <2> HIDE DEF shown
  <2> DEFINE none == <<>>
  <2>1. none \in Seq(Packet) /\ Len(none) = 0 /\ 1..0 = {}
    BY EmptySeq
  <2> HIDE DEF none
  <2>2. \A i \in 1..Len(none) : Reads(shown, none[i]) = shown
    BY <2>1
  <2>3. ReadAll(shown, none) = shown
    BY <1>1, <2>1, <2>2, ReadAllSame
  <2> QED BY <2>3 DEF none
<1> QED BY <1>1, <1>4, <1>5

(* The same connection after a step.                                         *)
LEMMA AfterStep ==
  ASSUME NEW u \in User, NEW t, t = Conn(u), conn'[u] = conn[u]
  PROVE  /\ t = Conn(u)'
         /\ Foreseen(u)' = ReadAll(Now(u)', down'[t] \o Owed(t)')
         /\ Sees(u)' <=>
              ((/\ connected'[u] /\ t \notin mixed' /\ Answered(t)'
                /\ Foreseen(u)'.doc # None /\ rooms'[t] = {Foreseen(u)'.doc})
               => Repeats(Foreseen(u)'.view, operations'[Foreseen(u)'.doc]))
         /\ Kept(u)' <=>
              (connected'[u] /\ t \notin mixed' =>
                 \A d \in rooms'[t] : \E front \in Seq(Op) :
                   operations'[d] = front \o Added(d, Owed(t)'))
<1>1. t = Conn(u)'
  BY DEF Conn
<1>2. Foreseen(u)' = ReadAll(Now(u)', down'[t] \o Owed(t)')
  BY <1>1 DEF Foreseen, ReadAll, Now, Conn
<1>3. Kept(u)' <=>
        (connected'[u] /\ t \notin mixed' =>
           \A d \in rooms'[t] : \E front \in Seq(Op) :
             operations'[d] = front \o Added(d, Owed(t)'))
  BY <1>1 DEF Kept
<1>4. Sees(u)' <=>
        ((/\ connected'[u] /\ t \notin mixed' /\ Answered(t)'
          /\ Foreseen(u)'.doc # None /\ rooms'[t] = {Foreseen(u)'.doc})
         => Repeats(Foreseen(u)'.view, operations'[Foreseen(u)'.doc]))
  BY <1>1 DEF Sees
<1> QED BY <1>1, <1>2, <1>3, <1>4

(* What is foreseen and what is added to the log of the room stay.           *)
LEMMA SeesSame ==
  ASSUME NEW u \in User, connected[u], Sees(u), Kept(u), Placed, NEW t, t = Conn(u),
         conn'[u] = conn[u], Foreseen(u)' = Foreseen(u),
         rooms'[t] \subseteq rooms[t], t \notin mixed' => t \notin mixed,
         Answered(t)' => Answered(t),
         \A d \in rooms[t] : /\ operations'[d] = operations[d]
                             /\ Added(d, Owed(t)') = Added(d, Owed(t))
  PROVE  Sees(u)' /\ Kept(u)'
<1>1. Kept(u)'
  <2> SUFFICES ASSUME t \notin mixed', NEW d \in rooms'[t]
               PROVE  \E front \in Seq(Op) : operations'[d] = front \o Added(d, Owed(t)')
    BY AfterStep
  <2>1. operations'[d] = operations[d] /\ Added(d, Owed(t)') = Added(d, Owed(t))
    OBVIOUS
  <2>2. \E front \in Seq(Op) : operations[d] = front \o Added(d, Owed(t))
    BY DEF Kept
  <2> QED BY <2>1, <2>2
<1>2. Sees(u)'
  <2> DEFINE f == Foreseen(u)
  <2> SUFFICES ASSUME t \notin mixed', Answered(t)', f.doc # None, rooms'[t] = {f.doc}
               PROVE  Repeats(f.view, operations'[f.doc])
    BY AfterStep
  <2>1. rooms[t] = {f.doc} /\ operations'[f.doc] = operations[f.doc]
    <3>1. f.doc \in rooms[t]
      OBVIOUS
    <3>2. \A e \in rooms[t] : e = f.doc
      BY <3>1 DEF Placed
    <3> QED BY <3>1, <3>2
  <2> QED BY <2>1 DEF Sees
<1> QED BY <1>1, <1>2

(* Nothing changes for this client.                                          *)
LEMMA SeesStill ==
  ASSUME NEW u \in User, connected[u], Sees(u), Kept(u), Placed, NEW t, t = Conn(u),
         conn'[u] = conn[u], doc'[u] = doc[u], view'[u] = view[u], down'[t] = down[t],
         emits' = emits, operations' = operations, rooms'[t] \subseteq rooms[t],
         t \notin mixed' => t \notin mixed, Answered(t)' => Answered(t)
  PROVE  Sees(u)' /\ Kept(u)'
<1>1. Owed(t)' = Owed(t) /\ Now(u)' = Now(u)
  BY DEF Owed, Now
<1>2. Foreseen(u) = ReadAll(Now(u), down[t] \o Owed(t))
  BY DEF Foreseen, ReadAll, Now, Conn
<1>3. Foreseen(u)' = Foreseen(u)
  BY <1>1, <1>2, AfterStep
<1> QED BY <1>1, <1>3, SeesSame

(* The answer to a join: the document, to which what is still owed is added  *)
(* although the document has it.                                             *)
LEMMA SeesAnswer ==
  ASSUME IInv, IInv', Numbered, NEW u \in User, connected[u], NEW t, t = Conn(u),
         NEW d \in Doc, encodes, conn'[u] = conn[u], doc'[u] = doc[u], view'[u] = view[u],
         down' = Answer([sid |-> t, doc |-> d]), emits' = emits, operations' = operations,
         Kept(u)'
  PROVE  Sees(u)'
<1>0. TypeOK /\ TypeOK'
  BY DEF IInv
<1>1. /\ t \in Sid /\ Live(t) /\ Now(u) \in Shown /\ down[t] \in Seq(Packet)
      /\ ReadAll(Now(u), down[t]) \in Shown /\ Owed(t) \in Seq(Event) /\ Owed(t) \in Seq(Packet)
  BY <1>0, ForeseenIs
<1>2. Owed(t)' = Owed(t) /\ Now(u)' = Now(u)
  BY DEF Owed, Now
<1>3. operations[d] \in Seq(Op)
  BY <1>0 DEF TypeOK
<1> DEFINE m == [type |-> "document", doc |-> d, operations |-> operations[d]]
           shown == [doc |-> d, view |-> operations[d]]
<1>4. m \in Packet /\ m.type = "document" /\ m.doc = d /\ m.operations = operations[d]
  BY <1>3 DEF Packet, Snapshot
<1>5. down'[t] = Append(down[t], m)
  BY <1>0, <1>1 DEF Answer, Sent, TypeOK
<1> HIDE DEF m
<1>6. down'[t] \in Seq(Packet) /\ ReadAll(Now(u), down'[t]) = shown
  <2>1. ReadAll(Now(u), Append(down[t], m)) = Reads(ReadAll(Now(u), down[t]), m)
    BY <1>1, <1>4, ReadAllAppend
  <2>2. Reads(ReadAll(Now(u), down[t]), m) = shown
    BY <1>1, <1>4, ReadsType
  <2>3. Append(down[t], m) \in Seq(Packet)
    BY <1>1, <1>4, AppendProperties
  <2> QED BY <1>5, <2>1, <2>2, <2>3
<1>7. Foreseen(u)' = ReadAll(shown, Owed(t))
  <2>1. Foreseen(u)' = ReadAll(Now(u), down'[t] \o Owed(t))
    BY <1>2, AfterStep
  <2>2. ReadAll(Now(u), down'[t] \o Owed(t)) = ReadAll(ReadAll(Now(u), down'[t]), Owed(t))
    <3> DEFINE packets == down'[t]
    <3>1. packets \in Seq(Packet)
      BY <1>6
    <3> HIDE DEF packets
    <3>2. ReadAll(Now(u), packets \o Owed(t)) = ReadAll(ReadAll(Now(u), packets), Owed(t))
      BY <1>1, <3>1, ReadAllConcat
    <3> QED BY <3>2 DEF packets
  <2> QED BY <1>6, <2>1, <2>2
<1> DEFINE added == Added(d, Owed(t))
<1>8. Foreseen(u)' = [doc |-> d, view |-> operations[d] \o added] /\ added \in Seq(Op)
  <2> DEFINE ops == operations[d]
  <2>1. ops \in Seq(Op)
    BY <1>3
  <2> HIDE DEF ops
  <2>2. ReadAll([doc |-> d, view |-> ops], Owed(t)) = [doc |-> d, view |-> ops \o Added(d, Owed(t))]
        /\ Added(d, Owed(t)) \in Seq(Op)
    BY <1>1, <2>1, ReadAllEvents
  <2> QED BY <1>7, <2>2 DEF ops
<1> HIDE DEF added
<1>a. Foreseen(u)'.doc = d /\ Foreseen(u)'.view = operations[d] \o added
  BY <1>8
<1> SUFFICES ASSUME connected'[u], t \notin mixed', rooms'[t] = {d}
             PROVE  Repeats(operations[d] \o added, operations[d])
  BY <1>a, AfterStep
<1>9. PICK front \in Seq(Op) : operations[d] = front \o added
  BY <1>2, AfterStep DEF added
<1>10. <<>> \in Seq(Op) /\ front \o added \in Seq(Op)
  BY <1>8, EmptyIsSeq, ConcatProperties
<1>11. (front \o added) \o <<>> = front \o added /\ added \o <<>> = added
  BY <1>8, <1>10, ConcatEmptySeq
<1> QED BY <1>8, <1>9, <1>10, <1>11 DEF Repeats

(* One more join that awaits its answer.                                     *)
LEMMA AnsweredAppend ==
  ASSUME joining \in Seq(Join), NEW join \in Join, joining' = Append(joining, join), NEW t
  PROVE  /\ Answered(t)' => Answered(t)
         /\ join.sid = t => ~Answered(t)'
<1>1. /\ Len(joining) \in Nat /\ DOMAIN joining = 1..Len(joining)
      /\ DOMAIN joining' = 1..(Len(joining) + 1) /\ joining'[Len(joining) + 1] = join
      /\ \A k \in 1..Len(joining) : joining'[k] = joining[k]
  BY AppendProperties, LenProperties
<1> QED BY <1>1 DEF Answered

LEMMA AnsweredTail ==
  ASSUME joining \in Seq(Join), joining # <<>>, joining' = Tail(joining), NEW t,
         Head(joining).sid # t, Answered(t)'
  PROVE  Answered(t)
<1> DEFINE n == Len(joining)
<1>1. /\ n \in Nat /\ DOMAIN joining = 1..n /\ DOMAIN joining' = 1..(n - 1)
      /\ (\A k \in 1..(n - 1) : joining'[k] = joining[k + 1]) /\ Head(joining) = joining[1]
  BY HeadTailProperties, LenProperties, EmptySeq
<1> HIDE DEF n
<1> SUFFICES ASSUME NEW k \in 1..n PROVE joining[k].sid # t
  BY <1>1 DEF Answered
<1>2. CASE k = 1
  BY <1>1, <1>2
<1>3. CASE k # 1
  <2>1. k - 1 \in 1..(n - 1) /\ (k - 1) + 1 = k
    BY <1>1, <1>3
  <2>2. joining'[k - 1] = joining[k]
    BY <1>1, <2>1
  <2>3. joining'[k - 1].sid # t
    BY <1>1, <2>1 DEF Answered
  <2> QED BY <2>2, <2>3
<1> QED BY <1>2, <1>3

(* An answer changes nothing on the connections of others.                   *)
LEMMA AnswerToOthers ==
  ASSUME down \in [Sid -> Seq(Packet)], NEW join \in Join, NEW t \in Sid,
         t # join.sid \/ ~encodes
  PROVE  Answer(join)[t] = down[t]
BY DEF Answer, Sent

(* Entering a room: for its own client the answer is made at once, or is     *)
(* awaited, and what was due to it before is of this room or marks it.       *)
LEMMA EnterSees ==
  ASSUME IInv, IInv', Numbered, Placed, NEW s \in Sid, NEW d \in Doc, EnterRoom(s, d),
         UNCHANGED <<operations, emits, conn, connected, doc, view, encodes>>,
         NEW u \in User, connected[u], Sees(u), Kept(u)
  PROVE  Sees(u)' /\ Kept(u)'
<1> DEFINE join == [sid |-> s, doc |-> d]
<1>0. /\ TypeOK /\ joining \in Seq(Join) /\ down \in [Sid -> Seq(Packet)]
      /\ join \in Join /\ join.sid = s /\ rooms \in [Sid -> SUBSET Doc]
      /\ emits \in Seq(Emitted) /\ operations[d] \in Seq(Op)
  BY DEF IInv, TypeOK, Packet, Join
<1>1. PICK t \in Sid : t = Conn(u) /\ Live(t)
  BY <1>0, ForeseenIs
<1>2. /\ rooms' = [rooms EXCEPT ![s] = @ \cup {d}]
      /\ mixed' = IF ~Live(s) \/ (rooms[s] \subseteq {d} /\ ~Due(s)) THEN mixed \ {s}
                  ELSE IF rooms[s] = {d} THEN mixed ELSE mixed \cup {s}
      /\ \/ down' = Answer(join) /\ joining' = joining
         \/ joining' = Append(joining, join) /\ down' = down
  BY DEF EnterRoom
<1> HIDE DEF join
<1>3. CASE t # s
  <2>1. down'[t] = down[t]
    BY <1>0, <1>2, <1>3, AnswerToOthers
  <2>2. Answered(t)' => Answered(t)
    <3>1. joining' = joining => (Answered(t)' => Answered(t))
      BY DEF Answered
    <3> QED BY <1>0, <1>2, <3>1, AnsweredAppend
  <2>3. rooms'[t] = rooms[t] /\ (t \notin mixed' => t \notin mixed)
    BY <1>0, <1>2, <1>3
  <2> QED BY <1>1, <2>1, <2>2, <2>3, SeesStill
<1>4. CASE t = s
  <2>1. Owed(t)' = Owed(t) /\ Now(u)' = Now(u)
    BY DEF Owed, Now
  <2>2. Kept(u)'
    <3> SUFFICES ASSUME t \notin mixed', NEW e \in rooms'[t]
                 PROVE  \E front \in Seq(Op) : operations[e] = front \o Added(e, Owed(t))
      BY <1>1, <2>1, AfterStep
    <3>1. (rooms[t] \subseteq {d} /\ ~Due(t)) \/ (rooms[t] = {d} /\ t \notin mixed)
      BY <1>1, <1>2, <1>4
    <3>2. e = d
      BY <1>0, <1>2, <1>4, <3>1
    <3>3. CASE ~Due(t)
      <4>1. Added(d, Owed(t)) = <<>>
        BY <1>0, <3>3, NotDue
      <4>2. operations[d] \o <<>> = operations[d]
        BY <1>0, ConcatEmptySeq
      <4> QED BY <1>0, <3>2, <4>1, <4>2
    <3>4. CASE rooms[t] = {d} /\ t \notin mixed
      BY <1>1, <3>2, <3>4 DEF Kept
    <3> QED BY <3>1, <3>3, <3>4
  <2>3. CASE joining' = Append(joining, join)
    <3>1. ~Answered(t)'
      BY <1>0, <1>4, <2>3, AnsweredAppend
    <3> QED BY <1>1, <2>2, <3>1, AfterStep
  <2>4. CASE down' = Answer(join) /\ encodes
    BY <1>1, <1>4, <2>2, <2>4, SeesAnswer DEF join
  <2>5. CASE down' = Answer(join) /\ ~encodes
    <3>1. down'[t] = down[t]
      BY <1>0, <2>5, AnswerToOthers
    <3>2. Foreseen(u) = ReadAll(Now(u), down[t] \o Owed(t))
      BY <1>1 DEF Foreseen, ReadAll, Now, Conn
    <3>3. Foreseen(u)' = Foreseen(u)
      BY <1>1, <2>1, <3>1, <3>2, AfterStep
    <3>4. Foreseen(u)'.doc = None
      BY <1>0, <2>5, <3>3, NothingForeseen
    <3> QED BY <1>1, <2>2, <3>4, AfterStep
  <2> QED BY <1>2, <2>3, <2>4, <2>5
<1> QED BY <1>3, <1>4

(* The answer a join awaited.                                                *)
LEMMA AnswerJoinSees ==
  ASSUME IInv, IInv', Numbered, Placed, AnswerJoin, UNCHANGED clientVars,
         NEW u \in User, connected[u], Sees(u), Kept(u)
  PROVE  Sees(u)' /\ Kept(u)'
<1> DEFINE join == Head(joining)
<1>0. /\ TypeOK /\ joining \in Seq(Join) /\ down \in [Sid -> Seq(Packet)] /\ joining # <<>>
      /\ UNCHANGED <<operations, emits, conn, connected, doc, view, encodes, rooms, mixed>>
      /\ joining' = Tail(joining) /\ down' = Answer(join)
  BY DEF IInv, TypeOK, Packet, AnswerJoin, links, installation, clientVars
<1>1. PICK t \in Sid : t = Conn(u) /\ Live(t)
  BY <1>0, ForeseenIs
<1>2. join \in Join /\ join.sid \in Sid /\ join.doc \in Doc
      /\ join = [sid |-> join.sid, doc |-> join.doc]
  <2>1. join \in Join
    BY <1>0, HeadTailProperties
  <2> QED BY <2>1 DEF Join
<1>3. Owed(t)' = Owed(t) /\ Now(u)' = Now(u)
  BY <1>0 DEF Owed, Now
<1>4. Foreseen(u) = ReadAll(Now(u), down[t] \o Owed(t))
  BY <1>1 DEF Foreseen, ReadAll, Now, Conn
<1>5. Kept(u)'
  <2> SUFFICES ASSUME t \notin mixed', NEW e \in rooms'[t]
               PROVE  \E front \in Seq(Op) : operations[e] = front \o Added(e, Owed(t))
    BY <1>0, <1>1, <1>3, AfterStep
  <2> QED BY <1>0, <1>1 DEF Kept
<1>6. ASSUME down'[t] = down[t] PROVE Foreseen(u)' = Foreseen(u)
  BY <1>0, <1>1, <1>3, <1>4, <1>6, AfterStep
<1> HIDE DEF join
<1>7. CASE t # join.sid
  <2>1. down'[t] = down[t]
    BY <1>0, <1>2, <1>7, AnswerToOthers
  <2>2. Answered(t)' => Answered(t)
    BY <1>0, <1>7, AnsweredTail DEF join
  <2> QED BY <1>0, <1>1, <2>1, <2>2, SeesStill
<1>8. CASE t = join.sid /\ encodes
  BY <1>0, <1>1, <1>2, <1>5, <1>8, SeesAnswer
<1>9. CASE ~encodes
  <2>1. Foreseen(u)' = Foreseen(u)
    BY <1>0, <1>2, <1>6, <1>9, AnswerToOthers
  <2>2. Foreseen(u)'.doc = None
    BY <1>0, <1>9, <2>1, NothingForeseen
  <2> QED BY <1>0, <1>1, <1>5, <2>2, AfterStep
<1> QED BY <1>7, <1>8, <1>9

(* A user forgets its document: a connection leaves a room.                  *)
LEMMA ForgetSees ==
  ASSUME TypeOK, Numbered, Placed, NEW s \in Sid, Forget(s) \/ CloseRooms(s),
         UNCHANGED <<operations, emits, joining, mixed, down, conn, connected, doc, view>>,
         NEW u \in User, connected[u], Sees(u), Kept(u)
  PROVE  Sees(u)' /\ Kept(u)'
<1>1. PICK t \in Sid : t = Conn(u) /\ Live(t)
  BY ForeseenIs
<1>2. rooms'[t] \subseteq rooms[t]
  <2>1. rooms \in [Sid -> SUBSET Doc]
    BY DEF TypeOK
  <2>2. CASE Forget(s)
    <3>1. rooms' = [rooms EXCEPT ![s] = @ \ {userDocument[UserOf(s)]}]
      BY <2>2 DEF Forget
    <3> QED BY <2>1, <3>1
  <2>3. CASE CloseRooms(s)
    BY <2>1, <2>3 DEF CloseRooms
  <2> QED BY <2>2, <2>3
<1>3. Answered(t)' => Answered(t)
  BY DEF Answered
<1> QED BY <1>1, <1>2, <1>3, SeesStill

(* One more event adds its operation.                                        *)
LEMMA AddedAppend ==
  ASSUME NEW d \in Doc, NEW packets \in Seq(Event), NEW m \in Event
  PROVE  Added(d, Append(packets, m)) = IF m.type = "operation"
                                        THEN Append(Added(d, packets), m.op)
                                        ELSE Added(d, packets)
<1> DEFINE empty == [doc |-> d, view |-> <<>>]
           shown == ReadAll(empty, packets)
<1>1. empty \in Shown /\ packets \in Seq(Packet) /\ m \in Packet /\ d # None
      /\ m.type \in {"operation", "success"}
  <2>1. packets \in Seq(Packet)
    BY SeqMonotonic DEF Packet
  <2> QED BY <2>1, EmptyIsSeq, CollaborationAssumption DEF Shown, Packet, Event
<1>2. shown \in Shown /\ shown.doc = d /\ shown.view = Added(d, packets)
  <2>1. <<>> \in Seq(Op)
    BY EmptyIsSeq
  <2>2. shown = [doc |-> d, view |-> <<>> \o Added(d, packets)]
    BY <2>1, ReadAllEvents
  <2> QED BY <1>1, <2>2, ReadAllIs DEF Added
<1>3. ReadAll(empty, Append(packets, m)) = Reads(shown, m)
  BY <1>1, ReadAllAppend
<1>4. Added(d, Append(packets, m)) = Reads(shown, m).view
  BY <1>3 DEF Added
<1> HIDE DEF shown
<1>5. CASE m.type = "operation"
  <2>1. Reads(shown, m) = [doc |-> d, view |-> Append(shown.view, m.op)]
    BY <1>1, <1>2, <1>5, ReadsType
  <2> QED BY <1>2, <1>4, <1>5, <2>1
<1>6. CASE m.type = "success"
  BY <1>1, <1>2, <1>4, <1>6, ReadsType
<1> QED BY <1>1, <1>5, <1>6

(* An operation is appended to the document and, by the emit, to what        *)
(* everybody in its room foresees.                                           *)
LEMMA ProcessSees ==
  ASSUME IInv, Numbered, Placed, NEW s \in Sid, NEW d \in Doc, NEW op \in Op,
         ProcessOperation(s, d, op), UNCHANGED <<conn, connected, doc, view, encodes>>,
         NEW u \in User, connected[u], Sees(u), Kept(u)
  PROVE  Sees(u)' /\ Kept(u)'
<1>0. /\ TypeOK /\ rooms \in [Sid -> SUBSET Doc] /\ operations \in [Doc -> Seq(Op)]
      /\ emits \in Seq(Emitted) /\ UNCHANGED <<rooms, mixed, joining>>
      /\ down \in [Sid -> Seq(Packet)]
  BY DEF IInv, TypeOK, Packet, ProcessOperation
<1>1. PICK t \in Sid : t = Conn(u) /\ Live(t)
  BY <1>0, ForeseenIs
<1>2. /\ Now(u)' = Now(u) /\ Now(u) \in Shown /\ down[t] \in Seq(Packet)
      /\ ReadAll(Now(u), down[t]) \in Shown /\ Foreseen(u) \in Shown
      /\ Owed(t) \in Seq(Event) /\ Owed(t) \in Seq(Packet)
      /\ Foreseen(u) = ReadAll(ReadAll(Now(u), down[t]), Owed(t))
  BY <1>0, <1>1, ForeseenIs DEF Now
<1>3. Answered(t)' => Answered(t)
  BY <1>0 DEF Answered
<1>4. Foreseen(u)' = ReadAll(Now(u), down'[t] \o Owed(t)')
  BY <1>1, <1>2, AfterStep
<1>5. CASE d \notin documents
  <2>1. UNCHANGED <<operations, emits, down>>
    BY <1>5 DEF ProcessOperation
  <2> QED BY <1>0, <1>1, <1>3, <2>1, SeesStill
<1>6. CASE d \in documents /\ Room(d) = {}
  <2> DEFINE a == [type |-> "success", op |-> op]
  <2>1. /\ operations' = [operations EXCEPT ![d] = Append(@, op)] /\ emits' = emits
        /\ down' = down \/ down' = Sent(s, a)
    BY <1>6 DEF ProcessOperation
  <2>2. a \in Packet /\ a.type = "success"
    BY DEF Packet, Event
  <2> HIDE DEF a
  <2>3. Owed(t)' = Owed(t)
    BY <2>1 DEF Owed
  <2>4. \A e \in rooms[t] : operations'[e] = operations[e]
    BY <1>0, <1>1, <1>6, <2>1 DEF Room
  <2>5. down'[t] \in Seq(Packet) /\ ReadAll(Now(u), down'[t]) = ReadAll(Now(u), down[t])
    <3>1. CASE down'[t] = down[t]
      BY <1>2, <3>1
    <3>2. CASE down'[t] = Append(down[t], a)
      <4>1. ReadAll(Now(u), Append(down[t], a)) = Reads(ReadAll(Now(u), down[t]), a)
        BY <1>2, <2>2, ReadAllAppend
      <4>2. Reads(ReadAll(Now(u), down[t]), a) = ReadAll(Now(u), down[t])
        BY <1>2, <2>2, ReadsType
      <4>3. Append(down[t], a) \in Seq(Packet)
        BY <1>2, <2>2, AppendProperties
      <4> QED BY <3>2, <4>1, <4>2, <4>3
    <3>3. down'[t] = down[t] \/ down'[t] = Append(down[t], a)
      BY <1>0, <1>1, <2>1 DEF Sent
    <3> QED BY <3>1, <3>2, <3>3
  <2>6. Foreseen(u)' = Foreseen(u)
    <3> DEFINE packets == down'[t]
    <3>1. packets \in Seq(Packet)
      BY <2>5
    <3> HIDE DEF packets
    <3>2. ReadAll(Now(u), packets \o Owed(t)) = ReadAll(ReadAll(Now(u), packets), Owed(t))
      BY <1>2, <3>1, ReadAllConcat
    <3> QED BY <1>2, <1>4, <2>3, <2>5, <3>2 DEF packets
  <2> QED BY <1>0, <1>1, <1>3, <2>3, <2>4, <2>6, SeesSame
<1>7. CASE d \in documents /\ Room(d) # {} /\ ~encodes
  <2>1. /\ operations' = [operations EXCEPT ![d] = Append(@, op)]
        /\ emits' = emits /\ down' = down /\ emits = <<>>
    BY <1>7 DEF ProcessOperation, Placed
  <2>2. Owed(t)' = Owed(t) /\ ~Due(t)
    BY <2>1 DEF Owed, Due
  <2>3. Foreseen(u)' = Foreseen(u)
    BY <1>1, <1>4, <2>1, <2>2 DEF Foreseen, ReadAll, Now, Conn
  <2>4. Foreseen(u)'.doc = None
    BY <1>0, <1>7, <2>3, NothingForeseen
  <2>5. Kept(u)'
    <3> SUFFICES ASSUME NEW e \in rooms'[t]
                 PROVE  \E front \in Seq(Op) : operations'[e] = front \o Added(e, Owed(t))
      BY <1>1, <2>2, AfterStep
    <3>1. e \in Doc /\ operations'[e] \in Seq(Op)
      <4>1. Append(operations[d], op) \in Seq(Op)
        BY <1>0, AppendProperties
      <4> QED BY <1>0, <2>1, <4>1
    <3>2. Added(e, Owed(t)) = <<>>
      BY <1>0, <2>2, <3>1, NotDue
    <3>3. operations'[e] \o <<>> = operations'[e]
      <4> DEFINE ops == operations'[e]
      <4>1. ops \in Seq(Op)
        BY <3>1
      <4> HIDE DEF ops
      <4>2. ops \o <<>> = ops
        BY <4>1, ConcatEmptySeq
      <4> QED BY <4>2 DEF ops
    <3> QED BY <3>1, <3>2, <3>3
  <2> QED BY <1>1, <2>4, <2>5, AfterStep
<1>8. CASE d \in documents /\ Room(d) # {} /\ encodes
  <2> DEFINE e == [to |-> Room(d), from |-> s, op |-> op]
             m == Owing(e, t)
  <2>1. /\ operations' = [operations EXCEPT ![d] = Append(@, op)]
        /\ emits' = Append(emits, e) /\ down' = down
    BY <1>8 DEF ProcessOperation
  <2>2. e \in Emitted /\ e.to = Room(d) /\ e.op = op
    BY DEF Emitted, Room
  <2> HIDE DEF e
  <2>3. /\ m \in Event /\ m \in Packet /\ m.op = op
        /\ m.type = IF t \in Room(d) THEN "operation" ELSE "success"
    BY <2>2, OwingTyped
  <2>4. Owed(t)' = Append(Owed(t), m)
    BY <1>0, <2>1, <2>2, OwedAppend
  <2> HIDE DEF m
  <2>5. Foreseen(u)' = Reads(Foreseen(u), m)
    <3>1. Append(Owed(t), m) \in Seq(Packet)
      BY <1>2, <2>3, AppendProperties
    <3>2. ReadAll(Now(u), down[t] \o Append(Owed(t), m))
            = ReadAll(ReadAll(Now(u), down[t]), Append(Owed(t), m))
      BY <1>2, <3>1, ReadAllConcat
    <3>3. ReadAll(ReadAll(Now(u), down[t]), Append(Owed(t), m)) = Reads(Foreseen(u), m)
      BY <1>2, <2>3, ReadAllAppend
    <3> QED BY <1>4, <2>1, <2>4, <3>2, <3>3
  <2>6. CASE t \notin Room(d)
    <3>1. Foreseen(u)' = Foreseen(u)
      BY <1>2, <2>3, <2>5, <2>6, ReadsType
    <3>2. ASSUME NEW f \in rooms[t]
          PROVE  operations'[f] = operations[f] /\ Added(f, Owed(t)') = Added(f, Owed(t))
      <4>1. f \in Doc /\ f # d
        BY <1>0, <2>6 DEF Room
      <4>2. Added(f, Append(Owed(t), m)) = Added(f, Owed(t))
        BY <1>2, <2>3, <2>6, <4>1, AddedAppend
      <4> QED BY <1>0, <2>1, <2>4, <4>1, <4>2
    <3> QED BY <1>0, <1>1, <1>3, <3>1, <3>2, SeesSame
  <2>7. CASE t \in Room(d)
    <3>1. d \in rooms[t] /\ m.type = "operation" /\ operations'[d] = Append(operations[d], op)
      BY <1>0, <2>1, <2>3, <2>7 DEF Room
    <3>2. Foreseen(u)' = IF Foreseen(u).doc = None THEN Foreseen(u)
                         ELSE [doc |-> Foreseen(u).doc, view |-> Append(Foreseen(u).view, op)]
      BY <1>2, <2>3, <2>5, <3>1, ReadsType
    <3>3. Kept(u)'
      <4> SUFFICES ASSUME t \notin mixed, NEW f \in rooms[t]
                   PROVE  \E front \in Seq(Op) : operations'[f] = front \o Added(f, Owed(t)')
        BY <1>0, <1>1, AfterStep
      <4>1. f = d
        BY <1>1, <3>1 DEF Placed
      <4>2. PICK front \in Seq(Op) : operations[d] = front \o Added(d, Owed(t))
        BY <1>1, <3>1 DEF Kept
      <4>3. Added(d, Append(Owed(t), m)) = Append(Added(d, Owed(t)), op)
        BY <1>2, <2>3, <3>1, AddedAppend
      <4>4. Added(d, Owed(t)) \in Seq(Op)
        BY <1>2, EmptyIsSeq, ReadAllEvents
      <4>5. Append(front \o Added(d, Owed(t)), op) = front \o Append(Added(d, Owed(t)), op)
        BY <4>4, ConcatAppend
      <4> QED BY <2>4, <3>1, <4>1, <4>2, <4>3, <4>5
    <3>4. Sees(u)'
      <4> SUFFICES ASSUME t \notin mixed, Answered(t), Foreseen(u)'.doc # None,
                          rooms[t] = {Foreseen(u)'.doc}
                   PROVE  Repeats(Foreseen(u)'.view, operations'[Foreseen(u)'.doc])
        BY <1>0, <1>1, <1>3, AfterStep
      <4>1. Foreseen(u).doc # None /\ Foreseen(u)'.doc = Foreseen(u).doc
            /\ Foreseen(u)'.view = Append(Foreseen(u).view, op) /\ Foreseen(u).doc = d
        BY <3>1, <3>2
      <4>2. Repeats(Foreseen(u).view, operations[d])
        BY <1>1, <4>1 DEF Sees
      <4>3. Repeats(Append(Foreseen(u).view, op), Append(operations[d], op))
        BY <4>2, RepeatsAppend
      <4> QED BY <3>1, <4>1, <4>3
    <3> QED BY <3>3, <3>4
  <2> QED BY <2>6, <2>7
<1> QED BY <1>5, <1>6, <1>7, <1>8

(* The packets of an emit are sent: what was owed is on its way.             *)
LEMMA SendSees ==
  ASSUME TypeOK, Numbered, Placed, Send, UNCHANGED clientVars,
         NEW u \in User, connected[u], Sees(u), Kept(u)
  PROVE  Sees(u)' /\ Kept(u)'
<1>0. /\ emits \in Seq(Emitted) /\ emits # <<>> /\ emits' = Tail(emits)
      /\ UNCHANGED <<rooms, mixed, joining, operations, conn, connected, doc, view>>
      /\ rooms \in [Sid -> SUBSET Doc] /\ operations \in [Doc -> Seq(Op)]
  BY DEF TypeOK, Send, links, clientVars
<1>1. PICK t \in Sid : t = Conn(u) /\ Live(t)
  BY ForeseenIs
<1> DEFINE e == Head(emits)
           m == Owing(e, t)
           base == ReadAll(Now(u), down[t])
           rest == Owed(t)'
           b == Broadcast(e, t)
           a == Success(e, t)
           past == Reads(base, m)
<1>2. /\ Now(u)' = Now(u) /\ Now(u) \in Shown /\ down[t] \in Seq(Packet)
      /\ base \in Shown /\ Foreseen(u) = ReadAll(base, Owed(t))
  BY <1>0, <1>1, ForeseenIs DEF Now
<1>3. /\ e \in Emitted /\ m \in Packet /\ m.op = e.op /\ e.op \in Op
      /\ m.type = IF t \in e.to THEN "operation" ELSE "success"
  BY <1>0, HeadTailProperties, OwingTyped
<1>4. rest \in Seq(Packet) /\ rest \in Seq(Event) /\ Owed(t) = <<m>> \o rest
  BY <1>0, OwedTail
<1>5. Answered(t)' => Answered(t)
  BY <1>0 DEF Answered
<1>6. Foreseen(u)' = ReadAll(Now(u), down'[t] \o rest)
  BY <1>0, <1>1, <1>2, AfterStep
<1>7. down'[t] = (down[t] \o b) \o a
  BY <1>1 DEF Send
<1>8. b = (IF t \in e.to THEN <<m>> ELSE <<>>) /\ b \in Seq(Packet)
  <2>1. <<m>> \in Seq(Packet) /\ <<>> \in Seq(Packet)
    BY <1>3, EmptyIsSeq
  <2> QED BY <2>1 DEF Broadcast, Owing
<1>9. a \in Seq(Packet) /\ \A i \in 1..Len(a) : a[i] \in Packet /\ a[i].type = "success"
  <2> DEFINE x == [type |-> "success", op |-> e.op]
  <2>1. x \in Packet /\ x.type = "success"
    BY <1>3 DEF Packet, Event
  <2> HIDE DEF x
  <2>2. <<x>> \in Seq(Packet) /\ Len(<<x>>) = 1 /\ <<x>>[1] = x /\ <<>> \in Seq(Packet)
        /\ Len(<<>>) = 0 /\ 1..0 = {} /\ 1..1 = {1}
    BY <2>1, EmptyIsSeq
  <2>3. a = <<x>> \/ a = <<>>
    BY DEF Success, x
  <2> HIDE DEF a
  <2>4. CASE a = <<x>>
    BY <2>1, <2>2, <2>4
  <2>5. CASE a = <<>>
    BY <2>2, <2>5
  <2> QED BY <2>3, <2>4, <2>5
<1> HIDE DEF m, e, base, rest, a, b
<1>10. ReadAll(base, b) = past /\ past \in Shown /\ ReadAll(base, <<m>>) = past
  <2>1. past \in Shown /\ ReadAll(base, <<m>>) = past /\ ReadAll(base, <<>>) = base
    BY <1>2, <1>3, ReadsType, ReadAllOne
  <2>2. t \notin e.to => past = base
    BY <1>2, <1>3, ReadsType
  <2> QED BY <1>8, <2>1, <2>2
<1> HIDE DEF past
<1>11. ReadAll(past, a) = past
  <2>1. \A i \in 1..Len(a) : Reads(past, a[i]) = past
    BY <1>9, <1>10, ReadsType
  <2> QED BY <1>9, <1>10, <2>1, ReadAllSame
<1>12. down'[t] \in Seq(Packet) /\ ReadAll(Now(u), down'[t]) = past
  <2> DEFINE first == down[t] \o b
  <2>1. first \in Seq(Packet) /\ ReadAll(Now(u), first) = past
    BY <1>2, <1>8, <1>10, ReadAllConcat DEF base
  <2> HIDE DEF first
  <2>2. first \o a \in Seq(Packet) /\ ReadAll(Now(u), first \o a) = past
    BY <1>2, <1>9, <1>11, <2>1, ReadAllConcat
  <2> QED BY <1>7, <2>2 DEF first
<1>13. Foreseen(u)' = ReadAll(past, rest)
  <2> DEFINE packets == down'[t]
  <2>1. packets \in Seq(Packet) /\ ReadAll(Now(u), packets) = past
    BY <1>12
  <2> HIDE DEF packets
  <2>2. ReadAll(Now(u), packets \o rest) = ReadAll(past, rest)
    BY <1>2, <1>4, <2>1, ReadAllConcat
  <2> QED BY <1>6, <2>2 DEF packets
<1>14. Foreseen(u) = ReadAll(past, rest)
  <2> DEFINE one == <<m>>
  <2>1. one \in Seq(Packet)
    BY <1>3
  <2> HIDE DEF one
  <2>2. ReadAll(base, one \o rest) = ReadAll(ReadAll(base, one), rest)
    BY <1>2, <1>4, <2>1, ReadAllConcat
  <2> QED BY <1>2, <1>4, <1>10, <2>2 DEF one
<1>15. Foreseen(u)' = Foreseen(u)
  BY <1>13, <1>14
<1>16. Kept(u)'
  <2> SUFFICES ASSUME t \notin mixed, NEW d \in rooms[t]
               PROVE  \E front \in Seq(Op) : operations[d] = front \o Added(d, rest)
    BY <1>0, <1>1, AfterStep DEF rest
  <2>1. d \in Doc /\ d # None
    BY <1>0, CollaborationAssumption
  <2>2. PICK front \in Seq(Op) : operations[d] = front \o Added(d, Owed(t))
    BY <1>1 DEF Kept
  <2> DEFINE empty == [doc |-> d, view |-> <<>>]
             x == IF t \in e.to THEN <<e.op>> ELSE <<>>
             one == <<m>>
  <2>3. empty \in Shown /\ empty.doc = d /\ empty.view = <<>> /\ one \in Seq(Packet)
    BY <1>3, <2>1, EmptyIsSeq DEF Shown
  <2>4. x \in Seq(Op)
    BY <1>3, EmptyIsSeq
  <2>5. Reads(empty, m) = [doc |-> d, view |-> x]
    <3>1. CASE t \in e.to
      <4>1. Reads(empty, m) = [doc |-> d, view |-> Append(<<>>, m.op)]
        <5> HIDE DEF empty
        <5>1. Reads(empty, m) = [doc |-> empty.doc, view |-> Append(empty.view, m.op)]
          BY <1>3, <2>1, <2>3, <3>1, ReadsType
        <5> QED BY <2>3, <5>1
      <4>2. Append(<<>>, m.op) = <<m.op>>
        OBVIOUS
      <4> QED BY <1>3, <3>1, <4>1, <4>2
    <3>2. CASE t \notin e.to
      <4>1. Reads(empty, m) = empty
        <5> HIDE DEF empty
        <5> QED BY <1>3, <2>3, <3>2, ReadsType
      <4> QED BY <3>2, <4>1
    <3> QED BY <3>1, <3>2
  <2>6. ReadAll(empty, one \o rest) = ReadAll(ReadAll(empty, one), rest)
    <3> HIDE DEF empty, one
    <3> QED BY <1>4, <2>3, ReadAllConcat
  <2>7. ReadAll(empty, one) = Reads(empty, m)
    <3> HIDE DEF empty
    <3> QED BY <1>3, <2>3, ReadAllOne
  <2> HIDE DEF x
  <2>8. ReadAll([doc |-> d, view |-> x], rest) = [doc |-> d, view |-> x \o Added(d, rest)]
        /\ Added(d, rest) \in Seq(Op)
    BY <1>4, <2>1, <2>4, ReadAllEvents
  <2>9. Added(d, Owed(t)) = x \o Added(d, rest)
    <3> DEFINE next == [doc |-> d, view |-> x]
    <3>1. Added(d, Owed(t)) = ReadAll(empty, one \o rest).view
      BY <1>4 DEF Added
    <3>2. ReadAll(empty, one \o rest) = ReadAll(next, rest)
      BY <2>5, <2>6, <2>7
    <3>3. ReadAll(next, rest).view = x \o Added(d, rest)
      BY <2>8
    <3> HIDE DEF next, empty, one
    <3> QED BY <3>1, <3>2, <3>3
  <2> DEFINE added == Added(d, rest)
  <2>10. added \in Seq(Op)
    BY <2>8
  <2>11. operations[d] = front \o (x \o added)
    BY <2>2, <2>9
  <2> HIDE DEF added
  <2>12. operations[d] = (front \o x) \o added /\ front \o x \in Seq(Op)
    BY <2>4, <2>10, <2>11, ConcatAssociative, ConcatProperties
  <2> QED BY <2>12 DEF added
<1>17. Sees(u)'
  <2> SUFFICES ASSUME t \notin mixed, Answered(t), Foreseen(u).doc # None,
                      rooms[t] = {Foreseen(u).doc}
               PROVE  Repeats(Foreseen(u).view, operations[Foreseen(u).doc])
    BY <1>0, <1>1, <1>5, <1>15, AfterStep
  <2> QED BY <1>1 DEF Sees
<1> QED BY <1>16, <1>17

(* A client acts: what it does to itself, and nothing to the others.         *)
LEMMA ClientSees ==
  ASSUME IInv, IInv', Numbered, Numbered', Placed, NEW w \in User, ClientNext(w),
         NEW u \in User, Sees(u), Kept(u)
  PROVE  Sees(u)' /\ Kept(u)'
<1>0. TypeOK /\ TypeOK'
  BY DEF IInv
<1>1. /\ UNCHANGED <<rooms, operations, emits, joining>>
      /\ mixed' = mixed \/ mixed' = mixed \ {<<w, conn[w]>>}
  BY DEF ClientNext, Connect, Drop, Leave, ApplyOperation, Receive, EmitJoin,
         LockDocument, serverVars
<1>2. CASE ~connected'[u]
  BY <1>2 DEF Sees, Kept
<1>3. CASE ~connected[u] /\ connected'[u]
  <2>1. w = u /\ Connect(u)
    BY <1>0, <1>3 DEF ClientNext, Connect, Drop, Leave, ApplyOperation, Receive, EmitJoin,
         LockDocument, links, TypeOK
  <2>2. conn'[u] = conn[u] + 1 /\ conn[u] \in Nat /\ conn[u] < MaxConnections[u]
    BY <1>0, <2>1 DEF Connect, TypeOK
  <2>3. Conn(u)' \in Sid /\ Conn(u)' = <<u, conn[u] + 1>>
    <3>1. MaxConnections[u] \in Nat
      BY CollaborationAssumption
    <3>2. conn[u] + 1 \in 1..MaxConnections[u]
      BY <2>2, <3>1
    <3> QED BY <2>2, <3>2 DEF Conn, Sid
  <2>4. rooms'[Conn(u)'] = {}
    <3>1. ~(conn[u] + 1 <= conn[u])
      BY <2>2
    <3>2. rooms[<<u, conn[u] + 1>>] = {}
      BY <2>3, <3>1 DEF Placed
    <3> QED BY <1>1, <2>3, <3>2
  <2>5. rooms[Conn(u)]' = {}
    BY <2>4
  <2> QED BY <2>5 DEF Sees, Kept
<1>4. CASE connected[u] /\ connected'[u]
  <2>0. PICK t \in Sid : t = Conn(u) /\ Live(t)
    BY <1>0, <1>4, ForeseenIs
  <2>a. /\ Now(u) \in Shown /\ down[t] \in Seq(Packet) /\ Owed(t) \in Seq(Packet)
        /\ Foreseen(u) = ReadAll(ReadAll(Now(u), down[t]), Owed(t))
        /\ Foreseen(u) = ReadAll(Now(u), down[t] \o Owed(t))
        /\ down[t] \o Owed(t) \in Seq(Packet) /\ Owed(t)' = Owed(t)
    <3>1. Foreseen(u) = ReadAll(Now(u), down[t] \o Owed(t))
      BY <2>0 DEF Foreseen, ReadAll, Now, Conn
    <3>2. Now(u) \in Shown /\ down[t] \in Seq(Packet) /\ Owed(t) \in Seq(Packet)
          /\ Foreseen(u) = ReadAll(ReadAll(Now(u), down[t]), Owed(t))
      BY <1>0, <1>4, <2>0, ForeseenIs
    <3>3. Owed(t)' = Owed(t)
      BY <1>1 DEF Owed
    <3> QED BY <3>1, <3>2, <3>3, ConcatProperties
  <2>1. conn'[u] = conn[u] /\ (w = u => ~Drop(w) /\ ~Connect(w))
    BY <1>0, <1>4 DEF ClientNext, Connect, Drop, Leave, ApplyOperation, Receive, EmitJoin,
           LockDocument, links, TypeOK
  <2>2. Foreseen(u)' = ReadAll(Now(u)', down'[t] \o Owed(t))
    BY <2>0, <2>1, <2>a, AfterStep
  <2>3. (t \notin mixed' => t \notin mixed) /\ (Answered(t)' => Answered(t))
    <3>1. CASE mixed' = mixed
      BY <1>1, <3>1 DEF Answered
    <3>2. CASE Drop(w)
      BY <1>1, <2>0, <2>1, <3>2 DEF Answered, Conn
    <3>3. mixed' = mixed \/ Drop(w)
      BY DEF ClientNext, Connect, Leave, ApplyOperation, Receive, EmitJoin, LockDocument,
             serverVars
    <3> QED BY <3>1, <3>2, <3>3
  <2>4. ASSUME doc'[u] = doc[u], view'[u] = view[u], down'[t] = down[t]
        PROVE  Sees(u)' /\ Kept(u)'
    BY <1>1, <1>4, <2>0, <2>1, <2>3, <2>4, SeesStill
  <2>5. ASSUME Foreseen(u)' = Foreseen(u) PROVE Sees(u)' /\ Kept(u)'
    BY <1>1, <1>4, <2>0, <2>1, <2>3, <2>5, <2>a, SeesSame
  <2>6. CASE Connect(w)
    BY <2>4, <2>6 DEF Connect, clientVars
  <2>7. CASE Drop(w)
    <3>1. down' = [down EXCEPT ![<<w, conn[w]>>] = <<>>] /\ doc' = doc /\ view' = view /\ w # u
      BY <2>1, <2>7 DEF Drop, clientVars
    <3>2. down'[t] = down[t]
      BY <1>0, <2>0, <3>1 DEF TypeOK, Conn
    <3> QED BY <2>4, <3>1, <3>2
  <2>8. CASE Leave(w)
    <3>1. /\ doc' = [doc EXCEPT ![w] = None] /\ view' = [view EXCEPT ![w] = <<>>]
          /\ down' = down
      BY <2>8 DEF Leave
    <3>2. CASE w # u
      <4>1. doc'[u] = doc[u] /\ view'[u] = view[u]
        BY <1>0, <3>1, <3>2 DEF TypeOK
      <4> QED BY <2>4, <3>1, <4>1
    <3>3. CASE w = u
      <4>1. Now(u)' = [doc |-> None, view |-> <<>>]
        BY <1>0, <3>1, <3>3 DEF TypeOK, Now
      <4>2. Now(u)' \in Shown /\ Now(u)'.doc = None
        BY <4>1, EmptyIsSeq DEF Shown
      <4>3. Foreseen(u)'.doc = None \/ Foreseen(u)' = Foreseen(u)
        BY <2>2, <2>a, <3>1, <4>2, ReadAllForgotten
      <4>4. CASE Foreseen(u)'.doc = None
        <5>1. Kept(u)'
          <6> SUFFICES ASSUME t \notin mixed', NEW d \in rooms'[t]
                       PROVE  \E front \in Seq(Op) : operations'[d] = front \o Added(d, Owed(t)')
            BY <2>0, <2>1, AfterStep
          <6> QED BY <1>1, <1>4, <2>0, <2>3, <2>a DEF Kept
        <5> QED BY <2>0, <2>1, <4>4, <5>1, AfterStep
      <4> QED BY <2>5, <4>3, <4>4
    <3> QED BY <3>2, <3>3
  <2>9. CASE Receive(w)
    <3> DEFINE s == <<w, conn[w]>>
               m == Head(down[s])
    <3>1. /\ down[s] # <<>> /\ down' = [down EXCEPT ![s] = Tail(@)]
          /\ \/ m.type = "document" /\ TakeDocument(w, m)
             \/ m.type = "operation" /\ HandleRemoteOperation(w, m)
             \/ m.type = "success" /\ TakeSuccess(w, m)
      BY <2>9 DEF Receive
    <3>2. CASE w # u
      <4>1. down'[t] = down[t] /\ doc'[u] = doc[u] /\ view'[u] = view[u]
        BY <1>0, <2>0, <3>1, <3>2
           DEF TypeOK, Conn, TakeDocument, HandleRemoteOperation, TakeSuccess
      <4> QED BY <2>4, <4>1
    <3>3. CASE w = u
      <4>1. s = t /\ m = Head(down[t]) /\ down[t] # <<>>
        BY <2>0, <3>1, <3>3 DEF Conn
      <4>2. down'[t] = Tail(down[t]) /\ m \in Packet /\ Tail(down[t]) \in Seq(Packet)
        BY <1>0, <2>a, <3>1, <4>1, HeadTailProperties DEF TypeOK
      <4> HIDE DEF m, s
      <4>3. Now(u)' = Reads(Now(u), m)
        <5>1. doc \in [User -> Doc \cup {None}] /\ view \in [User -> Seq(Op)]
          BY <1>0 DEF TypeOK
        <5>2. CASE m.type = "document" /\ TakeDocument(w, m)
          <6>1. doc'[u] = m.doc /\ view'[u] = m.operations
            BY <3>3, <5>1, <5>2 DEF TakeDocument
          <6>2. Reads(Now(u), m) = [doc |-> m.doc, view |-> m.operations]
            BY <2>a, <4>2, <5>2, ReadsType
          <6> QED BY <6>1, <6>2 DEF Now
        <5>3. CASE m.type = "operation" /\ HandleRemoteOperation(w, m)
          <6>1. doc'[u] = doc[u]
                /\ view'[u] = IF doc[u] = None THEN view[u] ELSE Append(view[u], m.op)
            BY <3>3, <5>1, <5>3 DEF HandleRemoteOperation
          <6>2. Reads(Now(u), m) = IF Now(u).doc = None THEN Now(u)
                                   ELSE [doc |-> Now(u).doc, view |-> Append(Now(u).view, m.op)]
            BY <2>a, <4>2, <5>3, ReadsType
          <6> QED BY <6>1, <6>2 DEF Now
        <5>4. CASE m.type = "success" /\ TakeSuccess(w, m)
          <6>1. Reads(Now(u), m) = Now(u)
            BY <2>a, <4>2, <5>4, ReadsType
          <6> QED BY <5>4, <6>1 DEF Now, TakeSuccess
        <5> QED BY <3>1, <5>2, <5>3, <5>4
      <4>4. ReadAll(Reads(Now(u), m), Tail(down[t])) = ReadAll(Now(u), down[t])
            /\ Reads(Now(u), m) \in Shown
        BY <2>a, <4>1, <4>2, ReadAllTail, ReadsType
      <4>5. Foreseen(u)' = ReadAll(Reads(Now(u), m), Tail(down[t]) \o Owed(t))
        BY <2>2, <4>2, <4>3
      <4> DEFINE left == Tail(down[t])
                 shown == Reads(Now(u), m)
      <4>6. left \in Seq(Packet) /\ shown \in Shown
        BY <4>2, <4>4
      <4> HIDE DEF left, shown
      <4>7. ReadAll(shown, left \o Owed(t)) = ReadAll(ReadAll(shown, left), Owed(t))
        BY <2>a, <4>6, ReadAllConcat
      <4>8. Foreseen(u)' = Foreseen(u)
        BY <2>a, <4>4, <4>5, <4>7 DEF left, shown
      <4> QED BY <2>5, <4>8
    <3> QED BY <3>2, <3>3
  <2>10. CASE ApplyOperation(w) \/ (\E d \in Doc : EmitJoin(w, d))
             \/ (\E type \in {"lock", "unlock"} : LockDocument(w, type))
    BY <2>4, <2>10 DEF ApplyOperation, EmitJoin, LockDocument, clientVars
  <2> QED BY <2>6, <2>7, <2>8, <2>9, <2>10 DEF ClientNext
<1> QED BY <1>2, <1>3, <1>4 DEF IInv, TypeOK

(* Every step keeps the view foreseen for a client in one room the log of    *)
(* that room.                                                                *)
LEMMA SeesStep ==
  ASSUME IInv, IInv', Numbered, Numbered', Placed, [Next]_vars,
         NEW u \in User, Sees(u), Kept(u)
  PROVE  Sees(u)' /\ Kept(u)'
<1>0. TypeOK /\ TypeOK'
  BY DEF IInv
<1>1. CASE ~connected'[u]
  BY <1>1 DEF Sees, Kept
<1>2. ASSUME NEW w \in User, ClientNext(w) PROVE Sees(u)' /\ Kept(u)'
  BY <1>2, ClientSees
<1>3. ASSUME UNCHANGED <<conn, connected, doc, view, encodes>>, connected[u],
             UNCHANGED <<rooms, mixed, operations, emits, joining, down>>
      PROVE  Sees(u)' /\ Kept(u)'
  <2>1. PICK t \in Sid : t = Conn(u)
    BY <1>0, <1>3, ForeseenIs
  <2>2. Answered(t)' => Answered(t)
    BY <1>3 DEF Answered
  <2> QED BY <1>3, <2>1, <2>2, SeesStill
<1>4. ASSUME connected[u], ServerNext, UNCHANGED clientVars, ~Restart
      PROVE  Sees(u)' /\ Kept(u)'
  <2>0. UNCHANGED <<conn, connected, doc, view, encodes>>
    BY <1>4 DEF ServerNext, Serve, Disconnect, EndDisconnect, CloseRooms, Loaded, AnswerJoin,
                Send, links, installation, clientVars
  <2>1. ASSUME NEW s \in Sid, Serve(s) PROVE Sees(u)' /\ Kept(u)'
    <3> DEFINE r == Head(up[s])
    <3>1. r.doc \in Doc /\ (r.type = "operation" => r.op \in Op)
      <4>1. r \in MadeRequest
        BY <2>1, HeadTailProperties DEF Serve, IInv
      <4> QED BY <4>1 DEF MadeRequest, Request, Made
    <3> HIDE DEF r
    <3>2. CASE JoinDocument(s, r.doc)
      <4>1. UNCHANGED <<operations, emits>>
        BY <3>2 DEF JoinDocument
      <4>2. EnterRoom(s, r.doc) \/ UNCHANGED <<rooms, mixed, joining, down>>
        BY <3>2 DEF JoinDocument
      <4> QED BY <1>3, <1>4, <2>0, <3>1, <4>1, <4>2, EnterSees
    <3>3. CASE LeaveDocument(s)
      BY <1>0, <1>4, <2>0, <3>3, ForgetSees DEF LeaveDocument
    <3>4. CASE r.type = "operation" /\ ProcessOperation(s, r.doc, r.op)
      BY <1>4, <2>0, <3>1, <3>4, ProcessSees
    <3>5. ASSUME NEW d, NEW holder, DocumentLock(s, d, holder) PROVE Sees(u)' /\ Kept(u)'
      BY <1>3, <1>4, <2>0, <3>5 DEF DocumentLock
    <3> QED BY <2>1, <3>2, <3>3, <3>4, <3>5 DEF Serve, r
  <2>2. ASSUME NEW s \in Sid, Disconnect(s) \/ CloseRooms(s) PROVE Sees(u)' /\ Kept(u)'
    <3>1. UNCHANGED <<operations, emits, joining, mixed, down>>
          /\ (Forget(s) \/ CloseRooms(s))
      BY <2>2 DEF Disconnect, CloseRooms
    <3> QED BY <1>0, <1>4, <2>0, <3>1, ForgetSees
  <2>3. ASSUME NEW s \in Sid, EndDisconnect(s) PROVE Sees(u)' /\ Kept(u)'
    BY <1>3, <1>4, <2>0, <2>3 DEF EndDisconnect
  <2>4. ASSUME NEW join \in loading, Loaded(join) PROVE Sees(u)' /\ Kept(u)'
    <3>1. join.sid \in Sid /\ join.doc \in Doc
      BY <1>0 DEF TypeOK, Join
    <3>2. UNCHANGED <<operations, emits>>
      BY <2>4 DEF Loaded
    <3>3. EnterRoom(join.sid, join.doc) \/ UNCHANGED <<rooms, mixed, joining, down>>
      BY <2>4 DEF Loaded
    <3> QED BY <1>3, <1>4, <2>0, <3>1, <3>2, <3>3, EnterSees
  <2>5. CASE AnswerJoin
    BY <1>4, <2>5, AnswerJoinSees
  <2>6. CASE Send
    BY <1>0, <1>4, <2>6, SendSees
  <2> QED BY <1>4, <2>1, <2>2, <2>3, <2>4, <2>5, <2>6 DEF ServerNext
<1>5. CASE ServerNext /\ UNCHANGED clientVars
  <2>1. CASE Restart
    BY <2>1 DEF Restart, Sees, Kept
  <2>2. CASE ~Restart /\ ~connected[u]
    <3>1. connected' = connected
      BY <1>5, <2>2 DEF ServerNext, Serve, Disconnect, EndDisconnect, CloseRooms, Loaded,
                        AnswerJoin, Send, links
    <3> QED BY <1>1, <2>2, <3>1
  <2> QED BY <1>4, <1>5, <2>1, <2>2
<1>6. CASE UNCHANGED vars
  <2>1. UNCHANGED <<conn, connected, doc, view, encodes, rooms, mixed, operations, emits,
                    joining, down>>
    BY <1>6 DEF vars, serverVars, links, clientVars, installation
  <2> QED BY <1>1, <1>3, <2>1
<1> QED BY <1>2, <1>5, <1>6 DEF Next

(* Every step keeps the rooms those of opened connections, and one room for  *)
(* a live connection that is not mixed.                                      *)
LEMMA OpenedStep ==
  ASSUME TypeOK, Numbered, Placed, [Next]_vars
  PROVE  /\ \A s \in sessions' : s[2] <= conn'[s[1]]
         /\ \A join \in loading' : join.sid[2] <= conn'[join.sid[1]]
         /\ \A s \in Sid : rooms'[s] # {} => s[2] <= conn'[s[1]]
<1>0. /\ conn \in [User -> Nat] /\ rooms \in [Sid -> SUBSET Doc] /\ sessions \subseteq Sid
      /\ loading \subseteq Join
  BY DEF TypeOK
<1>1. \A s \in Sid : s[2] <= conn[s[1]] => s[2] <= conn'[s[1]]
  <2>1. conn' = conn \/ \E u \in User : conn' = [conn EXCEPT ![u] = @ + 1]
    BY DEF Next, ServerNext, Serve, Disconnect, EndDisconnect, CloseRooms, Loaded, AnswerJoin,
           Send, Restart, ClientNext, Connect, Drop, Leave, ApplyOperation, Receive, EmitJoin,
           LockDocument, links, vars
  <2>2. \A u \in User : conn[u] \in Nat /\ conn'[u] \in Nat /\ conn[u] <= conn'[u]
    BY <1>0, <2>1
  <2> SUFFICES ASSUME NEW s \in Sid, s[2] <= conn[s[1]] PROVE s[2] <= conn'[s[1]]
    OBVIOUS
  <2>3. s[1] \in User /\ s[2] \in Nat
    BY SidIsPair DEF UserOf
  <2> QED BY <2>2, <2>3
<1>2. ASSUME sessions' \subseteq sessions, loading' \subseteq loading,
             \A s \in Sid : rooms'[s] \subseteq rooms[s]
      PROVE  /\ \A s \in sessions' : s[2] <= conn'[s[1]]
             /\ \A join \in loading' : join.sid[2] <= conn'[join.sid[1]]
             /\ \A s \in Sid : rooms'[s] # {} => s[2] <= conn'[s[1]]
  <2>1. \A join \in loading : join.sid \in Sid
    BY <1>0 DEF Join
  <2> QED BY <1>0, <1>1, <1>2, <2>1 DEF Placed
<1>3. ASSUME NEW s \in Sid, s[2] <= conn[s[1]], NEW d \in Doc, EnterRoom(s, d),
             sessions' = sessions, loading' \subseteq loading
      PROVE  /\ \A t \in sessions' : t[2] <= conn'[t[1]]
             /\ \A join \in loading' : join.sid[2] <= conn'[join.sid[1]]
             /\ \A t \in Sid : rooms'[t] # {} => t[2] <= conn'[t[1]]
  <2>1. \A t \in Sid : t # s => rooms'[t] = rooms[t]
    BY <1>0, <1>3 DEF EnterRoom
  <2>2. \A join \in loading : join.sid \in Sid
    BY <1>0 DEF Join
  <2> QED BY <1>0, <1>1, <1>3, <2>1, <2>2 DEF Placed
<1>4. ASSUME NEW s \in Sid, Serve(s)
      PROVE  /\ \A t \in sessions' : t[2] <= conn'[t[1]]
             /\ \A join \in loading' : join.sid[2] <= conn'[join.sid[1]]
             /\ \A t \in Sid : rooms'[t] # {} => t[2] <= conn'[t[1]]
  <2> DEFINE r == Head(up[s])
  <2>1. r.doc \in Doc /\ s[2] <= conn[s[1]] /\ conn' = conn
    <3>1. r \in Request
      BY <1>4, HeadTailProperties DEF Serve, TypeOK
    <3> QED BY <1>4, <3>1 DEF Request, Serve, Placed, links
  <2> HIDE DEF r
  <2>2. CASE JoinDocument(s, r.doc)
    <3>1. CASE EnterRoom(s, r.doc) /\ loading' = loading
      BY <1>3, <2>1, <2>2, <3>1 DEF JoinDocument
    <3>2. CASE loading' = loading \cup {[sid |-> s, doc |-> r.doc]} /\ rooms' = rooms
      BY <2>1, <2>2, <3>2 DEF JoinDocument, Placed
    <3> QED BY <2>2, <3>1, <3>2 DEF JoinDocument
  <2>3. CASE LeaveDocument(s)
    <3>1. \A t \in Sid : rooms'[t] \subseteq rooms[t]
      BY <1>0, <2>3 DEF LeaveDocument, Forget
    <3> QED BY <1>2, <2>3, <3>1 DEF LeaveDocument
  <2>4. ASSUME UNCHANGED <<sessions, loading, rooms>>
        PROVE  /\ \A t \in sessions' : t[2] <= conn'[t[1]]
               /\ \A join \in loading' : join.sid[2] <= conn'[join.sid[1]]
               /\ \A t \in Sid : rooms'[t] # {} => t[2] <= conn'[t[1]]
    BY <1>2, <2>4
  <2> QED BY <1>4, <2>2, <2>3, <2>4 DEF Serve, r, ProcessOperation, DocumentLock
<1>5. ASSUME NEW s \in Sid, Disconnect(s) \/ EndDisconnect(s) \/ CloseRooms(s)
      PROVE  /\ \A t \in sessions' : t[2] <= conn'[t[1]]
             /\ \A join \in loading' : join.sid[2] <= conn'[join.sid[1]]
             /\ \A t \in Sid : rooms'[t] # {} => t[2] <= conn'[t[1]]
  <2>1. \A t \in Sid : rooms'[t] \subseteq rooms[t]
    BY <1>0, <1>5 DEF Disconnect, EndDisconnect, CloseRooms, Forget
  <2> QED BY <1>2, <1>5, <2>1 DEF Disconnect, EndDisconnect, CloseRooms, EndSession
<1>6. ASSUME NEW join \in loading, Loaded(join)
      PROVE  /\ \A t \in sessions' : t[2] <= conn'[t[1]]
             /\ \A other \in loading' : other.sid[2] <= conn'[other.sid[1]]
             /\ \A t \in Sid : rooms'[t] # {} => t[2] <= conn'[t[1]]
  <2>1. join.sid \in Sid /\ join.doc \in Doc /\ join.sid[2] <= conn[join.sid[1]]
    BY <1>0 DEF Join, Placed
  <2>2. EnterRoom(join.sid, join.doc) \/ rooms' = rooms
    BY <1>6 DEF Loaded
  <2> QED BY <1>2, <1>3, <1>6, <2>1, <2>2 DEF Loaded
<1>7. ASSUME NEW u \in User, Connect(u)
      PROVE  /\ \A s \in sessions' : s[2] <= conn'[s[1]]
             /\ \A join \in loading' : join.sid[2] <= conn'[join.sid[1]]
             /\ \A s \in Sid : rooms'[s] # {} => s[2] <= conn'[s[1]]
  <2>1. /\ UNCHANGED <<rooms, loading>> /\ conn' = [conn EXCEPT ![u] = @ + 1]
        /\ sessions' = sessions \cup {<<u, conn[u] + 1>>}
    BY <1>7 DEF Connect
  <2>2. conn'[u] = conn[u] + 1 /\ conn[u] + 1 \in Nat
    BY <1>0, <2>1
  <2>3. \A s \in sessions' : s[2] <= conn'[s[1]]
    <3> SUFFICES ASSUME NEW s \in sessions' PROVE s[2] <= conn'[s[1]]
      OBVIOUS
    <3>1. CASE s \in sessions
      BY <1>0, <1>1, <3>1 DEF Placed
    <3>2. CASE s = <<u, conn[u] + 1>>
      BY <2>2, <3>2
    <3> QED BY <2>1, <3>1, <3>2
  <2>4. \A join \in loading : join.sid \in Sid
    BY <1>0 DEF Join
  <2> QED BY <1>1, <2>1, <2>3, <2>4 DEF Placed
<1>8. CASE Restart
  BY <1>8 DEF Restart
<1>9. CASE UNCHANGED <<sessions, loading, rooms>>
  BY <1>2, <1>9
<1> QED BY <1>4, <1>5, <1>6, <1>7, <1>8, <1>9
        DEF Next, ServerNext, AnswerJoin, Send, ClientNext, Drop, Leave, ApplyOperation,
            Receive, EmitJoin, LockDocument, vars, serverVars

LEMMA OneRoomStep ==
  ASSUME TypeOK, TypeOK', Numbered, Placed, [Next]_vars, NEW u \in User,
         connected'[u], Conn(u)' \notin mixed'
  PROVE  \A d, e \in rooms'[Conn(u)'] : d = e
<1>0. /\ conn \in [User -> Nat] /\ rooms \in [Sid -> SUBSET Doc]
      /\ connected \in [User -> BOOLEAN] /\ conn[u] \in Nat
  BY DEF TypeOK
<1>1. ASSUME NEW t \in Sid, t = Conn(u), conn'[u] = conn[u], connected[u],
             rooms'[t] \subseteq rooms[t], t \notin mixed' => t \notin mixed
      PROVE  \A d, e \in rooms'[Conn(u)'] : d = e
  <2>1. Conn(u)' = t
    BY <1>1 DEF Conn
  <2>2. \A d, e \in rooms[t] : d = e
    BY <1>1, <2>1 DEF Placed
  <2> QED BY <1>1, <2>1, <2>2
<1>2. ASSUME NEW s \in Sid, NEW d \in Doc, EnterRoom(s, d), UNCHANGED <<conn, connected>>
      PROVE  \A x, y \in rooms'[Conn(u)'] : x = y
  <2>1. PICK t \in Sid : t = Conn(u) /\ Live(t)
    BY <1>2, ForeseenIs
  <2>2. CASE t # s
    BY <1>0, <1>1, <1>2, <2>1, <2>2 DEF EnterRoom
  <2>3. CASE t = s
    <3>1. t = Conn(u)'
      BY <1>2, <2>1 DEF Conn
    <3>2. rooms[t] \subseteq {d}
      BY <1>2, <2>1, <2>3, <3>1 DEF EnterRoom
    <3>3. rooms'[t] \subseteq {d}
      BY <1>0, <1>2, <2>1, <2>3, <3>2 DEF EnterRoom
    <3>4. \A x, y \in rooms'[t] : x = d /\ y = d
      BY <3>3
    <3> QED BY <3>1, <3>4
  <2> QED BY <2>2, <2>3
<1>3. ASSUME UNCHANGED <<conn, connected, mixed>>, \A s \in Sid : rooms'[s] \subseteq rooms[s]
      PROVE  \A d, e \in rooms'[Conn(u)'] : d = e
  <2>1. PICK t \in Sid : t = Conn(u)
    BY <1>3, ForeseenIs
  <2> QED BY <1>1, <1>3, <2>1
<1>4. ASSUME NEW w \in User, ClientNext(w)
      PROVE  \A d, e \in rooms'[Conn(u)'] : d = e
  <2>1. /\ rooms' = rooms
        /\ mixed' = mixed \/ (Drop(w) /\ mixed' = mixed \ {<<w, conn[w]>>})
    BY <1>4 DEF ClientNext, Connect, Drop, Leave, ApplyOperation, Receive, EmitJoin,
         LockDocument, serverVars
  <2>2. CASE connected[u]
    <3>1. PICK t \in Sid : t = Conn(u)
      BY <2>2, ForeseenIs
    <3>2. conn'[u] = conn[u] /\ (w = u => ~Drop(w))
      BY <1>0, <1>4, <2>2 DEF ClientNext, Connect, Drop, Leave, ApplyOperation, Receive,
             EmitJoin, LockDocument, links
    <3>3. t \notin mixed' => t \notin mixed
      BY <2>1, <3>1, <3>2 DEF Conn
    <3> QED BY <1>1, <2>1, <2>2, <3>1, <3>2, <3>3
  <2>3. CASE ~connected[u]
    <3>1. w = u /\ Connect(u)
      BY <1>0, <1>4, <2>3 DEF ClientNext, Connect, Drop, Leave, ApplyOperation, Receive,
             EmitJoin, LockDocument, links
    <3>2. conn'[u] = conn[u] + 1 /\ conn[u] < MaxConnections[u]
      BY <1>0, <3>1 DEF Connect
    <3>3. Conn(u)' = <<u, conn[u] + 1>> /\ Conn(u)' \in Sid
      <4>1. MaxConnections[u] \in Nat
        BY CollaborationAssumption
      <4>2. conn[u] + 1 \in 1..MaxConnections[u]
        BY <1>0, <3>2, <4>1
      <4> QED BY <3>2, <4>2 DEF Conn, Sid
    <3>4. rooms[<<u, conn[u] + 1>>] = {}
      <4>1. ~(conn[u] + 1 <= conn[u])
        BY <1>0
      <4> QED BY <3>3, <4>1 DEF Placed
    <3> QED BY <2>1, <3>3, <3>4
  <2> QED BY <2>2, <2>3
<1>5. ASSUME NEW s \in Sid, Serve(s)
      PROVE  \A d, e \in rooms'[Conn(u)'] : d = e
  <2> DEFINE r == Head(up[s])
  <2>1. r.doc \in Doc /\ UNCHANGED <<conn, connected>>
    <3>1. r \in Request
      BY <1>5, HeadTailProperties DEF Serve, TypeOK
    <3> QED BY <1>5, <3>1 DEF Request, Serve, links
  <2> HIDE DEF r
  <2>2. CASE JoinDocument(s, r.doc)
    <3>1. EnterRoom(s, r.doc) \/ UNCHANGED <<rooms, mixed>>
      BY <2>2 DEF JoinDocument
    <3> QED BY <1>2, <1>3, <2>1, <3>1
  <2>3. CASE LeaveDocument(s)
    <3>1. mixed' = mixed /\ \A t \in Sid : rooms'[t] \subseteq rooms[t]
      BY <1>0, <2>3 DEF LeaveDocument, Forget
    <3> QED BY <1>3, <2>1, <3>1
  <2>4. CASE UNCHANGED <<rooms, mixed>>
    BY <1>3, <2>1, <2>4
  <2> QED BY <1>5, <2>2, <2>3, <2>4 DEF Serve, r, ProcessOperation, DocumentLock
<1>6. ASSUME NEW s \in Sid, Disconnect(s) \/ EndDisconnect(s) \/ CloseRooms(s)
      PROVE  \A d, e \in rooms'[Conn(u)'] : d = e
  <2>1. \A t \in Sid : rooms'[t] \subseteq rooms[t]
    BY <1>0, <1>6 DEF Disconnect, EndDisconnect, CloseRooms, Forget
  <2> QED BY <1>3, <1>6, <2>1 DEF Disconnect, EndDisconnect, CloseRooms, links
<1>7. ASSUME NEW join \in loading, Loaded(join)
      PROVE  \A d, e \in rooms'[Conn(u)'] : d = e
  <2>1. join.sid \in Sid /\ join.doc \in Doc /\ UNCHANGED <<conn, connected>>
    BY <1>7 DEF TypeOK, Join, Loaded, links
  <2>2. EnterRoom(join.sid, join.doc) \/ UNCHANGED <<rooms, mixed>>
    BY <1>7 DEF Loaded
  <2> QED BY <1>2, <1>3, <2>1, <2>2
<1>8. CASE AnswerJoin \/ Send \/ UNCHANGED vars
  <2>1. UNCHANGED <<conn, connected, rooms, mixed>>
    BY <1>8 DEF AnswerJoin, Send, vars, links, serverVars
  <2> QED BY <1>3, <2>1
<1>9. CASE Restart
  BY <1>9 DEF Restart
<1> QED BY <1>4, <1>5, <1>6, <1>7, <1>8, <1>9 DEF Next, ServerNext

(* An installation that cannot encode a document sends none, and no          *)
(* operation either.                                                         *)
LEMMA SilentStep ==
  ASSUME IInv, Numbered, Placed, [Next]_vars, ~encodes'
  PROVE  /\ emits' = <<>>
         /\ \A u \in User : doc'[u] = None
         /\ \A s \in Sid : down'[s] \in Seq(Event)
<1>0. /\ ~encodes /\ emits = <<>> /\ (\A u \in User : doc[u] = None)
      /\ (\A s \in Sid : down[s] \in Seq(Event))
      /\ down \in [Sid -> Seq(Packet)] /\ conn \in [User -> Nat]
      /\ doc \in [User -> Doc \cup {None}] /\ TypeOK
  BY DEF Placed, IInv, TypeOK, Packet, Next, ServerNext, Serve, Disconnect, EndDisconnect,
         CloseRooms, Loaded, AnswerJoin, Send, Restart, ClientNext, Connect, Drop, Leave,
         ApplyOperation, Receive, EmitJoin, LockDocument, installation, vars
<1> DEFINE Silent == /\ emits' = <<>>
                     /\ \A u \in User : doc'[u] = None
                     /\ \A s \in Sid : down'[s] \in Seq(Event)
<1>a. <<>> \in Seq(Event)
  BY EmptyIsSeq
<1>1. ASSUME UNCHANGED <<emits, doc, down>> PROVE Silent
  BY <1>0, <1>1
<1>2. ASSUME NEW s \in Sid, NEW d, EnterRoom(s, d) PROVE down' = down
  BY <1>0, <1>2 DEF EnterRoom, Answer
<1>3. ASSUME NEW s \in Sid, Serve(s), UNCHANGED clientVars PROVE Silent
  <2> DEFINE r == Head(up[s])
  <2>1. doc' = doc /\ (r.type = "operation" => r.op \in Op)
    <3>1. r \in MadeRequest
      BY <1>3, HeadTailProperties DEF Serve, IInv
    <3> QED BY <1>3, <3>1 DEF MadeRequest, Made, clientVars
  <2> HIDE DEF r
  <2>2. CASE JoinDocument(s, r.doc)
    <3>1. emits' = emits /\ down' = down
      BY <1>2, <2>2 DEF JoinDocument
    <3> QED BY <1>1, <2>1, <3>1
  <2>3. CASE r.type = "operation" /\ ProcessOperation(s, r.doc, r.op)
    <3> DEFINE a == [type |-> "success", op |-> r.op]
    <3>1. emits' = emits /\ (down' = down \/ down' = Sent(s, a))
      BY <1>0, <2>3 DEF ProcessOperation
    <3>2. CASE down' = down
      BY <1>1, <2>1, <3>1, <3>2
    <3>3. CASE down' = Sent(s, a)
      <4>1. a \in Event
        BY <2>1, <2>3 DEF Event
      <4> HIDE DEF a
      <4>2. down[s] \in Seq(Event)
        BY <1>0
      <4>3. Append(down[s], a) \in Seq(Event)
        BY <4>1, <4>2, AppendProperties
      <4>4. \A t \in Sid : down'[t] = down[t] \/ (t = s /\ down'[t] = Append(down[s], a))
        BY <1>0, <3>3 DEF Sent
      <4>5. \A t \in Sid : down'[t] \in Seq(Event)
        BY <1>0, <4>3, <4>4
      <4> QED BY <1>0, <2>1, <3>1, <4>5
    <3> QED BY <3>1, <3>2, <3>3
  <2> QED BY <1>1, <1>3, <2>1, <2>2, <2>3 DEF Serve, r, LeaveDocument, DocumentLock
<1>4. ASSUME NEW join \in loading, Loaded(join), UNCHANGED clientVars PROVE Silent
  <2>1. join.sid \in Sid
    BY <1>0 DEF TypeOK, Join
  <2>2. UNCHANGED <<emits, doc, down>>
    BY <1>2, <1>4, <2>1 DEF Loaded, clientVars
  <2> QED BY <1>1, <2>2
<1>5. CASE UNCHANGED clientVars /\ (AnswerJoin \/ Send)
  <2>1. UNCHANGED <<emits, doc, down>>
    BY <1>0, <1>5 DEF AnswerJoin, Send, Answer, clientVars
  <2> QED BY <1>1, <2>1
<1>6. ASSUME NEW s \in Sid, Disconnect(s) \/ EndDisconnect(s) \/ CloseRooms(s),
             UNCHANGED clientVars
      PROVE  Silent
  <2>1. UNCHANGED <<emits, doc, down>>
    BY <1>6 DEF Disconnect, EndDisconnect, CloseRooms, clientVars
  <2> QED BY <1>1, <2>1
<1>7. CASE Restart /\ UNCHANGED clientVars
  BY <1>0, <1>7, <1>a DEF Restart, clientVars
<1>8. ASSUME NEW u \in User, Drop(u) PROVE Silent
  <2>1. emits' = emits /\ doc' = doc /\ down' = [down EXCEPT ![<<u, conn[u]>>] = <<>>]
    BY <1>8 DEF Drop, clientVars
  <2>2. \A s \in Sid : down'[s] = down[s] \/ down'[s] = <<>>
    BY <1>0, <2>1
  <2> QED BY <1>0, <1>a, <2>1, <2>2
<1>9. ASSUME NEW u \in User, Leave(u) PROVE Silent
  <2>1. emits' = emits /\ down' = down /\ doc' = [doc EXCEPT ![u] = None]
    BY <1>9 DEF Leave, serverVars
  <2> QED BY <1>0, <2>1
<1>10. ASSUME NEW u \in User, Receive(u) PROVE Silent
  <2> DEFINE s == <<u, conn[u]>>
  <2>1. /\ emits' = emits /\ down[s] # <<>> /\ down' = [down EXCEPT ![s] = Tail(@)]
        /\ doc' = doc \/ Head(down[s]).type = "document"
    BY <1>10 DEF Receive, serverVars, TakeDocument, HandleRemoteOperation, TakeSuccess
  <2>2. s \in Sid
    BY <1>0, <1>10, ForeseenIs DEF Receive, Conn
  <2>3. down[s] \in Seq(Event)
    BY <1>0, <2>2
  <2>4. Head(down[s]) \in Event /\ Tail(down[s]) \in Seq(Event)
    BY <2>1, <2>3, HeadTailProperties
  <2>5. doc' = doc /\ \A t \in Sid : down'[t] = down[t] \/ (t = s /\ down'[t] = Tail(down[s]))
    BY <1>0, <2>1, <2>4 DEF Event
  <2> HIDE DEF s
  <2>6. \A t \in Sid : down'[t] \in Seq(Event)
    BY <1>0, <2>4, <2>5
  <2> QED BY <1>0, <2>1, <2>5, <2>6
<1>11. ASSUME NEW u \in User, ClientNext(u), ~Drop(u), ~Leave(u), ~Receive(u) PROVE Silent
  <2>1. UNCHANGED <<emits, doc, down>>
    BY <1>11 DEF ClientNext, Connect, ApplyOperation, EmitJoin, LockDocument, serverVars,
                 clientVars
  <2> QED BY <1>1, <2>1
<1>12. CASE UNCHANGED vars
  BY <1>1, <1>12 DEF vars, serverVars, clientVars
<1> QED BY <1>3, <1>4, <1>5, <1>6, <1>7, <1>8, <1>9, <1>10, <1>11, <1>12 DEF Next, ServerNext

LEMMA PlacedStep ==
  ASSUME IInv, IInv', Numbered, Placed, [Next]_vars
  PROVE  Placed'
<1>1. TypeOK /\ TypeOK'
  BY DEF IInv
<1>2. /\ \A s \in sessions' : s[2] <= conn'[s[1]]
      /\ \A join \in loading' : join.sid[2] <= conn'[join.sid[1]]
      /\ \A s \in Sid : rooms'[s] # {} => s[2] <= conn'[s[1]]
  BY <1>1, OpenedStep
<1>3. ASSUME NEW u \in User, connected'[u], Conn(u)' \notin mixed'
      PROVE  \A d, e \in rooms'[Conn(u)'] : d = e
  BY <1>1, <1>3, OneRoomStep
<1>4. ~encodes' => /\ emits' = <<>>
                   /\ \A u \in User : doc'[u] = None
                   /\ \A s \in Sid : down'[s] \in Seq(Event)
  BY SilentStep
<1> QED BY <1>2, <1>3, <1>4 DEF Placed

(* A connected client whose connection is in one room, its document's, has   *)
(* been in no other since it last joined and awaits no answer will show that *)
(* document's operations in the server's order once it has read what is on   *)
(* its way and what the server has emitted, one stretch of them perhaps      *)
(* twice: the document that answers a join holds what was applied while the  *)
(* join awaited its emit, and the room, which the connection entered before  *)
(* that, is sent it as well (join_document, join_document_internal,          *)
(* process_operation).                                                       *)
THEOREM RoomsSeeTheirLog == Spec => []RoomSeesLog
<1> DEFINE Seen == \A u \in User : Sees(u) /\ Kept(u)
<1>1. Init => Placed /\ Seen
  <2> SUFFICES ASSUME Init PROVE Placed /\ Seen
    OBVIOUS
  <2>1. /\ sessions = {} /\ loading = {} /\ emits = <<>> /\ doc = [u \in User |-> None]
        /\ rooms = [s \in Sid |-> {}] /\ down = [s \in Sid |-> <<>>]
        /\ connected = [u \in User |-> FALSE]
    BY DEF Init, ServerInit
  <2> QED BY <2>1, EmptyIsSeq DEF Placed, Sees, Kept
<1>2. IInv /\ Numbered /\ Placed /\ Seen /\ [Next]_vars => (Placed /\ Seen)'
  <2> SUFFICES ASSUME IInv, Numbered, Placed, Seen, [Next]_vars
               PROVE  Placed' /\ Seen'
    OBVIOUS
  <2>1. IInv' /\ Numbered'
    BY NextIInv, NumberedStep DEF IInv
  <2> QED BY <2>1, PlacedStep, SeesStep
<1>3. IInv /\ Numbered /\ Seen => RoomSeesLog
  <2> SUFFICES ASSUME TypeOK, Numbered, NEW u \in User, Sees(u), connected[u],
                      Conn(u) \notin mixed, Answered(Conn(u)), Foreseen(u).doc # None,
                      rooms[Conn(u)] = {Foreseen(u).doc}
               PROVE  \E j \in 0..Len(operations[Foreseen(u).doc]) : \E i \in 0..j :
                        Foreseen(u).view = Repeating(operations[Foreseen(u).doc], i, j)
    BY DEF RoomSeesLog, IInv, Conn
  <2>1. operations[Foreseen(u).doc] \in Seq(Op)
    BY ForeseenIs DEF TypeOK, Shown
  <2> QED BY <2>1, RepeatsIs DEF Sees
<1> HIDE DEF Seen
<1> QED BY EditsInvariance, <1>1, <1>2, <1>3, PTL DEF Spec
=============================================================================
