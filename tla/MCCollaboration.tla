-------------------------- MODULE MCCollaboration --------------------------
(***************************************************************************)
(* Two engineers, one of whom reconnects once, two documents, two          *)
(* operations, a lock and a restart.  All of it at once is out of TLC's    *)
(* reach, so a run explores the behaviours whose extras together cost at   *)
(* most Budget.  The constraint stops only steps of users and faults: what *)
(* it cuts off is never a step that fairness demands.  The first engineer  *)
(* acts while something else is under way, the second when nothing is.     *)
(***************************************************************************)
EXTENDS Collaboration, FiniteSets, TLC

CONSTANTS u1, u2, d1, Budget

MCUser == {u1, u2}
MCLocker == {u2}
MCMaxConnections == [u \in MCUser |-> IF u = u1 THEN 2 ELSE 1]
MCMaxInFlight == [u \in MCUser |-> IF u = u1 THEN 2 ELSE 1]

One(P) == IF P THEN 1 ELSE 0
Asked(P(_)) == \E s \in Sid : \E i \in DOMAIN up[s] : P(up[s][i])
Broken ==
  restarts = 0 /\ (conn[u1] = 2 \/ (conn[u1] = 1 /\ ~connected[u1]))
Locking ==
  \/ \E d \in Doc : lockedBy[d] # None
  \/ Asked(LAMBDA r : r.type \in {"lock", "unlock"})
SecondDocument ==
  documents \ {d1} # {} \/ Asked(LAMBDA r : r.doc # d1)

Extras ==
    One(redis) + One(Broken)
  + 2 * (restarts + One(Locking) + One(SecondDocument)
         + One(Cardinality({op \in Op : author[op] # None}) > 1))
FewExtras == Extras <= Budget

(* The installation as the code makes it: no codec, and a Redis URL by     *)
(* default.                                                                *)
Committed == redis = TRUE /\ encodes = FALSE
CommittedSpec == Committed /\ Init /\ [][Next]_vars
=============================================================================
