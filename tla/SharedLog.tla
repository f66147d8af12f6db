----------------------------- MODULE SharedLog -----------------------------
(***************************************************************************)
(* What the collaboration promises an editor: every document is one log    *)
(* that only grows at its end and holds nothing but edits somebody made,   *)
(* and an edit stays with its author until a log holds it or the author    *)
(* leaves.  A log may hold an edit more than once: delivery is             *)
(* at-least-once.                                                          *)
(***************************************************************************)
EXTENDS Sequences, Functions

CONSTANTS User, Doc, Op

VARIABLES log, made, pending

logVars == <<log, made, pending>>

LogInit ==
  /\ log = [d \in Doc |-> <<>>]
  /\ made = {}
  /\ pending = [u \in User |-> {}]

Make(u, op) ==
  /\ op \notin made
  /\ made' = made \cup {op}
  /\ pending' = [pending EXCEPT ![u] = @ \cup {op}]
  /\ UNCHANGED log

Record(d, op) ==
  /\ op \in made
  /\ log' = [log EXCEPT ![d] = Append(@, op)]
  /\ UNCHANGED <<made, pending>>

Settle(u, op) ==
  /\ \E d \in Doc : op \in Range(log[d])
  /\ pending' = [pending EXCEPT ![u] = @ \ {op}]
  /\ UNCHANGED <<log, made>>

Abandon(u) ==
  /\ pending' = [pending EXCEPT ![u] = {}]
  /\ UNCHANGED <<log, made>>

LogNext ==
  \/ \E u \in User : Abandon(u) \/ \E op \in Op : Make(u, op) \/ Settle(u, op)
  \/ \E d \in Doc, op \in Op : Record(d, op)

LogSpec == LogInit /\ [][LogNext]_logVars
=============================================================================
