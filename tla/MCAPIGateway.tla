---------------------------- MODULE MCAPIGateway ----------------------------
(***************************************************************************)
(* One service behind one route, two callers.  A behaviour that fills the  *)
(* route's limit has no outage; the constraint stops only steps of callers *)
(* and of the environment.                                                 *)
(***************************************************************************)
EXTENDS APIGateway

CONSTANTS s1, r1, Budget

MCBackends == [r \in {r1} |-> {s1}]

One(P) == IF P THEN 1 ELSE 0
Passes == passed[r1][0] + passed[r1][1]
Registered ==
  \/ registered # Service \/ crossed # {}
  \/ \E c \in Caller : call[c] # Idle /\ ~call[c].current
Extras ==
  One(outages > 0 \/ pinged # Service \/ served # Service) + One(Registered) + Min({Passes, 2})
FewExtras == Extras <= Budget
=============================================================================
