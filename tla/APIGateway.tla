----------------------------- MODULE APIGateway -----------------------------
(***************************************************************************)
(* The gateway (APIGateway of lib/services/ServiceRegistry.ts) in front of *)
(* the registry: a route's rate limit, the choice of an available service  *)
(* and the call.  useMicroservices also hands callService to components.   *)
(***************************************************************************)
EXTENDS ServiceRegistry, Functions

CONSTANTS Route, Backends,
          Requests, Window   \* rateLimit of every route, the window in ticks

ASSUME GatewayAssumption ==
  /\ Backends \in [Route -> SUBSET Service]
  /\ Requests \in Nat \ {0} /\ Window \in Nat \ {0}

Past == [count |-> 0, left |-> -1]   \* no limiter, or one whose window is over
Limiter == [count : 0..Requests, left : -1..Window]

VARIABLES
  limiter,   \* rateLimiters: count, what is left to resetTime
  passed     \* how many requests passed the limit, by age up to Window

vars == <<registryVars, limiter, passed>>

(* checkRateLimit of a request that passes, and time: now > resetTime ends *)
(* a window.                                                               *)
CheckRateLimit(r) ==
  /\ limiter[r] = Past \/ limiter[r].count < Requests
  /\ limiter' = [limiter EXCEPT ![r] =
                   IF @ = Past THEN [count |-> 1, left |-> Window]
                   ELSE [count |-> @.count + 1, left |-> @.left]]
  /\ passed' = [passed EXCEPT ![r][0] = @ + 1]

(* routeRequest; a request over the limit changes nothing.                 *)
RouteRequest(c, r) ==
  /\ call[c] = Idle
  /\ CheckRateLimit(r)
  /\ \/ \E s \in Backends[r] : Available(s) /\ CallService(c, s)
     \/ (\A s \in Backends[r] : ~Available(s)) /\ UNCHANGED registryVars

OlderEarly(l) ==   \* mutant: now >= resetTime
  IF l.left <= 1 THEN Past ELSE [l EXCEPT !.left = @ - 1]
Older(l) == IF l.left <= 0 THEN Past ELSE [l EXCEPT !.left = @ - 1]
Tick ==
  /\ TickBreakers
  /\ limiter' = [r \in Route |-> Older(limiter[r])]
  /\ passed' = [r \in Route |-> [age \in 0..Window |->
                                   IF age = 0 THEN 0 ELSE passed[r][age - 1]]]

Init ==
  /\ RegistryInit
  /\ limiter = [r \in Route |-> Past]
  /\ passed = [r \in Route |-> [age \in 0..Window |-> 0]]

Registry ==
  \/ \E s \in Service :
       \/ RegisterService(s) \/ UnregisterService(s)
       \/ PerformHealthCheck(s) \/ Fail(s) \/ Recover(s)
       \/ \E c \in Caller : CallService(c, s)
  \/ \E c \in Caller : Finish(c)

Next ==
  \/ Registry /\ UNCHANGED <<limiter, passed>>
  \/ \E c \in Caller, r \in Route : RouteRequest(c, r)
  \/ Tick

Spec == Init /\ [][Next]_vars

(* Time passes, and while every registered service's ping is answered the  *)
(* timer's rounds get to each of them; a round waits for each ping in turn *)
(* and fetch knows no timeout, so nothing is assumed of other rounds, nor  *)
(* of callers, that calls end, or of when answers stop.                    *)
CheckInRound(s) ==
  registered \subseteq pinged /\ PerformHealthCheck(s) /\ UNCHANGED <<limiter, passed>>
Fairness == WF_vars(Tick) /\ \A s \in Service : WF_vars(CheckInRound(s))

FairSpec == Spec /\ Fairness
-----------------------------------------------------------------------------
(* Types of the registry, the gateway and the calls; a closed breaker has  *)
(* counted fewer failures than its threshold.                              *)
TypeOK ==
  /\ pinged \subseteq Service /\ served \subseteq Service /\ outages \in 0..MaxOutages
  /\ registered \subseteq Service /\ crossed \subseteq Service
  /\ health \in [Service -> [errors : 0..10, failed : SUBSET (1..5),
                             status : {"healthy", "degraded", "unhealthy"}]]
  /\ breaker \in [Service -> [state : {"closed", "open", "half-open"},
                              failures : 0..Threshold, left : 0..Timeout]]
  /\ \A s \in Service : breaker[s].state = "closed" => breaker[s].failures < Threshold
  /\ call \in [Caller -> Calls \cup {Idle}]
  /\ limiter \in [Route -> Limiter]
  /\ passed \in [Route -> [0..Window -> Nat]]

(* A breaker that opens leaves its service out of the rotation at once:    *)
(* with a threshold of five or more the failures it counted have made the  *)
(* service unhealthy (CircuitBreaker.onFailure, updateServiceHealth), as   *)
(* long as no result of an earlier registration was booked in between.     *)
TrippedLeavesRotation ==
  [][\A s \in Service :
       (/\ breaker[s].state # "open" /\ breaker'[s].state = "open"
        /\ s \notin crossed)
       => health'[s].status = "unhealthy"]_vars

(* However requests are spaced, a route passes less than twice its limit   *)
(* in any period of a window's length, its ends included (checkRateLimit). *)
LessThanTwiceTheLimit == \A r \in Route : SumFunction(passed[r]) < 2 * Requests

(* If from some time on the pings of all registered services are answered, *)
(* a service that stays registered is found again and again, however many  *)
(* of its calls fail or never end and whether its breaker is open; if also *)
(* every request is answered with success, it is found from some time on.  *)
(* A service that answers its requests but not at its URL without the port *)
(* is promised nothing (pingService, performHealthCheck, callService).     *)
Recovers ==
  \A s \in Service :
    <>[](s \in registered /\ registered \subseteq pinged)
      => /\ []<>Available(s)
         /\ <>[](s \in served) => <>[]Available(s)
=============================================================================
