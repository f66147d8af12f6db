-------------------------- MODULE ServiceRegistry --------------------------
(***************************************************************************)
(* The registry of services (lib/services/ServiceRegistry.ts): health from *)
(* pings and from the outcome of calls, and a circuit breaker per service. *)
(* Times are relative: a breaker holds what is left of its timeout.        *)
(* Error rates are tenths, as the code changes them by 0.1.                *)
(***************************************************************************)
EXTENDS Integers, FiniteSetsExt

CONSTANTS Service, Caller,
          Idle,        \* a caller without a call
          Threshold,   \* circuitBreakerThreshold
          Timeout,     \* of a circuit breaker, in ticks of the clock
          MaxOutages   \* bound: how often answers stop

\* A call in progress: whether every request succeeded when it began, and
\* whether the registration it was made with is still the service's.
Calls == [service : Service, began : BOOLEAN, current : BOOLEAN]

ASSUME RegistryAssumption ==
  /\ Threshold \in 1..10 /\ Timeout \in Nat /\ MaxOutages \in Nat
  /\ Idle \notin Calls

VARIABLES
  pinged,       \* services whose ping address answers with a 2xx status
  served,       \* services of which every request is answered so, in time
  outages,      \* how often a service has left one of these sets
  registered,   \* keys of services, circuitBreakers
  health,       \* health of each service: errorRate, failed recent checks, status
  breaker,      \* circuit breaker: state, failureCount, what is left to nextAttempt
  call,         \* callService in progress, per caller
  crossed       \* services that got a result of an earlier registration

environment == <<pinged, served, outages>>
registryVars == <<environment, registered, health, breaker, call, crossed>>

Healthy == [errors |-> 0, failed |-> {}, status |-> "healthy"]
Closed == [state |-> "closed", failures |-> 0, left |-> 0]

(* discoverServices.                                                       *)
Available(s) == s \in registered /\ health[s].status # "unhealthy"

(* registerService, also of an id that is registered; calls in progress    *)
(* keep the old breaker.                                                   *)
Registration(s, services) ==
  /\ registered' = services
  /\ health' = [health EXCEPT ![s] = Healthy]
  /\ breaker' = [breaker EXCEPT ![s] = Closed]
  /\ call' = [c \in Caller |->
                IF call[c] # Idle /\ call[c].service = s
                THEN [call[c] EXCEPT !.current = FALSE] ELSE call[c]]
  /\ crossed' = crossed \ {s}
  /\ UNCHANGED environment
RegisterService(s) == Registration(s, registered \cup {s})
UnregisterService(s) == s \in registered /\ Registration(s, registered \ {s})

(* updateServiceHealth.                                                    *)
UpdateServiceHealth(h, ok) ==
  LET errors == IF ok THEN Max({0, h.errors - 1}) ELSE Min({10, h.errors + 1})
  IN [errors |-> errors,
      failed |-> h.failed,
      status |-> IF errors < 1 THEN "healthy"
                 ELSE IF errors < 5 THEN "degraded" ELSE "unhealthy"]

(* updateServiceHealthStatus: the last five checks, newest first; a check  *)
(* not made yet counts as passed.                                          *)
UpdateServiceHealthStatus(h, ok) ==
  LET failed == {i + 1 : i \in h.failed \ {5}} \cup (IF ok THEN {} ELSE {1})
  IN [h EXCEPT !.failed = failed,
               !.status = IF failed = {} THEN "healthy"
                          ELSE IF Cardinality(failed) < 3 THEN "degraded"
                          ELSE "unhealthy"]

(* CircuitBreaker: onSuccess, onFailure (counted up to the threshold), and *)
(* what execute does before the operation.                                 *)
OnSuccessKeepingCount(b) ==   \* mutant: failureCount is not reset
  [b EXCEPT !.state = IF @ = "half-open" THEN "closed" ELSE @]
OnSuccess(b) ==
  [state |-> IF b.state = "half-open" THEN "closed" ELSE b.state,
   failures |-> 0,
   left |-> b.left]
OnFailureLate(b) ==   \* mutant: more than the threshold is needed
  IF b.failures + 1 > Threshold
  THEN [state |-> "open", failures |-> Threshold, left |-> Timeout]
  ELSE [b EXCEPT !.failures = @ + 1]
OnFailure(b) ==
  IF b.failures + 1 >= Threshold
  THEN [state |-> "open", failures |-> Threshold, left |-> Timeout]
  ELSE [b EXCEPT !.failures = @ + 1]
Admits(b) == b.state # "open" \/ b.left = 0
Admitted(b) == [b EXCEPT !.state = IF @ = "open" THEN "half-open" ELSE @]

(* callService up to the operation; a call the breaker refuses counts as a *)
(* failure of the service.                                                 *)
CallService(c, s) ==
  /\ s \in registered
  /\ call[c] = Idle
  /\ IF Admits(breaker[s])
     THEN /\ breaker' = [breaker EXCEPT ![s] = Admitted(@)]
          /\ call' = [call EXCEPT ![c] = [service |-> s, began |-> s \in served,
                                          current |-> TRUE]]
          /\ UNCHANGED health
     ELSE /\ health' = [health EXCEPT ![s] = UpdateServiceHealth(@, FALSE)]
          /\ UNCHANGED <<breaker, call>>
  /\ UNCHANGED <<environment, registered, crossed>>

(* The operation ends, if it does: executeRequest fails at its timeout and *)
(* on every status but 2xx, an operation of a component has no timeout and *)
(* fails as it likes.  callService books the result: in the breaker the    *)
(* call began with, and in the health of whoever has the id now.           *)
Finish(c) ==
  /\ call[c] # Idle
  /\ call' = [call EXCEPT ![c] = Idle]
  /\ LET s == call[c].service IN
     \E ok \in IF call[c].began /\ s \in served THEN {TRUE} ELSE BOOLEAN :
       /\ breaker' = IF call[c].current
                     THEN [breaker EXCEPT ![s] = IF ok THEN OnSuccess(@)
                                                 ELSE OnFailure(@)]
                     ELSE breaker
       /\ health' = IF s \in registered
                    THEN [health EXCEPT ![s] = UpdateServiceHealth(@, ok)]
                    ELSE health
       /\ crossed' = IF call[c].current THEN crossed ELSE crossed \cup {s}
  /\ UNCHANGED <<environment, registered>>

(* performHealthCheck of the timer; the ping leaves the port out, so what  *)
(* answers it need not be the service that requests reach.                 *)
PerformHealthCheckOfAvailable(s) ==   \* mutant: unhealthy services are skipped
  /\ Available(s)
  /\ health' = [health EXCEPT ![s] = UpdateServiceHealthStatus(@, s \in pinged)]
  /\ UNCHANGED <<environment, registered, breaker, call, crossed>>
PerformHealthCheck(s) ==
  /\ s \in registered
  /\ health' = [health EXCEPT ![s] = UpdateServiceHealthStatus(@, s \in pinged)]
  /\ UNCHANGED <<environment, registered, breaker, call, crossed>>

(* Pings or requests of a service stop being answered, and are again.      *)
Fail(s) ==
  /\ outages < MaxOutages /\ outages' = outages + 1
  /\ \/ s \in pinged /\ pinged' = pinged \ {s} /\ UNCHANGED served
     \/ s \in served /\ served' = served \ {s} /\ UNCHANGED pinged
  /\ UNCHANGED <<registered, health, breaker, call, crossed>>
Recover(s) ==
  /\ \/ s \notin pinged /\ pinged' = pinged \cup {s} /\ UNCHANGED served
     \/ s \notin served /\ served' = served \cup {s} /\ UNCHANGED pinged
  /\ UNCHANGED <<outages, registered, health, breaker, call, crossed>>

(* The clock.                                                              *)
TickBreakers ==
  /\ breaker' = [s \in Service |-> [breaker[s] EXCEPT !.left = Max({0, @ - 1})]]
  /\ UNCHANGED <<environment, registered, health, call, crossed>>

RegistryInit ==
  /\ pinged \in SUBSET Service /\ served \in SUBSET Service
  /\ outages = 0
  /\ registered = Service
  /\ health = [s \in Service |-> Healthy]
  /\ breaker = [s \in Service |-> Closed]
  /\ call = [c \in Caller |-> Idle]
  /\ crossed = {}
=============================================================================
