--------------------------- MODULE APIGatewayProofs ---------------------------
(***************************************************************************)
(* For any services, callers, routes, thresholds, limits and times: types, *)
(* that a breaker that opens leaves its service out of the rotation, and   *)
(* that no spacing of requests doubles a route's limit.  The argument for  *)
(* the second: until a result of an earlier registration is booked, every  *)
(* failure a breaker has counted is also in the service's error rate.      *)
(***************************************************************************)
EXTENDS APIGateway, FoldTheorems

Health == [errors : 0..10, failed : SUBSET (1..5),
           status : {"healthy", "degraded", "unhealthy"}]
Breaker == [state : {"closed", "open", "half-open"},
            failures : 0..Threshold, left : 0..Timeout]
Sound(b) == b \in Breaker /\ (b.state = "closed" => b.failures < Threshold)

\* Of an uncrossed service, the error rate shows every failure counted.
FailuresShow ==
  \A s \in registered \ crossed : breaker[s].failures <= health[s].errors
\* A call made with the present registration is of a registered service.
CurrentRegistered ==
  \A c \in Caller :
    call[c] # Idle => (call[c].current => call[c].service \in registered)

IInv == TypeOK /\ FailuresShow /\ CurrentRegistered

-----------------------------------------------------------------------------
LEMMA MaxOfTwo ==
  ASSUME NEW a \in Int, NEW b \in Int
  PROVE  Max({a, b}) = IF a >= b THEN a ELSE b
<1>1. \A x \in {a, b} : (\A y \in {a, b} : x >= y) => x = IF a >= b THEN a ELSE b
  OBVIOUS
<1>2. \E x \in {a, b} : \A y \in {a, b} : x >= y
  OBVIOUS
<1> QED BY <1>1, <1>2 DEF Max

LEMMA MinOfTwo ==
  ASSUME NEW a \in Int, NEW b \in Int
  PROVE  Min({a, b}) = IF a <= b THEN a ELSE b
<1>1. \A x \in {a, b} : (\A y \in {a, b} : x <= y) => x = IF a <= b THEN a ELSE b
  OBVIOUS
<1>2. \E x \in {a, b} : \A y \in {a, b} : x <= y
  OBVIOUS
<1> QED BY <1>1, <1>2 DEF Min

(* What booking a result does to a service's health.                         *)
LEMMA BookedHealth ==
  ASSUME NEW h \in Health, NEW ok \in BOOLEAN
  PROVE  /\ UpdateServiceHealth(h, ok) \in Health
         /\ ~ok => UpdateServiceHealth(h, ok).errors
                     = IF h.errors = 10 THEN 10 ELSE h.errors + 1
         /\ UpdateServiceHealth(h, ok).errors >= 5
              => UpdateServiceHealth(h, ok).status = "unhealthy"
<1> DEFINE e == IF ok THEN Max({0, h.errors - 1}) ELSE Min({10, h.errors + 1})
           st == IF e < 1 THEN "healthy" ELSE IF e < 5 THEN "degraded" ELSE "unhealthy"
<1>1. h.errors \in 0..10
  BY DEF Health
<1>2. /\ Max({0, h.errors - 1}) = IF 0 >= h.errors - 1 THEN 0 ELSE h.errors - 1
      /\ Min({10, h.errors + 1}) = IF 10 <= h.errors + 1 THEN 10 ELSE h.errors + 1
  BY <1>1, MaxOfTwo, MinOfTwo
<1>3. e \in 0..10 /\ (~ok => e = IF h.errors = 10 THEN 10 ELSE h.errors + 1)
  BY <1>1, <1>2
<1>4. UpdateServiceHealth(h, ok) = [errors |-> e, failed |-> h.failed, status |-> st]
  BY DEF UpdateServiceHealth
<1>5. st \in {"healthy", "degraded", "unhealthy"} /\ (e >= 5 => st = "unhealthy")
  BY <1>3
<1> HIDE DEF e, st
<1>6. h.failed \in SUBSET (1..5)
  BY DEF Health
<1> QED BY <1>3, <1>4, <1>5, <1>6 DEF Health

LEMMA CheckedHealth ==
  ASSUME NEW h \in Health, NEW ok \in BOOLEAN
  PROVE  /\ UpdateServiceHealthStatus(h, ok) \in Health
         /\ UpdateServiceHealthStatus(h, ok).errors = h.errors
<1>1. {i + 1 : i \in h.failed \ {5}} \cup (IF ok THEN {} ELSE {1}) \in SUBSET (1..5)
  BY DEF Health
<1> QED BY <1>1 DEF UpdateServiceHealthStatus, Health

LEMMA BookedBreaker ==
  ASSUME NEW b, Sound(b)
  PROVE  /\ Sound(OnSuccess(b)) /\ OnSuccess(b).failures = 0
         /\ OnSuccess(b).state = "open" => b.state = "open"
         /\ Sound(OnFailure(b)) /\ OnFailure(b).failures <= b.failures + 1
         /\ OnFailure(b).state = "open" /\ b.state # "open"
              => OnFailure(b).failures = Threshold
<1>1. Threshold \in 1..10 /\ Timeout \in Nat
  BY RegistryAssumption
<1>2. /\ b \in [state : {"closed", "open", "half-open"},
                failures : 0..Threshold, left : 0..Timeout]
      /\ b.state = "closed" => b.failures < Threshold
  BY DEF Sound, Breaker
<1>3. Sound(OnSuccess(b)) /\ OnSuccess(b).failures = 0
      /\ (OnSuccess(b).state = "open" => b.state = "open")
  <2> DEFINE st == IF b.state = "half-open" THEN "closed" ELSE b.state
  <2>1. OnSuccess(b) = [state |-> st, failures |-> 0, left |-> b.left]
    BY DEF OnSuccess
  <2>2. /\ st \in {"closed", "open", "half-open"} /\ (st = "open" => b.state = "open")
        /\ b.left \in 0..Timeout /\ 0 < Threshold /\ 0 \in 0..Threshold
    BY <1>1, <1>2
  <2> HIDE DEF st
  <2> QED BY <2>1, <2>2 DEF Sound, Breaker
<1>4. CASE b.failures + 1 >= Threshold
  BY <1>1, <1>2, <1>3, <1>4 DEF Sound, Breaker, OnFailure
<1>5. CASE ~(b.failures + 1 >= Threshold)
  BY <1>1, <1>2, <1>3, <1>5 DEF Sound, Breaker, OnFailure
<1> QED BY <1>4, <1>5

LEMMA AdmittedBreaker ==
  ASSUME NEW b, Sound(b)
  PROVE  /\ Sound(Admitted(b)) /\ Admitted(b).failures = b.failures
         /\ Admitted(b).state = "open" => b.state = "open"
BY DEF Sound, Breaker, Admitted

LEMMA Typed ==
  ASSUME TypeOK
  PROVE  /\ health \in [Service -> Health] /\ breaker \in [Service -> Breaker]
         /\ \A s \in Service : Sound(breaker[s])
BY DEF TypeOK, Health, Breaker, Sound

-----------------------------------------------------------------------------
(* The registry's actions: types, and what becomes of the other invariants.  *)
LEMMA RegistrationStep ==
  ASSUME IInv, NEW s \in Service, NEW services \in SUBSET Service,
         services \ {s} = registered \ {s}, Registration(s, services),
         UNCHANGED <<limiter, passed>>
  PROVE  IInv'
<1>0. TypeOK
  BY DEF IInv
<1>1. Healthy \in Health /\ Sound(Closed)
  BY RegistryAssumption DEF Healthy, Health, Closed, Sound, Breaker
<1>2. /\ health' = [health EXCEPT ![s] = Healthy]
      /\ breaker' = [breaker EXCEPT ![s] = Closed]
      /\ registered' = services /\ crossed' = crossed \ {s} /\ UNCHANGED environment
  BY DEF Registration
<1>3. call' = [c \in Caller |-> IF call[c] # Idle /\ call[c].service = s
                                THEN [call[c] EXCEPT !.current = FALSE] ELSE call[c]]
  BY DEF Registration
<1>4. \A c \in Caller : call[c] \in Calls \cup {Idle}
  BY <1>0 DEF TypeOK
<1>5. \A c \in Caller :
        /\ call'[c] \in Calls \cup {Idle}
        /\ call'[c] # Idle /\ call'[c].current
             => /\ call[c] # Idle /\ call[c].current /\ call'[c].service = call[c].service
                /\ call[c].service # s
  <2> TAKE c \in Caller
  <2>1. CASE call[c] # Idle /\ call[c].service = s
    <3>1. call'[c] = [service |-> s, began |-> call[c].began, current |-> FALSE]
      BY <1>3, <1>4, <2>1 DEF Calls
    <3> QED BY <1>4, <2>1, <3>1 DEF Calls
  <2>2. CASE ~(call[c] # Idle /\ call[c].service = s)
    BY <1>3, <1>4, <2>2
  <2> QED BY <2>1, <2>2
<1>6. call' \in [Caller -> Calls \cup {Idle}]
  BY <1>3, <1>5
<1>7. /\ health' \in [Service -> Health] /\ breaker' \in [Service -> Breaker]
      /\ \A t \in Service : Sound(breaker'[t])
  BY <1>0, <1>1, <1>2, Typed DEF Sound
<1>8. TypeOK'
  BY <1>0, <1>2, <1>6, <1>7 DEF TypeOK, environment, Health, Breaker, Sound
<1>9. FailuresShow'
  BY <1>0, <1>2, Typed DEF FailuresShow, IInv, Healthy, Closed
<1>10. CurrentRegistered'
  BY <1>2, <1>5 DEF CurrentRegistered, IInv
<1> QED BY <1>8, <1>9, <1>10 DEF IInv

LEMMA CallStep ==
  ASSUME IInv, NEW c \in Caller, NEW s \in Service, CallService(c, s)
  PROVE  /\ health' \in [Service -> Health] /\ breaker' \in [Service -> Breaker]
         /\ \A t \in Service : Sound(breaker'[t])
         /\ call' \in [Caller -> Calls \cup {Idle}]
         /\ FailuresShow' /\ CurrentRegistered'
         /\ \A t \in Service : breaker'[t].state = "open" => breaker[t].state = "open"
         /\ UNCHANGED <<environment, registered, crossed>>
<1>0. TypeOK
  BY DEF IInv
<1>1. s \in registered /\ UNCHANGED <<environment, registered, crossed>>
  BY DEF CallService
<1>2. CASE Admits(breaker[s])
  <2>1. /\ breaker' = [breaker EXCEPT ![s] = Admitted(breaker[s])]
        /\ call' = [call EXCEPT ![c] = [service |-> s, began |-> s \in served,
                                        current |-> TRUE]]
        /\ health' = health
    BY <1>2 DEF CallService
  <2>2. /\ Sound(Admitted(breaker[s])) /\ Admitted(breaker[s]).failures = breaker[s].failures
        /\ Admitted(breaker[s]).state = "open" => breaker[s].state = "open"
    BY <1>0, Typed, AdmittedBreaker
  <2>3. [service |-> s, began |-> s \in served, current |-> TRUE] \in Calls
    BY DEF Calls
  <2>4. call' \in [Caller -> Calls \cup {Idle}]
    BY <1>0, <2>1, <2>3 DEF TypeOK
  <2>5. CurrentRegistered'
    BY <1>0, <1>1, <2>1 DEF CurrentRegistered, IInv, TypeOK
  <2>6. FailuresShow'
    BY <1>0, <1>1, <2>1, <2>2 DEF FailuresShow, IInv, TypeOK
  <2>7. /\ breaker' \in [Service -> Breaker] /\ \A t \in Service : Sound(breaker'[t])
        /\ \A t \in Service : breaker'[t].state = "open" => breaker[t].state = "open"
    BY <1>0, <2>1, <2>2, Typed DEF Sound
  <2> QED BY <1>0, <1>1, <2>1, <2>4, <2>5, <2>6, <2>7, Typed
<1>3. CASE ~Admits(breaker[s])
  <2>1. /\ health' = [health EXCEPT ![s] = UpdateServiceHealth(health[s], FALSE)]
        /\ UNCHANGED <<breaker, call>>
    BY <1>3 DEF CallService
  <2>2. /\ UpdateServiceHealth(health[s], FALSE) \in Health
        /\ UpdateServiceHealth(health[s], FALSE).errors
             = IF health[s].errors = 10 THEN 10 ELSE health[s].errors + 1
    BY <1>0, Typed, BookedHealth
  <2>3. health' \in [Service -> Health] /\ health \in [Service -> Health]
    BY <1>0, <2>1, <2>2, Typed
  <2>4. \A t \in Service : health'[t].errors >= health[t].errors
    <3> TAKE t \in Service
    <3>1. health[t].errors \in 0..10
      BY <2>3 DEF Health
    <3>2. CASE t = s
      <4>1. health'[t].errors = IF health[t].errors = 10 THEN 10 ELSE health[t].errors + 1
        BY <2>1, <2>2, <2>3, <3>2
      <4> QED BY <3>1, <4>1
    <3>3. CASE t # s
      <4>1. health'[t] = health[t]
        BY <2>1, <2>3, <3>3
      <4> QED BY <3>1, <4>1
    <3> QED BY <3>2, <3>3
  <2>5. \A t \in Service : breaker[t].failures \in Int /\ health[t].errors \in Int
                           /\ health'[t].errors \in Int
    BY <1>0, <2>3, Typed, RegistryAssumption DEF Breaker, Health
  <2>6. FailuresShow'
    <3>1. \A t \in registered \ crossed : breaker[t].failures <= health[t].errors
      BY DEF IInv, FailuresShow
    <3>2. registered \subseteq Service /\ registered' = registered /\ crossed' = crossed
          /\ breaker' = breaker
      BY <1>0, <1>1, <2>1 DEF TypeOK
    <3>3. \A t \in registered \ crossed : breaker[t].failures <= health'[t].errors
      <4> TAKE t \in registered \ crossed
      <4>1. /\ t \in Service /\ breaker[t].failures <= health[t].errors
        BY <3>1, <3>2
      <4>2. breaker[t].failures \in Int /\ health[t].errors \in Int
            /\ health'[t].errors \in Int /\ health'[t].errors >= health[t].errors
        BY <2>4, <2>5, <4>1
      <4> QED BY <4>1, <4>2
    <3> QED BY <3>2, <3>3 DEF FailuresShow
  <2>7. CurrentRegistered'
    BY <1>1, <2>1 DEF CurrentRegistered, IInv
  <2> QED BY <1>0, <1>1, <2>1, <2>3, <2>6, <2>7, Typed DEF TypeOK
<1> QED BY <1>2, <1>3

\* A breaker of an uncrossed service that opens in this step.
Opens(t) ==
  breaker[t].state # "open" /\ breaker'[t].state = "open" /\ t \notin crossed

LEMMA FinishStep ==
  ASSUME IInv, NEW c \in Caller, Finish(c)
  PROVE  /\ health' \in [Service -> Health] /\ breaker' \in [Service -> Breaker]
         /\ \A t \in Service : Sound(breaker'[t])
         /\ call' \in [Caller -> Calls \cup {Idle}] /\ crossed' \subseteq Service
         /\ FailuresShow' /\ CurrentRegistered'
         /\ \A t \in Service : Opens(t) /\ Threshold >= 5 => health'[t].status = "unhealthy"
         /\ UNCHANGED <<environment, registered>>
<1> DEFINE s == call[c].service
<1>0. /\ TypeOK /\ Threshold \in 1..10 /\ registered \subseteq Service
      /\ crossed \subseteq Service
      /\ \A t \in registered \ crossed : breaker[t].failures <= health[t].errors
  BY RegistryAssumption DEF IInv, TypeOK, FailuresShow
<1>1. PICK ok \in (IF call[c].began /\ s \in served THEN {TRUE} ELSE BOOLEAN) :
        /\ breaker' = IF call[c].current
                      THEN [breaker EXCEPT ![s] = IF ok THEN OnSuccess(@) ELSE OnFailure(@)]
                      ELSE breaker
        /\ health' = IF s \in registered
                     THEN [health EXCEPT ![s] = UpdateServiceHealth(@, ok)]
                     ELSE health
        /\ crossed' = IF call[c].current THEN crossed ELSE crossed \cup {s}
  BY DEF Finish
<1>2. /\ call[c] # Idle /\ call' = [call EXCEPT ![c] = Idle]
      /\ UNCHANGED <<environment, registered>>
  BY DEF Finish
<1>3. call[c] \in Calls
  BY <1>0, <1>2 DEF TypeOK
<1>4. s \in Service /\ ok \in BOOLEAN /\ (call[c].current => s \in registered)
  <2>1. call[c].service \in Service /\ call[c].began \in BOOLEAN
    BY <1>3 DEF Calls
  <2>2. call[c].current => s \in registered
    BY <1>2 DEF IInv, CurrentRegistered
  <2>3. ok \in BOOLEAN
    BY <1>1
  <2> QED BY <2>1, <2>2, <2>3
<1> HIDE DEF s
<1>5. /\ call' \in [Caller -> Calls \cup {Idle}] /\ CurrentRegistered'
      /\ crossed' \subseteq Service
  BY <1>0, <1>1, <1>2, <1>4 DEF IInv, TypeOK, CurrentRegistered
<1>6. /\ health[s] \in Health /\ breaker[s] \in Breaker /\ Sound(breaker[s])
      /\ health \in [Service -> Health] /\ breaker \in [Service -> Breaker]
      /\ \A t \in Service : Sound(breaker[t])
  BY <1>0, <1>4, Typed
<1>7. /\ UpdateServiceHealth(health[s], ok) \in Health
      /\ Sound(IF ok THEN OnSuccess(breaker[s]) ELSE OnFailure(breaker[s]))
  BY <1>4, <1>6, BookedHealth, BookedBreaker
<1>8. /\ health' \in [Service -> Health] /\ breaker' \in [Service -> Breaker]
      /\ \A t \in Service : Sound(breaker'[t])
  BY <1>1, <1>4, <1>6, <1>7 DEF Sound
<1>9. \A t \in Service \ {s} : health'[t] = health[t] /\ breaker'[t] = breaker[t]
  BY <1>1, <1>4, <1>6
<1>10. health[s].errors \in 0..10 /\ breaker[s].failures \in 0..10
  <2>1. health[s].errors \in 0..10
    BY <1>6 DEF Health
  <2>2. breaker[s].failures \in 0..Threshold
    BY <1>6 DEF Breaker
  <2> QED BY <1>0, <2>1, <2>2
<1>11. CASE ~call[c].current
  <2>1. breaker' = breaker /\ crossed' = crossed \cup {s}
    BY <1>1, <1>11
  <2>2. FailuresShow'
    <3> SUFFICES ASSUME NEW t \in registered \ (crossed \cup {s})
                 PROVE  breaker[t].failures <= health'[t].errors
      BY <1>2, <2>1 DEF FailuresShow
    <3> QED BY <1>0, <1>9
  <2> QED BY <1>2, <1>5, <1>8, <2>1, <2>2 DEF Opens
<1>12. CASE call[c].current /\ ok
  <2>1. /\ breaker'[s] = OnSuccess(breaker[s]) /\ crossed' = crossed
        /\ health'[s] = UpdateServiceHealth(health[s], ok)
    BY <1>1, <1>4, <1>6, <1>12
  <2>2. breaker'[s].failures = 0
        /\ (breaker'[s].state = "open" => breaker[s].state = "open")
    BY <1>6, <2>1, BookedBreaker
  <2>3. health'[s].errors \in 0..10
    BY <1>7, <2>1 DEF Health
  <2>4. FailuresShow'
    <3> SUFFICES ASSUME NEW t \in registered \ crossed
                 PROVE  breaker'[t].failures <= health'[t].errors
      BY <1>2, <2>1 DEF FailuresShow
    <3>1. CASE t = s
      BY <2>2, <2>3, <3>1
    <3>2. CASE t # s
      BY <1>0, <1>9, <3>2
    <3> QED BY <3>1, <3>2
  <2> QED BY <1>2, <1>5, <1>8, <1>9, <2>2, <2>4 DEF Opens
<1>13. CASE call[c].current /\ ~ok
  <2>1. /\ breaker'[s] = OnFailure(breaker[s]) /\ crossed' = crossed
        /\ health'[s] = UpdateServiceHealth(health[s], ok) /\ s \in registered
    BY <1>1, <1>4, <1>6, <1>13
  <2>2. /\ breaker'[s].failures <= breaker[s].failures + 1
        /\ breaker'[s].state = "open" /\ breaker[s].state # "open"
             => breaker'[s].failures = Threshold
        /\ breaker'[s].failures \in 0..10
    <3>1. Sound(OnFailure(breaker[s]))
          /\ OnFailure(breaker[s]).failures <= breaker[s].failures + 1
          /\ (OnFailure(breaker[s]).state = "open" /\ breaker[s].state # "open"
               => OnFailure(breaker[s]).failures = Threshold)
      BY <1>6, BookedBreaker
    <3>2. OnFailure(breaker[s]).failures \in 0..Threshold
      BY <3>1 DEF Sound, Breaker
    <3> QED BY <1>0, <2>1, <3>1, <3>2
  <2>3. /\ health'[s].errors = IF health[s].errors = 10 THEN 10 ELSE health[s].errors + 1
        /\ health'[s].errors >= 5 => health'[s].status = "unhealthy"
    BY <1>4, <1>6, <1>13, <2>1, BookedHealth
  <2>4. s \notin crossed => breaker'[s].failures <= health'[s].errors
    BY <1>0, <1>10, <2>1, <2>2, <2>3
  <2>5. FailuresShow'
    <3> SUFFICES ASSUME NEW t \in registered \ crossed
                 PROVE  breaker'[t].failures <= health'[t].errors
      BY <1>2, <2>1 DEF FailuresShow
    <3>1. CASE t = s
      BY <2>4, <3>1
    <3>2. CASE t # s
      BY <1>0, <1>9, <3>2
    <3> QED BY <3>1, <3>2
  <2>6. Opens(s) /\ Threshold >= 5 => health'[s].status = "unhealthy"
    BY <1>0, <1>10, <2>2, <2>3, <2>4 DEF Opens
  <2>7. \A t \in Service : t # s => ~Opens(t)
    BY <1>9 DEF Opens
  <2> QED BY <1>2, <1>5, <1>8, <2>5, <2>6, <2>7
<1> QED BY <1>4, <1>11, <1>12, <1>13

(* A ping, an outage, the clock.                                             *)
LEMMA PlainStep ==
  ASSUME IInv,
         \/ \E s \in Service : PerformHealthCheck(s) \/ Fail(s) \/ Recover(s)
         \/ TickBreakers
  PROVE  /\ health' \in [Service -> Health] /\ breaker' \in [Service -> Breaker]
         /\ \A t \in Service : Sound(breaker'[t]) /\ ~Opens(t)
         /\ pinged' \subseteq Service /\ served' \subseteq Service /\ outages' \in 0..MaxOutages
         /\ FailuresShow' /\ CurrentRegistered'
         /\ UNCHANGED <<registered, call, crossed>>
<1>0. /\ TypeOK /\ registered \subseteq Service
      /\ \A t \in registered \ crossed : breaker[t].failures <= health[t].errors
      /\ CurrentRegistered
  BY DEF IInv, TypeOK, FailuresShow
<1>1. /\ health \in [Service -> Health] /\ breaker \in [Service -> Breaker]
      /\ \A t \in Service : Sound(breaker[t])
      /\ pinged \subseteq Service /\ served \subseteq Service /\ outages \in 0..MaxOutages
  BY <1>0, Typed DEF TypeOK
<1>2. UNCHANGED <<registered, call, crossed>>
  BY DEF PerformHealthCheck, Fail, Recover, TickBreakers
<1>3. CurrentRegistered'
  BY <1>0, <1>2 DEF CurrentRegistered
<1>4. ASSUME NEW s \in Service, PerformHealthCheck(s)
      PROVE  /\ health' \in [Service -> Health] /\ UNCHANGED <<pinged, served, outages, breaker>>
             /\ \A t \in Service : health'[t].errors = health[t].errors
  <2>1. /\ health' = [health EXCEPT ![s] = UpdateServiceHealthStatus(@, s \in pinged)]
        /\ UNCHANGED <<pinged, served, outages, breaker>>
    BY <1>4 DEF PerformHealthCheck, environment
  <2>2. /\ UpdateServiceHealthStatus(health[s], s \in pinged) \in Health
        /\ UpdateServiceHealthStatus(health[s], s \in pinged).errors = health[s].errors
    <3>1. health[s] \in Health /\ (s \in pinged) \in BOOLEAN
      BY <1>1
    <3> QED BY <3>1, CheckedHealth
  <2> QED BY <1>1, <2>1, <2>2
<1>5. ASSUME NEW s \in Service, Fail(s) \/ Recover(s)
      PROVE  /\ UNCHANGED <<health, breaker>> /\ outages' \in 0..MaxOutages
             /\ pinged' \subseteq Service /\ served' \subseteq Service
  BY <1>1, <1>5, RegistryAssumption DEF Fail, Recover
<1>6. ASSUME TickBreakers
      PROVE  /\ UNCHANGED <<pinged, served, outages, health>> /\ breaker' \in [Service -> Breaker]
             /\ \A t \in Service : /\ breaker'[t].state = breaker[t].state
                                   /\ breaker'[t].failures = breaker[t].failures
  <2>1. /\ breaker' = [t \in Service |-> [breaker[t] EXCEPT !.left = Max({0, @ - 1})]]
        /\ UNCHANGED <<pinged, served, outages, health>>
    BY <1>6 DEF TickBreakers, environment
  <2>2. \A t \in Service : /\ [breaker[t] EXCEPT !.left = Max({0, @ - 1})] \in Breaker
                           /\ breaker'[t].state = breaker[t].state
                           /\ breaker'[t].failures = breaker[t].failures
    <3> TAKE t \in Service
    <3>1. breaker[t].left \in 0..Timeout /\ Timeout \in Nat /\ breaker[t] \in Breaker
      BY <1>1, RegistryAssumption DEF Breaker
    <3>2. Max({0, breaker[t].left - 1}) \in 0..Timeout
      BY <3>1, MaxOfTwo
    <3> HIDE DEF Breaker
    <3>3. [breaker[t] EXCEPT !.left = Max({0, @ - 1})] \in Breaker
      BY <3>1, <3>2 DEF Breaker
    <3> QED BY <2>1, <3>1, <3>3 DEF Breaker
  <2> QED BY <2>1, <2>2
<1>7. CASE \E s \in Service : PerformHealthCheck(s)
  BY <1>0, <1>1, <1>2, <1>3, <1>4, <1>7 DEF FailuresShow, Opens
<1>8. CASE \E s \in Service : Fail(s) \/ Recover(s)
  BY <1>0, <1>1, <1>2, <1>3, <1>5, <1>8 DEF FailuresShow, Opens
<1>9. CASE TickBreakers
  <2>1. FailuresShow'
    BY <1>0, <1>2, <1>6, <1>9 DEF FailuresShow
  <2>2. \A t \in Service : Sound(breaker'[t]) /\ ~Opens(t)
    BY <1>1, <1>6, <1>9 DEF Sound, Opens
  <2> QED BY <1>1, <1>2, <1>3, <1>6, <1>9, <2>1, <2>2
<1> QED BY <1>7, <1>8, <1>9

-----------------------------------------------------------------------------
(* The gateway's part of a step.                                             *)
LEMMA CountUp ==
  ASSUME NEW S, NEW f \in [S -> Nat], NEW x \in S
  PROVE  [f EXCEPT ![x] = @ + 1] \in [S -> Nat]
OBVIOUS

LEMMA LimitTyped ==
  ASSUME TypeOK, NEW r \in Route, CheckRateLimit(r)
  PROVE  limiter' \in [Route -> Limiter] /\ passed' \in [Route -> [0..Window -> Nat]]
<1>0. /\ limiter \in [Route -> Limiter] /\ passed \in [Route -> [0..Window -> Nat]]
      /\ Requests \in Nat \ {0} /\ Window \in Nat \ {0}
  BY GatewayAssumption DEF TypeOK
<1>1. limiter[r].count \in 0..Requests /\ limiter[r].left \in -1..Window
  BY <1>0 DEF Limiter
<1>2. [count |-> 1, left |-> Window] \in Limiter
  BY <1>0 DEF Limiter
<1>3. limiter[r].count < Requests
        => [count |-> limiter[r].count + 1, left |-> limiter[r].left] \in Limiter
  <2>1. limiter[r].count < Requests => limiter[r].count + 1 \in 0..Requests
    BY <1>0, <1>1
  <2> QED BY <1>1, <2>1 DEF Limiter
<1>4. limiter' \in [Route -> Limiter]
  <2> DEFINE l == IF limiter[r] = Past THEN [count |-> 1, left |-> Window]
                  ELSE [count |-> limiter[r].count + 1, left |-> limiter[r].left]
  <2>1. /\ limiter[r] = Past \/ limiter[r].count < Requests
        /\ limiter' = [limiter EXCEPT ![r] = l]
    BY DEF CheckRateLimit
  <2>2. l \in Limiter
    BY <1>2, <1>3, <2>1
  <2> HIDE DEF l
  <2> QED BY <1>0, <2>1, <2>2
<1>5. passed[r] \in [0..Window -> Nat] /\ 0 \in 0..Window
  BY <1>0
<1>6. [passed[r] EXCEPT ![0] = @ + 1] \in [0..Window -> Nat]
  BY <1>5, CountUp
<1>7. passed' = [passed EXCEPT ![r] = [passed[r] EXCEPT ![0] = @ + 1]]
  BY <1>0 DEF CheckRateLimit
<1> QED BY <1>0, <1>4, <1>6, <1>7

LEMMA TickTyped ==
  ASSUME TypeOK, Tick
  PROVE  limiter' \in [Route -> Limiter] /\ passed' \in [Route -> [0..Window -> Nat]]
<1>0. /\ limiter \in [Route -> Limiter] /\ passed \in [Route -> [0..Window -> Nat]]
      /\ Requests \in Nat \ {0} /\ Window \in Nat \ {0}
  BY GatewayAssumption DEF TypeOK
<1>1. \A l \in Limiter : Older(l) \in Limiter
  <2> TAKE l \in Limiter
  <2>1. l \in [count : 0..Requests, left : -1..Window]
    BY DEF Limiter
  <2>2. CASE l.left <= 0
    BY <1>0, <2>2 DEF Limiter, Older, Past
  <2>3. CASE ~(l.left <= 0)
    <3>1. Older(l) = [count |-> l.count, left |-> l.left - 1]
      BY <2>1, <2>3 DEF Older
    <3>2. l.count \in 0..Requests /\ l.left - 1 \in -1..Window
      BY <1>0, <2>1, <2>3
    <3> QED BY <3>1, <3>2 DEF Limiter
  <2> QED BY <2>2, <2>3
<1>2. limiter' \in [Route -> Limiter]
  BY <1>0, <1>1 DEF Tick
<1>3. \A r \in Route, age \in 0..Window :
        (IF age = 0 THEN 0 ELSE passed[r][age - 1]) \in Nat
  <2> TAKE r \in Route, age \in 0..Window
  <2>1. age # 0 => age - 1 \in 0..Window
    BY <1>0
  <2> QED BY <1>0, <2>1
<1>4. passed' \in [Route -> [0..Window -> Nat]]
  BY <1>3 DEF Tick
<1> QED BY <1>2, <1>4

(* One step keeps the invariant, and a breaker that opens does so unhealthy. *)
LEMMA NextStep ==
  ASSUME IInv, [Next]_vars
  PROVE  /\ IInv'
         /\ \A t \in Service : Opens(t) /\ Threshold >= 5 => health'[t].status = "unhealthy"
<1>0. TypeOK /\ FailuresShow /\ CurrentRegistered
  BY DEF IInv
<1>1. ASSUME NEW s \in Service, RegisterService(s) \/ UnregisterService(s),
             UNCHANGED <<limiter, passed>>
      PROVE  IInv' /\ \A t \in Service : ~Opens(t)
  <2>1. PICK services \in SUBSET Service :
          services \ {s} = registered \ {s} /\ Registration(s, services)
    <3>1. registered \subseteq Service
      BY <1>0 DEF TypeOK
    <3> QED BY <1>1, <3>1 DEF RegisterService, UnregisterService
  <2>2. IInv'
    BY <1>1, <2>1, RegistrationStep
  <2>3. \A t \in Service : breaker'[t] = Closed \/ breaker'[t] = breaker[t]
    BY <1>0, <2>1 DEF Registration, TypeOK
  <2> QED BY <2>2, <2>3 DEF Opens, Closed
<1>2. ASSUME NEW c \in Caller, NEW s \in Service, CallService(c, s),
             limiter' \in [Route -> Limiter], passed' \in [Route -> [0..Window -> Nat]]
      PROVE  IInv' /\ \A t \in Service : ~Opens(t)
  <2>1. /\ health' \in [Service -> Health] /\ breaker' \in [Service -> Breaker]
        /\ \A t \in Service : Sound(breaker'[t])
        /\ call' \in [Caller -> Calls \cup {Idle}]
        /\ FailuresShow' /\ CurrentRegistered'
        /\ \A t \in Service : breaker'[t].state = "open" => breaker[t].state = "open"
        /\ UNCHANGED <<environment, registered, crossed>>
    BY <1>2, CallStep
  <2>2. TypeOK'
    BY <1>0, <1>2, <2>1 DEF TypeOK, Health, Breaker, Sound, environment
  <2> QED BY <2>1, <2>2 DEF IInv, Opens
<1>3. ASSUME NEW c \in Caller, Finish(c), UNCHANGED <<limiter, passed>>
      PROVE  IInv' /\ \A t \in Service : Opens(t) /\ Threshold >= 5
                                         => health'[t].status = "unhealthy"
  <2>1. /\ health' \in [Service -> Health] /\ breaker' \in [Service -> Breaker]
        /\ \A t \in Service : Sound(breaker'[t])
        /\ call' \in [Caller -> Calls \cup {Idle}] /\ crossed' \subseteq Service
        /\ FailuresShow' /\ CurrentRegistered'
        /\ \A t \in Service : Opens(t) /\ Threshold >= 5
                               => health'[t].status = "unhealthy"
        /\ UNCHANGED <<environment, registered>>
    BY <1>3, FinishStep
  <2>2. TypeOK'
    BY <1>0, <1>3, <2>1 DEF TypeOK, Health, Breaker, Sound, environment
  <2> QED BY <2>1, <2>2 DEF IInv
<1>4. ASSUME \/ \E s \in Service : PerformHealthCheck(s) \/ Fail(s) \/ Recover(s)
             \/ TickBreakers,
             limiter' \in [Route -> Limiter], passed' \in [Route -> [0..Window -> Nat]]
      PROVE  IInv' /\ \A t \in Service : ~Opens(t)
  <2>1. /\ health' \in [Service -> Health] /\ breaker' \in [Service -> Breaker]
        /\ \A t \in Service : Sound(breaker'[t]) /\ ~Opens(t)
        /\ pinged' \subseteq Service /\ served' \subseteq Service /\ outages' \in 0..MaxOutages
        /\ FailuresShow' /\ CurrentRegistered'
        /\ UNCHANGED <<registered, call, crossed>>
    BY <1>4, PlainStep
  <2>2. TypeOK'
    BY <1>0, <1>4, <2>1 DEF TypeOK, Health, Breaker, Sound
  <2> QED BY <2>1, <2>2 DEF IInv
<1>5. limiter \in [Route -> Limiter] /\ passed \in [Route -> [0..Window -> Nat]]
  BY <1>0 DEF TypeOK
<1>6. CASE Registry /\ UNCHANGED <<limiter, passed>>
  <2>1. \/ \E s \in Service : RegisterService(s) \/ UnregisterService(s)
        \/ \E s \in Service : PerformHealthCheck(s) \/ Fail(s) \/ Recover(s)
        \/ \E s \in Service, c \in Caller : CallService(c, s)
        \/ \E c \in Caller : Finish(c)
    BY <1>6 DEF Registry
  <2> QED BY <1>1, <1>2, <1>3, <1>4, <1>5, <1>6, <2>1
<1>7. ASSUME NEW c \in Caller, NEW r \in Route, RouteRequest(c, r)
      PROVE  IInv' /\ \A t \in Service : ~Opens(t)
  <2>1. limiter' \in [Route -> Limiter] /\ passed' \in [Route -> [0..Window -> Nat]]
    BY <1>0, <1>7, LimitTyped DEF RouteRequest
  <2>2. CASE \E s \in Backends[r] : Available(s) /\ CallService(c, s)
    <3>1. Backends[r] \subseteq Service
      BY GatewayAssumption
    <3> QED BY <1>2, <2>1, <2>2, <3>1
  <2>3. CASE UNCHANGED registryVars
    BY <1>0, <2>1, <2>3
       DEF IInv, TypeOK, FailuresShow, CurrentRegistered, registryVars, environment, Opens
  <2> QED BY <1>7, <2>2, <2>3 DEF RouteRequest
<1>8. CASE Tick
  BY <1>0, <1>4, <1>8, TickTyped DEF Tick
<1>9. CASE UNCHANGED vars
  BY <1>0, <1>9 DEF IInv, TypeOK, FailuresShow, CurrentRegistered, vars, registryVars,
                    environment, Opens
<1> QED BY <1>6, <1>7, <1>8, <1>9 DEF Next

LEMMA InitIInv == Init => IInv
<1> SUFFICES ASSUME Init PROVE IInv
  OBVIOUS
<1>1. Healthy \in Health /\ Sound(Closed) /\ Past \in Limiter
  BY RegistryAssumption, GatewayAssumption
     DEF Healthy, Health, Closed, Sound, Breaker, Past, Limiter
<1>2. TypeOK
  BY <1>1, RegistryAssumption, GatewayAssumption
     DEF Init, RegistryInit, TypeOK, Health, Breaker, Sound
<1>3. FailuresShow /\ CurrentRegistered
  BY DEF Init, RegistryInit, FailuresShow, CurrentRegistered, Healthy, Closed
<1> QED BY <1>2, <1>3 DEF IInv

(* The registry's tables, breakers and limiters keep their types, and a      *)
(* closed breaker has counted fewer failures than its threshold              *)
(* (CircuitBreaker, updateServiceHealth, checkRateLimit).                    *)
THEOREM GatewayTypeCorrect == Spec => []TypeOK
<1>1. IInv => TypeOK
  BY DEF IInv
<1>2. IInv /\ [Next]_vars => IInv'
  BY NextStep
<1> QED BY InitIInv, <1>1, <1>2, PTL DEF Spec

(* A breaker that opens leaves its service out of the rotation, for any      *)
(* threshold of five or more (CircuitBreaker.onFailure, callService).        *)
THEOREM TrippedIsUnhealthy ==
  ASSUME Threshold >= 5
  PROVE  Spec => TrippedLeavesRotation
<1>1. IInv /\ [Next]_vars => IInv'
  BY NextStep
<1>2. IInv /\ [Next]_vars
        => \A s \in Service :
             (/\ breaker[s].state # "open" /\ breaker'[s].state = "open"
              /\ s \notin crossed)
             => health'[s].status = "unhealthy"
  BY NextStep DEF Opens
<1> QED BY InitIInv, <1>1, <1>2, PTL DEF Spec, TrippedLeavesRotation

-----------------------------------------------------------------------------
(* LessThanTwiceTheLimit.  In a window, what the limiter counted has passed  *)
(* since the window opened, and at least one request opened it.  So when the *)
(* next window opens, that one is older than a window, and the rest of the   *)
(* last window is less than the limit.                                       *)
Passes == [0..Window -> Nat]

WindowOK(f, l) ==
  LET opened == Window - l.left
  IN  IF l = Past
      THEN f[0] = 0 /\ SumFunctionOnSet(f, 0..Window) < Requests
      ELSE /\ l.left \in 0..Window
           /\ SumFunctionOnSet(f, 0..opened) = l.count /\ f[opened] > 0
           /\ SumFunctionOnSet(f, (opened + 1)..Window) < Requests

LEMMA SumOfAges ==
  ASSUME NEW f \in Passes, NEW S \in SUBSET (0..Window)
  PROVE  /\ IsFiniteSet(S) /\ SumFunctionOnSet(f, S) \in Nat
         /\ \A age \in S : f[age] \in Nat
<1>1. Window \in Nat
  BY GatewayAssumption
<1>2. IsFiniteSet(0..Window)
  BY <1>1, FS_Interval
<1>3. IsFiniteSet(S)
  BY <1>2, FS_Subset
<1>4. \A age \in S : f[age] \in Nat
  BY DEF Passes
<1> QED BY <1>3, <1>4, SumType

(* What passed by an age, and before.                                        *)
LEMMA SumSplit ==
  ASSUME NEW f \in Passes, NEW age \in 0..Window
  PROVE  /\ SumFunctionOnSet(f, 0..Window)
               = SumFunctionOnSet(f, 0..age) + SumFunctionOnSet(f, (age + 1)..Window)
         /\ SumFunctionOnSet(f, 0..age) \in Nat
         /\ SumFunctionOnSet(f, (age + 1)..Window) \in Nat
<1> DEFINE S == 0..age
           U == (age + 1)..Window
<1>1. Window \in Nat /\ age \in Nat
  BY GatewayAssumption
<1>2. S \in SUBSET (0..Window) /\ U \in SUBSET (0..Window) /\ S \cap U = {}
      /\ S \cup U = 0..Window
  BY <1>1
<1> HIDE DEF S, U
<1>3. IsFiniteSet(S) /\ IsFiniteSet(U) /\ \A x \in S \cup U : f[x] \in Nat
  BY <1>2, SumOfAges
<1>4. SumFunctionOnSet(f, S \cup U) = SumFunctionOnSet(f, S) + SumFunctionOnSet(f, U)
  BY <1>2, <1>3, SumUnion
<1>5. SumFunctionOnSet(f, S) \in Nat /\ SumFunctionOnSet(f, U) \in Nat
  BY <1>2, SumOfAges
<1> QED BY <1>2, <1>4, <1>5 DEF S, U

LEMMA WindowBounds ==
  ASSUME NEW f \in Passes, NEW l \in Limiter, WindowOK(f, l)
  PROVE  SumFunctionOnSet(f, 0..Window) < 2 * Requests
<1>1. Requests \in Nat /\ Requests > 0 /\ Window \in Nat
  BY GatewayAssumption
<1>2. CASE l = Past
  <2>1. SumFunctionOnSet(f, 0..Window) \in Nat
    BY SumOfAges
  <2> QED BY <1>1, <1>2, <2>1 DEF WindowOK
<1>3. CASE l # Past
  <2> DEFINE opened == Window - l.left
  <2>1. l.left \in 0..Window /\ l.count \in 0..Requests
    BY <1>3 DEF WindowOK, Limiter
  <2>2. opened \in 0..Window
    BY <1>1, <2>1
  <2>3. /\ SumFunctionOnSet(f, 0..opened) = l.count
        /\ SumFunctionOnSet(f, (opened + 1)..Window) < Requests
    BY <1>3 DEF WindowOK
  <2> HIDE DEF opened
  <2>4. /\ SumFunctionOnSet(f, 0..Window)
             = SumFunctionOnSet(f, 0..opened) + SumFunctionOnSet(f, (opened + 1)..Window)
        /\ SumFunctionOnSet(f, (opened + 1)..Window) \in Nat
    BY <2>2, SumSplit
  <2> DEFINE earlier == SumFunctionOnSet(f, (opened + 1)..Window)
  <2>5. SumFunctionOnSet(f, 0..Window) = l.count + earlier /\ earlier \in Nat
        /\ earlier < Requests
    BY <2>3, <2>4
  <2> HIDE DEF earlier
  <2> QED BY <1>1, <2>1, <2>5
<1> QED BY <1>2, <1>3

(* A request that passes has age 0.                                          *)
LEMMA OneMorePass ==
  ASSUME NEW f \in Passes, NEW age \in 0..Window
  PROVE  LET g == [f EXCEPT ![0] = @ + 1]
         IN  /\ g \in Passes
             /\ SumFunctionOnSet(g, 0..age) = SumFunctionOnSet(f, 0..age) + 1
             /\ SumFunctionOnSet(g, (age + 1)..Window)
                   = SumFunctionOnSet(f, (age + 1)..Window)
             /\ g[age] >= f[age]
<1> DEFINE g == [f EXCEPT ![0] = @ + 1]
           S == 1..age
           U == (age + 1)..Window
<1>1. Window \in Nat /\ age \in Nat /\ 0 \in 0..Window
  BY GatewayAssumption
<1>2. /\ g \in Passes /\ g[0] = f[0] + 1 /\ f[0] \in Nat
      /\ \A x \in 0..Window : x # 0 => g[x] = f[x]
  BY <1>1 DEF Passes
<1>3. /\ S \in SUBSET (0..Window) /\ U \in SUBSET (0..Window)
      /\ S \cup {0} = 0..age /\ 0 \notin S /\ 0 \notin U
  BY <1>1
<1> HIDE DEF g, S, U
<1>4. SumFunctionOnSet(g, U) = SumFunctionOnSet(f, U)
  <2>1. IsFiniteSet(U) /\ \A x \in U : f[x] \in Nat /\ g[x] = f[x]
    BY <1>2, <1>3, SumOfAges
  <2> QED BY <2>1, SumSame
<1>5. SumFunctionOnSet(g, S) = SumFunctionOnSet(f, S)
  <2>1. IsFiniteSet(S) /\ \A x \in S : f[x] \in Nat /\ g[x] = f[x]
    BY <1>2, <1>3, SumOfAges
  <2> QED BY <2>1, SumSame
<1>6. SumFunctionOnSet(f, S \cup {0}) = f[0] + SumFunctionOnSet(f, S)
      /\ SumFunctionOnSet(g, S \cup {0}) = g[0] + SumFunctionOnSet(g, S)
  <2>1. IsFiniteSet(S) /\ \A x \in S \cup {0} : f[x] \in Nat /\ g[x] \in Nat
    BY <1>2, <1>3, SumOfAges
  <2> QED BY <1>3, <2>1, SumAdd
<1>7. SumFunctionOnSet(f, S) \in Nat
  BY <1>3, SumOfAges
<1>8. SumFunctionOnSet(g, 0..age) = SumFunctionOnSet(f, 0..age) + 1
  <2>1. SumFunctionOnSet(f, S \cup {0}) = f[0] + SumFunctionOnSet(f, S)
        /\ SumFunctionOnSet(g, S \cup {0}) = (f[0] + 1) + SumFunctionOnSet(f, S)
    BY <1>2, <1>5, <1>6
  <2>2. SumFunctionOnSet(g, S \cup {0}) = SumFunctionOnSet(f, S \cup {0}) + 1
    BY <1>2, <1>7, <2>1
  <2> QED BY <1>3, <2>2
<1>9. g[age] >= f[age]
  <2>1. f[age] \in Nat
    BY DEF Passes
  <2> QED BY <1>2, <2>1
<1> QED BY <1>2, <1>4, <1>8, <1>9 DEF g, U

LEMMA WindowOnPass ==
  ASSUME NEW f \in Passes, NEW l \in Limiter, WindowOK(f, l),
         l = Past \/ l.count < Requests
  PROVE  WindowOK([f EXCEPT ![0] = @ + 1],
                  IF l = Past THEN [count |-> 1, left |-> Window]
                  ELSE [count |-> l.count + 1, left |-> l.left])
<1> DEFINE g == [f EXCEPT ![0] = @ + 1]
<1>1. Requests \in Nat /\ Requests > 0 /\ Window \in Nat
  BY GatewayAssumption
<1>2. CASE l = Past
  <2> DEFINE m == [count |-> 1, left |-> Window]
  <2>1. m # Past /\ m.left = Window /\ m.count = 1 /\ Window - Window = 0
    BY <1>1 DEF Past
  <2>2. /\ SumFunctionOnSet(g, 0..0) = SumFunctionOnSet(f, 0..0) + 1
        /\ SumFunctionOnSet(g, 1..Window) = SumFunctionOnSet(f, 1..Window)
    <3>1. 0 \in 0..Window /\ 0 + 1 = 1
      BY <1>1
    <3> QED BY <3>1, OneMorePass
  <2>3. f[0] = 0 /\ SumFunctionOnSet(f, 0..Window) < Requests
    BY <1>2 DEF WindowOK
  <2>4. SumFunctionOnSet(f, 0..0) = 0
    <3>1. 0..0 = {0} /\ f[0] \in Nat
      BY <2>3
    <3>2. SumFunctionOnSet(f, {0}) = 0
      BY <2>3, <3>1, SumOne
    <3> QED BY <3>1, <3>2
  <2>5. SumFunctionOnSet(f, 1..Window) < Requests
    <3>1. 0 \in 0..Window /\ 0 + 1 = 1
      BY <1>1
    <3>2. /\ SumFunctionOnSet(f, 0..Window)
               = SumFunctionOnSet(f, 0..0) + SumFunctionOnSet(f, 1..Window)
          /\ SumFunctionOnSet(f, 1..Window) \in Nat
      BY <3>1, SumSplit
    <3> QED BY <2>3, <2>4, <3>2
  <2>6. g[0] = 1
    BY <1>1, <2>3 DEF Passes
  <2>7. Window \in 0..Window /\ 0 + 1 = 1 /\ 1 > 0
    BY <1>1
  <2> HIDE DEF g, m
  <2>8. WindowOK(g, m)
    BY <2>1, <2>2, <2>4, <2>5, <2>6, <2>7 DEF WindowOK
  <2> QED BY <1>2, <2>8 DEF g, m
<1>3. CASE l # Past
  <2> DEFINE opened == Window - l.left
             m == [count |-> l.count + 1, left |-> l.left]
  <2>1. /\ l.left \in 0..Window /\ l.count \in 0..Requests
        /\ SumFunctionOnSet(f, 0..opened) = l.count /\ f[opened] > 0
        /\ SumFunctionOnSet(f, (opened + 1)..Window) < Requests
    BY <1>3 DEF WindowOK, Limiter
  <2>2. opened \in 0..Window /\ m.left = l.left /\ m.count = l.count + 1
    BY <1>1, <2>1
  <2>3. m # Past
    BY <1>1, <2>1 DEF Past
  <2> HIDE DEF m
  <2>4. /\ SumFunctionOnSet(g, 0..opened) = l.count + 1
        /\ SumFunctionOnSet(g, (opened + 1)..Window) < Requests
        /\ g[opened] >= f[opened]
    <3> HIDE DEF opened
    <3> QED BY <2>1, <2>2, OneMorePass
  <2>5. g[opened] > 0
    <3>1. f[opened] \in Nat /\ g \in Passes
      BY <2>2, OneMorePass DEF Passes
    <3>2. g[opened] \in Nat
      BY <2>2, <3>1 DEF Passes
    <3> HIDE DEF g
    <3> QED BY <2>1, <2>4, <3>1, <3>2
  <2> HIDE DEF g
  <2>6. WindowOK(g, m)
    BY <2>1, <2>2, <2>3, <2>4, <2>5 DEF WindowOK
  <2> QED BY <1>3, <2>6 DEF g, m
<1> QED BY <1>2, <1>3

(* A tick later every request is one tick older, and the oldest are gone.    *)
LEMMA Aged ==
  ASSUME NEW f \in Passes
  PROVE  LET g == [age \in 0..Window |-> IF age = 0 THEN 0 ELSE f[age - 1]]
         IN  /\ g \in Passes /\ g[0] = 0
             /\ \A age \in 0..(Window - 1) :
                   /\ g[age + 1] = f[age]
                   /\ SumFunctionOnSet(g, 0..(age + 1)) = SumFunctionOnSet(f, 0..age)
                   /\ SumFunctionOnSet(g, ((age + 1) + 1)..Window)
                         <= SumFunctionOnSet(f, (age + 1)..Window)
<1> DEFINE g == [age \in 0..Window |-> IF age = 0 THEN 0 ELSE f[age - 1]]
<1>1. Window \in Nat /\ Window > 0 /\ 0 \in 0..Window
  BY GatewayAssumption
<1>2. \A age \in 0..Window : f[age] \in Nat
  BY DEF Passes
<1>3. \A age \in 0..(Window - 1) : age \in 0..Window /\ age + 1 \in 0..Window /\ age + 1 # 0
                                  /\ (age + 1) - 1 = age
  BY <1>1
<1>4. g[0] = 0 /\ \A age \in 0..(Window - 1) : g[age + 1] = f[age]
  BY <1>1, <1>3
<1>5. g \in Passes
  <2> SUFFICES ASSUME NEW age \in 0..Window
               PROVE  (IF age = 0 THEN 0 ELSE f[age - 1]) \in Nat
    BY DEF Passes
  <2>1. age # 0 => age - 1 \in 0..Window
    BY <1>1
  <2> QED BY <1>2, <2>1
<1> HIDE DEF g
<1>6. ASSUME NEW age \in 0..(Window - 1)
      PROVE  SumFunctionOnSet(g, 0..(age + 1)) = SumFunctionOnSet(f, 0..age)
  <2> DEFINE S == 1..(age + 1)
  <2>1. S \in SUBSET (0..Window) /\ 0..(age + 1) = S \cup {0} /\ 0 \notin S
    BY <1>1
  <2>2. SumFunctionOnSet(g, S) = SumFunctionOnSet(f, 0..age)
    <3>1. \A k \in 0..age : f[k] \in Nat /\ g[k + 1] = f[k]
      BY <1>1, <1>2, <1>4
    <3>2. SumFunctionOnSet(g, (0 + 1)..(age + 1)) = SumFunctionOnSet(f, 0..age)
      BY <3>1, SumShift
    <3>3. S = (0 + 1)..(age + 1)
      OBVIOUS
    <3> QED BY <3>2, <3>3
  <2> HIDE DEF S
  <2>3. IsFiniteSet(S) /\ SumFunctionOnSet(g, S) \in Nat /\ \A k \in S \cup {0} : g[k] \in Nat
    BY <1>4, <1>5, <2>1, SumOfAges
  <2>4. SumFunctionOnSet(g, S \cup {0}) = g[0] + SumFunctionOnSet(g, S)
    BY <2>1, <2>3, SumAdd
  <2>5. SumFunctionOnSet(g, S \cup {0}) = SumFunctionOnSet(f, 0..age)
    BY <1>4, <2>2, <2>3, <2>4
  <2> QED BY <2>1, <2>5
<1>7. ASSUME NEW age \in 0..(Window - 1)
      PROVE  SumFunctionOnSet(g, ((age + 1) + 1)..Window)
               <= SumFunctionOnSet(f, (age + 1)..Window)
  <2> DEFINE S == (age + 1)..(Window - 1)
             U == (age + 1)..Window
  <2>1. S \in SUBSET U /\ U \in SUBSET (0..Window)
    BY <1>1
  <2>2. SumFunctionOnSet(g, ((age + 1) + 1)..((Window - 1) + 1)) = SumFunctionOnSet(f, S)
    <3>1. \A k \in S : f[k] \in Nat /\ g[k + 1] = f[k]
      BY <1>1, <1>2, <1>4
    <3>2. age + 1 \in Int /\ Window - 1 \in Int /\ age + 1 <= (Window - 1) + 1
      BY <1>1
    <3> QED BY <3>1, <3>2, SumShift
  <2>3. (Window - 1) + 1 = Window
    BY <1>1
  <2> HIDE DEF S, U
  <2>4. SumFunctionOnSet(f, S) <= SumFunctionOnSet(f, U)
    BY <2>1, SumOfAges, SumSubset
  <2> QED BY <2>2, <2>3, <2>4 DEF U
<1> QED BY <1>4, <1>5, <1>6, <1>7 DEF g

LEMMA WindowOnTick ==
  ASSUME NEW f \in Passes, NEW l \in Limiter, WindowOK(f, l)
  PROVE  WindowOK([age \in 0..Window |-> IF age = 0 THEN 0 ELSE f[age - 1]], Older(l))
<1> DEFINE g == [age \in 0..Window |-> IF age = 0 THEN 0 ELSE f[age - 1]]
<1>1. /\ Requests \in Nat /\ Requests > 0 /\ Window \in Nat /\ Window > 0
      /\ l.count \in 0..Requests /\ l.left \in -1..Window
  BY GatewayAssumption DEF Limiter
<1>2. /\ g \in Passes /\ g[0] = 0
      /\ \A age \in 0..(Window - 1) :
            /\ g[age + 1] = f[age]
            /\ SumFunctionOnSet(g, 0..(age + 1)) = SumFunctionOnSet(f, 0..age)
            /\ SumFunctionOnSet(g, ((age + 1) + 1)..Window)
                  <= SumFunctionOnSet(f, (age + 1)..Window)
  BY Aged
<1> HIDE DEF g
<1> DEFINE last == Window - 1
           all == SumFunctionOnSet(f, 0..Window)
           younger == SumFunctionOnSet(f, 0..last)
<1>3. /\ SumFunctionOnSet(g, 0..Window) = younger
      /\ all = younger + f[Window] /\ younger \in Nat /\ f[Window] \in Nat
  <2>1. last \in 0..last /\ last \in 0..Window /\ last + 1 = Window
        /\ Window..Window = {Window} /\ Window \in 0..Window
    BY <1>1
  <2>2. f[Window] \in Nat
    BY <2>1 DEF Passes
  <2>3. SumFunctionOnSet(f, {Window}) = f[Window]
    BY <2>2, SumOne
  <2> HIDE DEF last
  <2>4. all = younger + SumFunctionOnSet(f, Window..Window) /\ younger \in Nat
    BY <2>1, SumSplit
  <2>5. SumFunctionOnSet(g, 0..(last + 1)) = younger
    BY <1>2, <2>1 DEF last
  <2> QED BY <2>1, <2>2, <2>3, <2>4, <2>5
<1> HIDE DEF all, younger, last
<1>4. ASSUME younger < Requests PROVE WindowOK(g, Past)
  BY <1>2, <1>3, <1>4 DEF WindowOK
<1>5. CASE l = Past
  <2>1. Older(l) = Past
    BY <1>5 DEF Older, Past
  <2>2. younger < Requests
    BY <1>1, <1>3, <1>5 DEF WindowOK, all
  <2> QED BY <1>4, <2>1, <2>2 DEF g
<1>6. CASE l # Past /\ l.left <= 0
  <2>1. Older(l) = Past
    BY <1>6 DEF Older
  <2>2. l.left \in 0..Window
    BY <1>6 DEF WindowOK
  <2>3. l.left = 0 /\ Window - l.left = Window
    BY <1>1, <1>6, <2>2
  <2>4. all = l.count /\ f[Window] > 0
    BY <1>6, <2>3 DEF WindowOK, all
  <2>5. younger < Requests
    BY <1>1, <1>3, <2>4
  <2> QED BY <1>4, <2>1, <2>5 DEF g
<1>7. CASE l # Past /\ ~(l.left <= 0)
  <2> DEFINE opened == Window - l.left
             m == [l EXCEPT !.left = l.left - 1]
  <2>1. /\ l.left \in 0..Window
        /\ SumFunctionOnSet(f, 0..opened) = l.count /\ f[opened] > 0
        /\ SumFunctionOnSet(f, (opened + 1)..Window) < Requests
    BY <1>7 DEF WindowOK
  <2>2. /\ m.left = l.left - 1 /\ m.count = l.count /\ Older(l) = m
    BY <1>7 DEF Older, Limiter
  <2>3. /\ opened \in 0..(Window - 1) /\ Window - m.left = opened + 1
        /\ m.left \in 0..Window
    BY <1>1, <1>7, <2>1, <2>2
  <2>4. m # Past
    BY <2>3 DEF Past
  <2> HIDE DEF m, opened
  <2>5. /\ g[opened + 1] > 0
        /\ SumFunctionOnSet(g, 0..(opened + 1)) = m.count
    BY <1>2, <2>1, <2>2, <2>3
  <2>6. SumFunctionOnSet(g, ((opened + 1) + 1)..Window) < Requests
    <3>1. SumFunctionOnSet(g, ((opened + 1) + 1)..Window)
            <= SumFunctionOnSet(f, (opened + 1)..Window)
      BY <1>2, <2>3
    <3>2. ((opened + 1) + 1)..Window \in SUBSET (0..Window)
          /\ (opened + 1)..Window \in SUBSET (0..Window)
      BY <1>1, <2>3
    <3>3. SumFunctionOnSet(g, ((opened + 1) + 1)..Window) \in Nat
      BY <1>2, <3>2, SumOfAges
    <3>4. SumFunctionOnSet(f, (opened + 1)..Window) \in Nat
      BY <3>2, SumOfAges
    <3> DEFINE a == SumFunctionOnSet(g, ((opened + 1) + 1)..Window)
               b == SumFunctionOnSet(f, (opened + 1)..Window)
    <3>5. a \in Nat /\ b \in Nat /\ a <= b /\ b < Requests
      BY <2>1, <3>1, <3>3, <3>4
    <3> HIDE DEF a, b
    <3>6. a < Requests
      BY <1>1, <3>5
    <3> QED BY <3>6 DEF a
  <2>7. WindowOK(g, m)
    BY <2>3, <2>4, <2>5, <2>6 DEF WindowOK
  <2> QED BY <2>2, <2>7 DEF g
<1> QED BY <1>5, <1>6, <1>7

WindowsOK == \A r \in Route : WindowOK(passed[r], limiter[r])

LEMMA NextWindows == ASSUME TypeOK, WindowsOK, [Next]_vars PROVE WindowsOK'
<1>1. \A r \in Route : passed[r] \in Passes /\ limiter[r] \in Limiter /\ WindowOK(passed[r], limiter[r])
  BY DEF TypeOK, WindowsOK, Passes
<1>2. CASE UNCHANGED <<limiter, passed>>
  BY <1>2 DEF WindowsOK
<1>3. ASSUME NEW r \in Route, CheckRateLimit(r) PROVE WindowsOK'
  <2> DEFINE l == IF limiter[r] = Past THEN [count |-> 1, left |-> Window]
                  ELSE [count |-> limiter[r].count + 1, left |-> limiter[r].left]
             g == [passed[r] EXCEPT ![0] = @ + 1]
  <2>1. limiter[r] = Past \/ limiter[r].count < Requests
    BY <1>3 DEF CheckRateLimit
  <2>2. limiter' = [limiter EXCEPT ![r] = l] /\ passed' = [passed EXCEPT ![r] = g]
    <3>1. passed[r] \in Passes
      BY <1>1
    <3> QED BY <1>3, <3>1 DEF CheckRateLimit, TypeOK, Passes
  <2>3. WindowOK(g, l)
    BY <1>1, <2>1, WindowOnPass
  <2> HIDE DEF l, g
  <2> QED BY <1>1, <2>2, <2>3 DEF WindowsOK, TypeOK
<1>4. CASE Tick
  <2> SUFFICES ASSUME NEW r \in Route PROVE WindowOK(passed'[r], limiter'[r])
    BY DEF WindowsOK
  <2>1. limiter'[r] = Older(limiter[r])
    BY <1>4 DEF Tick
  <2>2. passed'[r] = [age \in 0..Window |-> IF age = 0 THEN 0 ELSE passed[r][age - 1]]
    BY <1>4 DEF Tick
  <2> QED BY <1>1, <2>1, <2>2, WindowOnTick
<1> QED BY <1>2, <1>3, <1>4 DEF Next, RouteRequest, vars

(* For any limit and window, and however requests are spaced over its ends,  *)
(* a route passes less than twice its limit in a window's time               *)
(* (checkRateLimit).                                                         *)
THEOREM LimitNeverDoubled == Spec => []LessThanTwiceTheLimit
<1>1. Init => WindowsOK
  <2> SUFFICES ASSUME Init, NEW r \in Route PROVE WindowOK(passed[r], Past)
    BY DEF Init, WindowsOK
  <2> DEFINE f == [age \in 0..Window |-> 0]
  <2>1. passed[r] = f /\ f[0] = 0 /\ Requests > 0 /\ Window \in Nat /\ Requests \in Nat
    BY GatewayAssumption DEF Init
  <2>2. SumFunctionOnSet(f, 0..Window) = 0
    BY <2>1, FS_Interval, SumZeros
  <2> QED BY <2>1, <2>2 DEF WindowOK
<1>2. TypeOK /\ WindowsOK /\ [Next]_vars => WindowsOK'
  BY NextWindows
<1>3. TypeOK /\ WindowsOK => LessThanTwiceTheLimit
  <2> SUFFICES ASSUME TypeOK, WindowsOK, NEW r \in Route
               PROVE  SumFunction(passed[r]) < 2 * Requests
    BY DEF LessThanTwiceTheLimit
  <2>1. passed[r] \in Passes /\ limiter[r] \in Limiter /\ WindowOK(passed[r], limiter[r])
    BY DEF TypeOK, WindowsOK, Passes
  <2>2. SumFunction(passed[r]) = SumFunctionOnSet(passed[r], 0..Window)
    BY <2>1 DEF SumFunction, Passes
  <2> QED BY <2>1, <2>2, WindowBounds
<1> QED BY <1>1, <1>2, <1>3, GatewayTypeCorrect, PTL DEF Spec
=============================================================================
