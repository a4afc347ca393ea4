------------------------------ MODULE AiGateway -------------------------------
(* Inferences through OpenRouter: the routes of a model profile are tried in *)
(* order, each against the profile's daily budget (a counter in Redis, one   *)
(* key per day) and the circuit breaker of the HTTP client.  Costs are small *)
(* numbers; prompts, schemas and tools are left out but for the verdicts     *)
(* they lead to.                                                             *)
(*                                                                           *)
(* Bound: LastDay.                                                           *)
EXTENDS Naturals, FiniteSets

CONSTANTS
    Inferences,     \* calls of infer at a time
    Routes,         \* routes tried by one inference, 1..Routes
    Estimate,       \* the conservative estimate of a route
    MaxPerRequest,  \* budgetPolicy.maxCostMicrosPerRequest
    MaxPerDay,      \* budgetPolicy.maxCostMicrosPerDay
    Costs,          \* what an answer may cost
    FailureThreshold,
    LastDay

ASSUME GatewayAssumption ==
    /\ IsFiniteSet(Inferences)
    /\ Routes \in Nat /\ Estimate \in Nat /\ MaxPerRequest \in Nat /\ MaxPerDay \in Nat
    /\ Costs \subseteq Nat /\ FailureThreshold \in Nat /\ LastDay \in Nat

VARIABLES
    infer,          \* each inference: its step, route and what it has read
    meter,          \* the daily cost counters
    day,            \* today
    circuit         \* OpenRouterCircuitBreaker

gatewayVars == <<infer, meter, day, circuit>>

\* A missing model and a rate limit are treated as a PROVIDER_ERROR is.
Retryable == {"PROVIDER_ERROR", "TIMEOUT"}
Failures == Retryable \union {"AUTHORIZATION_DENIED"}

Ended == [step |-> "none", route |-> 0, read |-> 0, cost |-> 0, error |-> "none"]

GatewayInit ==
    /\ infer = [i \in Inferences |-> Ended]
    /\ meter = [d \in 0..LastDay |-> 0]
    /\ day = 0
    /\ circuit = [state |-> "CLOSED", failures |-> 0, probe |-> FALSE, elapsed |-> FALSE]

At(i, step) == infer[i].step = step

Step(i, step) == infer' = [infer EXCEPT ![i].step = step]

\* The next route, for an error that allows it; else the inference has failed.
Fallback(i, error) ==
    infer' = [infer EXCEPT ![i] =
        IF error \in Retryable /\ infer[i].route < Routes
        THEN [Ended EXCEPT !.step = "route", !.route = infer[i].route + 1]
        ELSE Ended]

Minus(a, b) == IF a > b THEN a - b ELSE 0

-----------------------------------------------------------------------------
(* The circuit breaker *)

RecordSuccess == [state |-> "CLOSED", failures |-> 0, probe |-> FALSE, elapsed |-> FALSE]

RecordFailure ==
    IF circuit.state = "HALF_OPEN" \/ circuit.failures + 1 >= FailureThreshold
    THEN [state |-> "OPEN", failures |-> FailureThreshold, probe |-> FALSE, elapsed |-> FALSE]
    ELSE [circuit EXCEPT !.failures = @ + 1, !.probe = FALSE]

\* Mutant: an error that is not the provider's fault leaves the circuit alone.
LeftAlone == circuit

RecordIgnored ==
    IF circuit.state = "HALF_OPEN"
    THEN RecordSuccess
    ELSE [circuit EXCEPT !.probe = FALSE]

\* beforeRequest: an open circuit lets a probe through once its time is over.
Closed == circuit.state = "CLOSED"
Probes == \/ circuit.state = "HALF_OPEN" /\ ~circuit.probe
          \/ circuit.state = "OPEN" /\ circuit.elapsed

-----------------------------------------------------------------------------

Infer(i) ==
    /\ At(i, "none")
    /\ infer' = [infer EXCEPT ![i] = [Ended EXCEPT !.step = "route", !.route = 1]]
    /\ UNCHANGED <<meter, day, circuit>>

\* The first look at the budget.
ReadBudget(i) ==
    /\ At(i, "route")
    /\ infer' = [infer EXCEPT ![i] =
          IF meter[day] + Estimate <= MaxPerDay
          THEN [@ EXCEPT !.step = "budgeted", !.read = meter[day]]
          ELSE Ended]
    /\ UNCHANGED <<meter, day, circuit>>

\* Mutant: the limit is tested on the counter as it was read before.
WithinStale(i) == infer[i].read + Estimate <= MaxPerDay

Within(i) == meter[day] + Estimate <= MaxPerDay

\* reserveDailyCost, one script in Redis.
Reserve(i) ==
    /\ At(i, "budgeted")
    /\ IF Within(i)
       THEN meter' = [meter EXCEPT ![day] = @ + Estimate] /\ Step(i, "reserved")
       ELSE UNCHANGED meter /\ infer' = [infer EXCEPT ![i] = Ended]
    /\ UNCHANGED <<day, circuit>>

Send(i) ==
    /\ At(i, "reserved")
    /\ IF Closed \/ Probes
       THEN /\ Step(i, "sent")
            /\ circuit' = IF Closed THEN circuit
                          ELSE [circuit EXCEPT !.state = "HALF_OPEN", !.probe = TRUE]
       ELSE /\ infer' = [infer EXCEPT ![i] = [@ EXCEPT !.step = "failed", !.error = "PROVIDER_ERROR"]]
            /\ UNCHANGED circuit
    /\ UNCHANGED <<meter, day>>

Fail(i, error) ==
    /\ At(i, "sent")
    /\ infer' = [infer EXCEPT ![i] = [@ EXCEPT !.step = "failed", !.error = error]]
    /\ circuit' = IF error \in Retryable THEN RecordFailure ELSE RecordIgnored
    /\ UNCHANGED <<meter, day>>

\* A timeout keeps its reservation; any other failure returns it, if Redis does.
Return(i) ==
    /\ At(i, "failed")
    /\ \/ infer[i].error # "TIMEOUT" /\ meter' = [meter EXCEPT ![day] = Minus(@, Estimate)]
       \/ UNCHANGED meter
    /\ Fallback(i, infer[i].error)
    /\ UNCHANGED <<day, circuit>>

\* The answer is priced.  One that costs too much is a failure like the others.
Respond(i, cost) ==
    /\ At(i, "sent")
    /\ circuit' = RecordSuccess
    /\ infer' = [infer EXCEPT ![i] =
          IF cost <= MaxPerRequest /\ infer[i].read + cost <= MaxPerDay
          THEN [@ EXCEPT !.step = "settle", !.cost = cost]
          ELSE [@ EXCEPT !.step = "failed", !.error = "BUDGET_EXCEEDED"]]
    /\ UNCHANGED <<meter, day>>

\* settleDailyCost puts the cost in the place of the estimate, under the key of
\* the day it runs.  Above the limit, or with an answer that does not match the
\* schema or its tools, the inference fails without another route.
Settle(i) ==
    /\ At(i, "settle")
    /\ meter' = [meter EXCEPT ![day] = Minus(@ + infer[i].cost, Estimate)]
    /\ infer' = [infer EXCEPT ![i] = Ended]
    /\ UNCHANGED <<day, circuit>>

\* Redis does not answer, or the process stops: what was reserved stays.
Lose(i) ==
    /\ infer[i].step \in {"route", "budgeted", "settle"}
    /\ infer' = [infer EXCEPT ![i] = Ended]
    /\ UNCHANGED <<meter, day, circuit>>

Restart ==
    /\ \E i \in Inferences : ~At(i, "none")
    /\ infer' = [i \in Inferences |-> Ended]
    /\ circuit' = RecordSuccess
    /\ UNCHANGED <<meter, day>>

ResetElapses ==
    /\ circuit.state = "OPEN" /\ ~circuit.elapsed
    /\ circuit' = [circuit EXCEPT !.elapsed = TRUE]
    /\ UNCHANGED <<infer, meter, day>>

Midnight ==
    /\ day < LastDay
    /\ day' = day + 1
    /\ UNCHANGED <<infer, meter, circuit>>

GatewayNext ==
    \/ \E i \in Inferences :
        \/ Infer(i) \/ ReadBudget(i) \/ Reserve(i) \/ Send(i)
        \/ \E error \in Failures : Fail(i, error)
        \/ \E cost \in Costs : Respond(i, cost)
        \/ Return(i) \/ Settle(i) \/ Lose(i)
    \/ Restart \/ ResetElapses \/ Midnight

GatewaySpec == GatewayInit /\ [][GatewayNext]_gatewayVars
-----------------------------------------------------------------------------
(* Properties *)

\* However many inferences reserve, settle and return at once, no day's counter
\* exceeds the ceiling by more than what the inferences in flight cost above
\* their estimates (openrouter-provider.ts inferOrThrow, redis-usage-meter.ts).
DailyCeiling ==
    \A d \in 0..LastDay :
        meter[d] <= MaxPerDay + Cardinality(Inferences) * Minus(MaxPerRequest, Estimate)

\* A half-open circuit always waits for a call in flight: it never rejects
\* every call for want of one that could close or open it
\* (openrouter-client.ts OpenRouterCircuitBreaker).
ProbeInFlight ==
    circuit.state = "HALF_OPEN" \/ circuit.probe => \E i \in Inferences : At(i, "sent")
=============================================================================
