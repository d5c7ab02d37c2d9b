--------------------------- MODULE CircuitBreaker ---------------------------
(***************************************************************************)
(* The circuit breaker of gate.go.  Each operator below is one atomic step *)
(* of its methods: a load of cb.state outside cb.mu, or one whole critical *)
(* section of cb.mu.  Which goroutine takes which step, with which loaded  *)
(* value, is the business of the module that extends this one.             *)
(*                                                                         *)
(* Time is kept as the number of ticks since lastFailureTime, counted up   *)
(* to ResetTimeout + 1: time.Since(lastFailureTime) > resetTimeout cannot  *)
(* tell larger values apart.                                               *)
(***************************************************************************)
EXTENDS Integers

CONSTANTS MaxFailures,     \* cb.maxFailures
          ResetTimeout     \* cb.resetTimeout, in ticks

ASSUME BreakerConstants ==
    /\ MaxFailures \in Nat \ {0}
    /\ ResetTimeout \in Nat \ {0}

VARIABLES state,           \* cb.state
          failureCount,    \* cb.failureCount
          sinceFailure     \* ticks since cb.lastFailureTime, capped

breakerVars == <<state, failureCount, sinceFailure>>

CircuitStates == {"closed", "open", "half-open"}

BreakerTypeOK ==
    /\ state \in CircuitStates
    /\ failureCount \in Nat
    /\ sinceFailure \in 0 .. ResetTimeout + 1

\* A new breaker is closed; its lastFailureTime is the zero time, long ago.
BreakerInit ==
    /\ state = "closed"
    /\ failureCount = 0
    /\ sinceFailure = ResetTimeout + 1

ResetDue == sinceFailure > ResetTimeout

\* Allow, second critical section: the timeout has passed.  The code does
\* not look at cb.state again, so this may leave any state.
EnterHalfOpen ==
    /\ ResetDue
    /\ state' = "half-open"
    /\ failureCount' = 0
    /\ UNCHANGED sinceFailure

MutRejectOpen ==
    /\ ~ ResetDue
    /\ sinceFailure' = 0
    /\ UNCHANGED <<state, failureCount>>

\* Allow, second critical section: too early, ErrCircuitOpen.
RejectOpen ==
    /\ ~ ResetDue
    /\ UNCHANGED breakerVars

\* RecordSuccess after having loaded half-open: the critical section, which
\* again does not look at cb.state.
CloseOnSuccess ==
    /\ state' = "closed"
    /\ failureCount' = 0
    /\ UNCHANGED sinceFailure

\* RecordSuccess after having loaded closed: a bare store of the counter.
ResetFailureCount ==
    /\ failureCount' = 0
    /\ UNCHANGED <<state, sinceFailure>>

MutCountFailure ==
    /\ failureCount' = failureCount + 1
    /\ sinceFailure' = 0
    /\ state' = IF state = "closed" /\ failureCount' > MaxFailures
                   THEN "open" ELSE state

\* RecordFailure, one critical section.
CountFailure ==
    /\ failureCount' = failureCount + 1
    /\ sinceFailure' = 0
    /\ state' = IF \/ state = "half-open"
                   \/ state = "closed" /\ failureCount' >= MaxFailures
                   THEN "open" ELSE state

BreakerTick ==
    /\ sinceFailure' = IF ResetDue THEN sinceFailure ELSE sinceFailure + 1
    /\ UNCHANGED <<state, failureCount>>
=============================================================================
