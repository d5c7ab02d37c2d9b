---------------------------- MODULE ConnectionGate ----------------------------
(***************************************************************************)
(* ConnectionGate (gate.go): goroutines that call ExecuteWithGate over and *)
(* over, through the breaker, the rate limiter and the connection limiter. *)
(* A goroutine's place in the call is pc[g]; seen[g] is the value of       *)
(* cb.state it loaded last and may still act upon.                         *)
(*                                                                         *)
(*   idle      between calls                                               *)
(*   probe     breaker.Allow loaded open, has not locked cb.mu yet         *)
(*   rate      admitted by the breaker                                     *)
(*   acquire   admitted by the rate limiter                                *)
(*   waiting   in the blocking select on cl.sem                            *)
(*   counting  sent to cl.sem, has not incremented currentConnections yet  *)
(*   refused   Allow is about to record a failure and return an error      *)
(*   running   the operation executes                                      *)
(*   succeeded RecordSuccess has not loaded cb.state yet                   *)
(*   settle    RecordSuccess has loaded cb.state, has not acted on it yet  *)
(*   failed    RecordFailure has not entered the breaker yet               *)
(*   release   RecordFailure, before the receive from cl.sem               *)
(*   uncount   RecordFailure, before the decrement of currentConnections   *)
(***************************************************************************)
EXTENDS CircuitBreaker, RateLimiter, ConnectionLimiter, FiniteSets

CONSTANT Goroutines

ASSUME GateConstants == IsFiniteSet(Goroutines)

VARIABLES pc, seen,
          kept     \* history: slots whose request returned with success

callVars == <<pc, seen, kept>>
vars == <<breakerVars, rateVars, limiterVars, callVars>>

PCs == {"idle", "probe", "rate", "acquire", "waiting", "counting", "refused",
        "running", "succeeded", "settle", "failed", "release", "uncount"}

TypeOK ==
    /\ BreakerTypeOK
    /\ RateTypeOK
    /\ LimiterTypeOK
    /\ pc \in [Goroutines -> PCs]
    /\ seen \in [Goroutines -> CircuitStates]
    /\ kept \in Nat

Init ==
    /\ BreakerInit
    /\ RateInit
    /\ LimiterInit
    /\ pc = [g \in Goroutines |-> "idle"]
    /\ seen = [g \in Goroutines |-> "closed"]
    /\ kept = 0

Goto(g, label) == pc' = [pc EXCEPT ![g] = label]

-----------------------------------------------------------------------------
(* Allow                                                                   *)

\* breaker.Allow: load cb.state under the read lock.
AllowLoad(g) ==
    /\ pc[g] = "idle"
    /\ seen' = [seen EXCEPT ![g] = state]
    /\ Goto(g, IF state = "open" THEN "probe" ELSE "rate")
    /\ UNCHANGED <<breakerVars, rateVars, limiterVars, kept>>

\* breaker.Allow: the write-locked section of a goroutine that loaded open.
AllowProbe(g) ==
    /\ pc[g] = "probe"
    /\ \/ EnterHalfOpen /\ Goto(g, "rate")
       \/ RejectOpen /\ Goto(g, "idle")
    /\ UNCHANGED <<rateVars, limiterVars, seen, kept>>

AllowRate(g) ==
    /\ pc[g] = "rate"
    /\ \/ TakeToken /\ Goto(g, "acquire")
       \/ RefuseToken /\ Goto(g, "refused")
    /\ UNCHANGED <<breakerVars, limiterVars, seen, kept>>

\* connectionLimiter.AcquireWithContext without a semaphore.
AcquireDrop(g) ==
    /\ pc[g] = "acquire"
    /\ ~ HasSem
    /\ \/ AcquireOk /\ Goto(g, "running")
       \/ AcquireFull /\ Goto(g, "refused")
    /\ UNCHANGED <<breakerVars, rateVars, seen, kept>>

\* AcquireWithContext with a semaphore: the non-blocking send.
AcquireSem(g) ==
    /\ pc[g] = "acquire"
    /\ HasSem
    /\ \/ SemSend /\ Goto(g, "counting")
       \/ SemFull /\ UNCHANGED limiterVars
                  /\ Goto(g, IF MayWait THEN "waiting" ELSE "refused")
    /\ UNCHANGED <<breakerVars, rateVars, seen, kept>>

\* The blocking select: the send.
WaitSend(g) ==
    /\ pc[g] = "waiting"
    /\ SemSend
    /\ Goto(g, "counting")
    /\ UNCHANGED <<breakerVars, rateVars, seen, kept>>

\* The blocking select: <-ctx.Done(), or <-timer.C in mode "timeout".  Both
\* return an error, which Allow treats alike.
WaitGiveUp(g) ==
    /\ pc[g] = "waiting"
    /\ Goto(g, "refused")
    /\ UNCHANGED <<breakerVars, rateVars, limiterVars, seen, kept>>

AcquireCount(g) ==
    /\ pc[g] = "counting"
    /\ CountUp
    /\ Goto(g, "running")
    /\ UNCHANGED <<breakerVars, rateVars, seen, kept>>

\* Allow records a failure of the breaker for its own refusal.
Refuse(g) ==
    /\ pc[g] = "refused"
    /\ CountFailure
    /\ Goto(g, "idle")
    /\ UNCHANGED <<rateVars, limiterVars, seen, kept>>

-----------------------------------------------------------------------------
(* The operation and its outcome                                           *)

Operation(g) ==
    /\ pc[g] = "running"
    /\ \E outcome \in {"succeeded", "failed"} : Goto(g, outcome)
    /\ UNCHANGED <<breakerVars, rateVars, limiterVars, seen, kept>>

\* RecordSuccess: load cb.state, without a lock.
SuccessLoad(g) ==
    /\ pc[g] = "succeeded"
    /\ seen' = [seen EXCEPT ![g] = state]
    /\ Goto(g, "settle")
    /\ UNCHANGED <<breakerVars, rateVars, limiterVars, kept>>

\* RecordSuccess: act on the loaded state, and return.  The slot of the
\* connection limiter is not released on this path.
SuccessSettle(g) ==
    /\ pc[g] = "settle"
    /\ \/ seen[g] = "half-open" /\ CloseOnSuccess
       \/ seen[g] = "closed" /\ ResetFailureCount
       \/ seen[g] = "open" /\ UNCHANGED breakerVars
    /\ Goto(g, "idle")
    /\ kept' = kept + 1
    /\ UNCHANGED <<rateVars, limiterVars, seen>>

MutFailureCount(g) ==
    /\ pc[g] = "failed"
    /\ CountFailure
    /\ Goto(g, "idle")
    /\ UNCHANGED <<rateVars, limiterVars, seen, kept>>

\* RecordFailure: the breaker's part.
FailureCount(g) ==
    /\ pc[g] = "failed"
    /\ CountFailure
    /\ Goto(g, IF HasSem THEN "release" ELSE "uncount")
    /\ UNCHANGED <<rateVars, limiterVars, seen, kept>>

\* RecordFailure: connectionLimiter.Release, the receive from cl.sem.
FailureRelease(g) ==
    /\ pc[g] = "release"
    /\ SemReceive
    /\ Goto(g, "uncount")
    /\ UNCHANGED <<breakerVars, rateVars, seen, kept>>

\* RecordFailure: connectionLimiter.Release, the atomic decrement.
FailureUncount(g) ==
    /\ pc[g] = "uncount"
    /\ CountDown
    /\ Goto(g, "idle")
    /\ UNCHANGED <<breakerVars, rateVars, seen, kept>>

-----------------------------------------------------------------------------
Call(g) ==
    \/ AllowLoad(g) \/ AllowProbe(g) \/ AllowRate(g)
    \/ AcquireDrop(g) \/ AcquireSem(g) \/ WaitSend(g) \/ WaitGiveUp(g)
    \/ AcquireCount(g) \/ Refuse(g) \/ Operation(g)
    \/ SuccessLoad(g) \/ SuccessSettle(g)
    \/ FailureCount(g) \/ FailureRelease(g) \/ FailureUncount(g)

Tick ==
    /\ BreakerTick
    /\ RateTick
    /\ UNCHANGED <<limiterVars, callVars>>

Next == Tick \/ \E g \in Goroutines : Call(g)

Spec == Init /\ [][Next]_vars

-----------------------------------------------------------------------------
(* Properties                                                              *)

At(labels) == {g \in Goroutines : pc[g] \in labels}

\* Requests that own an element of cl.sem, and requests that
\* currentConnections counts.
SemHolders == {"counting", "running", "succeeded", "settle", "failed", "release"}
Counted == {"running", "succeeded", "settle", "failed", "release", "uncount"}

\* The breaker's counter agrees with its state (gate.go RecordFailure,
\* RecordSuccess, Allow): closed is always below the threshold, so no race
\* of a success with failures lets a closed breaker miss its trip, and a
\* half-open period starts with a clean counter.
BreakerCounterInv ==
    /\ state = "closed" => failureCount < MaxFailures
    /\ state = "half-open" => failureCount = 0

\* Every slot is accounted for (ConnectionLimiter.AcquireWithContext and
\* Release): an element of the semaphore, and a unit of currentConnections,
\* belongs to one request in flight or to one that returned with success; the
\* separate add and receive steps of concurrent requests never lose or
\* duplicate one.
SlotAccounting ==
    /\ currentConnections = Cardinality(At(Counted)) + kept
    /\ HasSem => sem = Cardinality(At(SemHolders)) + kept

\* The limiter's promise: never more than maxConnections operations run at
\* once, in any backpressure mode, because the semaphore (or, without one,
\* the counter) stays within the limit; and Release always finds in cl.sem the element its
\* request sent (its default branch is dead).
ConcurrencyBound ==
    /\ Cardinality(At({"running"})) <= MaxConnections
    /\ IF HasSem THEN sem <= MaxConnections ELSE currentConnections <= MaxConnections
    /\ At({"release"}) # {} => sem > 0

\* An open breaker recovers: failures recorded by late requests may push
\* the reset further away, but not forever (Allow, RecordFailure).
BreakerRecovers == state = "open" ~> state # "open"

\* The comment at AcquireWithContext: "We rely on semaphore to represent
\* in-flight usage consistently".
SemIsInFlight == HasSem => sem = Cardinality(At(SemHolders))
=============================================================================
