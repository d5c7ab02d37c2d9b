------------------------- MODULE ConnectionGateProofs -------------------------
(***************************************************************************)
(* Safety of the connection gate, of the database calls and transactions   *)
(* on top of it and of its rate limiter alone, for any number of           *)
(* goroutines, any limits, rates and backpressure modes.                   *)
(***************************************************************************)
EXTENDS AdvancedDB, RateWindow, FiniteSetTheorems, TLAPS

-----------------------------------------------------------------------------
(* The gate                                                                *)

\* The semaphore, or without one the counter, stays within the limit.
LimitBound == IF HasSem THEN sem <= MaxConnections ELSE currentConnections <= MaxConnections

\* Without a semaphore no request is on the semaphore's path.
SemPath == HasSem \/ \A g \in Goroutines : pc[g] \notin {"waiting", "counting", "release"}

\* The inductive invariant: ConcurrencyBound is not inductive, it follows from
\* the accounting of the slots and the bounds of sem and currentConnections.
IndInv == TypeOK /\ BreakerCounterInv /\ SlotAccounting /\ LimitBound /\ SemPath

\* The limit is a positive number (NewConnectionLimiter).
LEMMA LimitPositive == MaxConnections \in Nat \ {0}
  BY LimiterConstants

\* How moving one goroutine changes the number of goroutines at some labels.
LEMMA Move ==
  ASSUME pc \in [Goroutines -> PCs], NEW g \in Goroutines, NEW x, Goto(g, x), NEW S
  PROVE  LET n == Cardinality(At(S))
             m == Cardinality({h \in Goroutines : pc'[h] \in S})
         IN  /\ n \in Nat /\ m \in Nat
             /\ (pc[g] \in S <=> x \in S) => m = n
             /\ pc[g] \notin S /\ x \in S => m = n + 1
             /\ pc[g] \in S /\ x \notin S => m = n - 1 /\ n > 0
  <1> DEFINE A == At(S)
             B == {h \in Goroutines : pc'[h] \in S}
  <1>1. pc' = [pc EXCEPT ![g] = x]
    BY DEF Goto
  <1>2. IsFiniteSet(A) /\ IsFiniteSet(B)
    BY GateConstants, FS_Subset DEF At
  <1>3. Cardinality(A) \in Nat /\ Cardinality(B) \in Nat
    BY <1>2, FS_CardinalityType
  <1>4. CASE pc[g] \in S <=> x \in S
    <2>1. A = B
      BY <1>1, <1>4 DEF At
    <2> QED BY <1>3, <1>4, <2>1
  <1>5. CASE pc[g] \notin S /\ x \in S
    <2>1. B = A \cup {g} /\ g \notin A
      BY <1>1, <1>5 DEF At
    <2>2. Cardinality(B) = Cardinality(A) + 1
      <3> HIDE DEF A, B
      <3> QED BY <1>2, <2>1, FS_AddElement
    <2> QED BY <1>3, <1>5, <2>2
  <1>6. CASE pc[g] \in S /\ x \notin S
    <2>1. B = A \ {g} /\ g \in A
      BY <1>1, <1>6 DEF At
    <2>2. Cardinality(B) = Cardinality(A) - 1
      <3> HIDE DEF A, B
      <3> QED BY <1>2, <2>1, FS_RemoveElement
    <2> QED BY <1>3, <1>6, <2>2
  <1> QED BY <1>4, <1>5, <1>6

\* A goroutine that enters the labels S adds one to them.
LEMMA Enter ==
  ASSUME pc \in [Goroutines -> PCs], NEW g \in Goroutines, NEW x, Goto(g, x), NEW S,
         pc[g] \notin S, x \in S
  PROVE  /\ Cardinality(At(S)) \in Nat
         /\ Cardinality({h \in Goroutines : pc'[h] \in S}) = Cardinality(At(S)) + 1
  BY Move

\* A goroutine that leaves the labels S takes one from them.
LEMMA Leave ==
  ASSUME pc \in [Goroutines -> PCs], NEW g \in Goroutines, NEW x, Goto(g, x), NEW S,
         pc[g] \in S, x \notin S
  PROVE  /\ Cardinality(At(S)) \in Nat \ {0}
         /\ Cardinality({h \in Goroutines : pc'[h] \in S}) = Cardinality(At(S)) - 1
  BY Move

\* A goroutine that does neither leaves their number alone.
LEMMA Stay ==
  ASSUME pc \in [Goroutines -> PCs], NEW g \in Goroutines, NEW x, Goto(g, x), NEW S,
         pc[g] \in S <=> x \in S
  PROVE  Cardinality({h \in Goroutines : pc'[h] \in S}) = Cardinality(At(S))
  BY Move

\* The token bucket's part of the type invariant.
LEMMA RateType ==
  ASSUME RateTypeOK
  PROVE  TakeToken \/ RefuseToken \/ RateTick \/ UNCHANGED rateVars => RateTypeOK'
  <1>1. \A a, b \in Nat \ {0} : a * b \in Nat \ {0}
    BY Z3
  <1>2. MaxTokens \in Nat \ {0} /\ MaxRefillAge \in Nat \ {0}
    BY <1>1, RateConstants DEF MaxTokens, MaxRefillAge
  <1>3. TokensToAdd \in Nat
    <2>1. \A a, b \in Nat : a * b \in Nat
      BY Z3
    <2>2. RefillRate * sinceRefill \in Nat
      BY <1>2, <2>1, RateConstants DEF RateTypeOK
    <2>3. \A a \in Nat, b \in Nat \ {0} : a \div b \in Nat
      BY Z3
    <2> QED BY <2>2, <2>3, RateConstants DEF TokensToAdd
  <1>4. Refilled \in 0 .. MaxTokens /\ RefillAge \in 0 .. MaxRefillAge
    BY <1>2, <1>3 DEF Refilled, RefillAge, RateTypeOK
  <1> QED BY <1>2, <1>4 DEF TakeToken, RefuseToken, RateTick, rateVars, RateTypeOK

\* The breaker's type and counter invariants, for each of its steps.
LEMMA BreakerStep ==
  ASSUME BreakerTypeOK, BreakerCounterInv
  PROVE  \/ EnterHalfOpen \/ RejectOpen \/ CloseOnSuccess \/ ResetFailureCount
         \/ CountFailure \/ BreakerTick \/ UNCHANGED breakerVars
         => BreakerTypeOK' /\ BreakerCounterInv'
  <1> USE BreakerConstants DEF BreakerTypeOK, BreakerCounterInv, CircuitStates
  <1>1. EnterHalfOpen => BreakerTypeOK' /\ BreakerCounterInv'
    BY DEF EnterHalfOpen
  <1>2. RejectOpen => BreakerTypeOK' /\ BreakerCounterInv'
    BY DEF RejectOpen, breakerVars
  <1>3. CloseOnSuccess => BreakerTypeOK' /\ BreakerCounterInv'
    BY DEF CloseOnSuccess
  <1>4. ResetFailureCount => BreakerTypeOK' /\ BreakerCounterInv'
    BY DEF ResetFailureCount
  <1>5. CountFailure => BreakerTypeOK' /\ BreakerCounterInv'
    BY DEF CountFailure
  <1>6. BreakerTick => BreakerTypeOK' /\ BreakerCounterInv'
    BY DEF BreakerTick, ResetDue
  <1>7. UNCHANGED breakerVars => BreakerTypeOK' /\ BreakerCounterInv'
    BY DEF breakerVars
  <1> QED BY <1>1, <1>2, <1>3, <1>4, <1>5, <1>6, <1>7

\* The slots' part of the invariant, in terms of the numbers of goroutines.
SlotInv == LimiterTypeOK /\ kept \in Nat /\ SlotAccounting /\ LimitBound

\* A goroutine that moves without touching the limiter keeps the accounting,
\* as long as it neither enters nor leaves the labels that own a slot.
LEMMA Steady ==
  ASSUME pc \in [Goroutines -> PCs], SlotInv,
         NEW g \in Goroutines, NEW x, Goto(g, x),
         UNCHANGED <<limiterVars, kept>>,
         pc[g] \in Counted <=> x \in Counted,
         HasSem => (pc[g] \in SemHolders <=> x \in SemHolders)
  PROVE  SlotInv'
  <1>1. Cardinality({h \in Goroutines : pc'[h] \in Counted}) = Cardinality(At(Counted))
    BY Move
  <1>2. HasSem => Cardinality({h \in Goroutines : pc'[h] \in SemHolders})
                    = Cardinality(At(SemHolders))
    BY Move
  <1>3. UNCHANGED <<mode, sem, currentConnections, kept>>
    BY DEF limiterVars
  <1> QED BY <1>1, <1>2, <1>3 DEF SlotInv, SlotAccounting, LimiterTypeOK, LimitBound, At, HasSem

\* No step changes the backpressure mode.
LEMMA ModeKept == ASSUME NEW g \in Goroutines, Call(g) PROVE mode' = mode
  <1> USE DEF limiterVars
  <1>1. AcquireDrop(g) => mode' = mode
    BY DEF AcquireDrop, AcquireOk, AcquireFull
  <1>2. AcquireSem(g) \/ WaitSend(g) => mode' = mode
    BY DEF AcquireSem, WaitSend, SemSend
  <1>3. AcquireCount(g) \/ FailureRelease(g) \/ FailureUncount(g) => mode' = mode
    BY DEF AcquireCount, CountUp, FailureRelease, SemReceive, FailureUncount, CountDown
  <1>4. \/ AllowLoad(g) \/ AllowProbe(g) \/ AllowRate(g) \/ WaitGiveUp(g) \/ Refuse(g)
        \/ Operation(g) \/ SuccessLoad(g) \/ SuccessSettle(g) \/ FailureCount(g)
        => mode' = mode
    BY DEF AllowLoad, AllowProbe, AllowRate, WaitGiveUp, Refuse, Operation,
           SuccessLoad, SuccessSettle, FailureCount
  <1> QED BY <1>1, <1>2, <1>3, <1>4 DEF Call

\* One step of one goroutine preserves the accounting of the slots.
LEMMA SlotStep ==
  ASSUME TypeOK, SlotInv, SemPath, NEW g \in Goroutines, Call(g)
  PROVE  SlotInv'
  <1>0. pc \in [Goroutines -> PCs] /\ sem \in Nat /\ currentConnections \in Int
    BY DEF TypeOK, LimiterTypeOK
  <1>m. mode' = mode
    BY ModeKept
  <1>1. CASE AllowLoad(g)
    <2>1. \E x \in {"probe", "rate"} : Goto(g, x)
      BY <1>1 DEF AllowLoad
    <2>2. pc[g] = "idle" /\ UNCHANGED <<limiterVars, kept>>
      BY <1>1 DEF AllowLoad
    <2> QED BY <1>0, <2>1, <2>2, Steady DEF Counted, SemHolders
  <1>2. CASE AllowProbe(g)
    <2>1. \E x \in {"idle", "rate"} : Goto(g, x)
      BY <1>2 DEF AllowProbe
    <2>2. pc[g] = "probe" /\ UNCHANGED <<limiterVars, kept>>
      BY <1>2 DEF AllowProbe
    <2> QED BY <1>0, <2>1, <2>2, Steady DEF Counted, SemHolders
  <1>3. CASE AllowRate(g)
    <2>1. \E x \in {"acquire", "refused"} : Goto(g, x)
      BY <1>3 DEF AllowRate
    <2>2. pc[g] = "rate" /\ UNCHANGED <<limiterVars, kept>>
      BY <1>3 DEF AllowRate
    <2> QED BY <1>0, <2>1, <2>2, Steady DEF Counted, SemHolders
  <1>4. CASE AcquireDrop(g)
    <2>1. CASE AcquireOk /\ Goto(g, "running")
      <3>1. pc[g] = "acquire" /\ ~ HasSem /\ kept' = kept
        BY <1>4 DEF AcquireDrop
      <3>2. Cardinality({h \in Goroutines : pc'[h] \in Counted}) = Cardinality(At(Counted)) + 1
            /\ Cardinality(At(Counted)) \in Nat
        BY <1>0, <2>1, <3>1, Enter DEF Counted
      <3>3. /\ currentConnections < MaxConnections /\ sem' = sem
            /\ currentConnections' = currentConnections + 1
        BY <2>1 DEF AcquireOk
      <3> QED BY <1>0, <1>m, <3>1, <3>2, <3>3, LimitPositive
              DEF SlotInv, SlotAccounting, LimiterTypeOK, LimitBound, At, HasSem
    <2>2. CASE AcquireFull /\ Goto(g, "refused")
      <3>1. pc[g] = "acquire" /\ UNCHANGED <<limiterVars, kept>>
        BY <1>4, <2>2 DEF AcquireDrop, AcquireFull
      <3> QED BY <1>0, <2>2, <3>1, Steady DEF Counted, SemHolders
    <2> QED BY <1>4, <2>1, <2>2 DEF AcquireDrop
  <1>5. ASSUME SemSend, Goto(g, "counting"), pc[g] \in {"acquire", "waiting"},
               HasSem, UNCHANGED kept
        PROVE  SlotInv'
    <2>1. Cardinality({h \in Goroutines : pc'[h] \in Counted}) = Cardinality(At(Counted))
      BY <1>0, <1>5, Stay DEF Counted
    <2>2. Cardinality({h \in Goroutines : pc'[h] \in SemHolders}) = Cardinality(At(SemHolders)) + 1
          /\ Cardinality(At(SemHolders)) \in Nat
      BY <1>0, <1>5, Enter DEF SemHolders
    <2>3. sem # MaxConnections /\ sem' = sem + 1 /\ currentConnections' = currentConnections
      BY <1>5 DEF SemSend, SemFull
    <2> QED BY <1>0, <1>m, <1>5, <2>1, <2>2, <2>3, LimitPositive
            DEF SlotInv, SlotAccounting, LimiterTypeOK, LimitBound, At, HasSem
  <1>6. CASE AcquireSem(g)
    <2>1. CASE SemSend /\ Goto(g, "counting")
      <3>1. pc[g] = "acquire" /\ HasSem /\ UNCHANGED kept
        BY <1>6 DEF AcquireSem
      <3> QED BY <1>5, <2>1, <3>1
    <2>2. CASE SemFull /\ UNCHANGED limiterVars
               /\ Goto(g, IF MayWait THEN "waiting" ELSE "refused")
      <3>1. \E x \in {"waiting", "refused"} : Goto(g, x)
        BY <2>2
      <3>2. pc[g] = "acquire" /\ UNCHANGED <<limiterVars, kept>>
        BY <1>6, <2>2 DEF AcquireSem
      <3> QED BY <1>0, <3>1, <3>2, Steady DEF Counted, SemHolders
    <2> QED BY <1>6, <2>1, <2>2 DEF AcquireSem
  <1>7. CASE WaitSend(g)
    BY <1>5, <1>7 DEF WaitSend, SemPath
  <1>8. CASE WaitGiveUp(g)
    BY <1>0, <1>8, Steady DEF Counted, SemHolders, WaitGiveUp
  <1>9. CASE AcquireCount(g)
    <2>1. pc[g] = "counting" /\ Goto(g, "running") /\ kept' = kept /\ HasSem
      BY <1>9 DEF AcquireCount, SemPath
    <2>2. sem' = sem /\ currentConnections' = currentConnections + 1
      BY <1>9 DEF AcquireCount, CountUp
    <2>3. Cardinality({h \in Goroutines : pc'[h] \in Counted}) = Cardinality(At(Counted)) + 1
          /\ Cardinality(At(Counted)) \in Nat
      BY <1>0, <2>1, Enter DEF Counted
    <2>4. Cardinality({h \in Goroutines : pc'[h] \in SemHolders}) = Cardinality(At(SemHolders))
      BY <1>0, <2>1, Stay DEF SemHolders
    <2> QED BY <1>0, <1>m, <2>1, <2>2, <2>3, <2>4
            DEF SlotInv, SlotAccounting, LimiterTypeOK, LimitBound, At, HasSem
  <1>10. CASE Refuse(g)
    BY <1>0, <1>10, Steady DEF Counted, SemHolders, Refuse
  <1>11. CASE Operation(g)
    BY <1>0, <1>11, Steady DEF Counted, SemHolders, Operation
  <1>12. CASE SuccessLoad(g)
    BY <1>0, <1>12, Steady DEF Counted, SemHolders, SuccessLoad
  <1>13. CASE SuccessSettle(g)
    <2>1. pc[g] = "settle" /\ Goto(g, "idle") /\ kept' = kept + 1
          /\ sem' = sem /\ currentConnections' = currentConnections
      BY <1>13 DEF SuccessSettle, limiterVars
    <2>2. Cardinality({h \in Goroutines : pc'[h] \in Counted}) = Cardinality(At(Counted)) - 1
          /\ Cardinality(At(Counted)) \in Nat
      BY <1>0, <2>1, Leave DEF Counted
    <2>3. Cardinality({h \in Goroutines : pc'[h] \in SemHolders}) = Cardinality(At(SemHolders)) - 1
          /\ Cardinality(At(SemHolders)) \in Nat
      BY <1>0, <2>1, Leave DEF SemHolders
    <2> QED BY <1>0, <1>m, <2>1, <2>2, <2>3
            DEF SlotInv, SlotAccounting, LimiterTypeOK, LimitBound, At, HasSem
  <1>14. CASE FailureCount(g)
    <2>1. PICK x \in {"release", "uncount"} : Goto(g, x) /\ (HasSem => x = "release")
      BY <1>14 DEF FailureCount
    <2>2. pc[g] = "failed" /\ UNCHANGED <<limiterVars, kept>>
      BY <1>14 DEF FailureCount
    <2> QED BY <1>0, <2>1, <2>2, Steady DEF Counted, SemHolders
  <1>15. CASE FailureRelease(g)
    <2>1. pc[g] = "release" /\ Goto(g, "uncount") /\ kept' = kept /\ HasSem
          /\ currentConnections' = currentConnections
      BY <1>15 DEF FailureRelease, SemReceive, SemPath
    <2>2. Cardinality({h \in Goroutines : pc'[h] \in Counted}) = Cardinality(At(Counted))
      BY <1>0, <2>1, Stay DEF Counted
    <2>3. /\ Cardinality({h \in Goroutines : pc'[h] \in SemHolders}) = Cardinality(At(SemHolders)) - 1
          /\ Cardinality(At(SemHolders)) \in Nat /\ Cardinality(At(SemHolders)) > 0
      BY <1>0, <2>1, Leave DEF SemHolders
    <2>4. sem = Cardinality(At(SemHolders)) + kept /\ kept \in Nat
      BY <2>1 DEF SlotInv, SlotAccounting
    <2>5. sem' = sem - 1
      BY <1>0, <1>15, <2>3, <2>4 DEF FailureRelease, SemReceive
    <2> QED BY <1>0, <1>m, <2>1, <2>2, <2>3, <2>4, <2>5, LimitPositive
            DEF SlotInv, SlotAccounting, LimiterTypeOK, LimitBound, At, HasSem
  <1>16. CASE FailureUncount(g)
    <2>1. pc[g] = "uncount" /\ Goto(g, "idle") /\ kept' = kept
          /\ sem' = sem /\ currentConnections' = currentConnections - 1
      BY <1>16 DEF FailureUncount, CountDown
    <2>2. Cardinality({h \in Goroutines : pc'[h] \in Counted}) = Cardinality(At(Counted)) - 1
          /\ Cardinality(At(Counted)) \in Nat
      BY <1>0, <2>1, Leave DEF Counted
    <2>3. Cardinality({h \in Goroutines : pc'[h] \in SemHolders}) = Cardinality(At(SemHolders))
      BY <1>0, <2>1, Stay DEF SemHolders
    <2> QED BY <1>0, <1>m, <2>1, <2>2, <2>3, LimitPositive
            DEF SlotInv, SlotAccounting, LimiterTypeOK, LimitBound, At, HasSem
  <1> QED BY <1>1, <1>2, <1>3, <1>4, <1>6, <1>7, <1>8, <1>9, <1>10, <1>11,
             <1>12, <1>13, <1>14, <1>15, <1>16 DEF Call

\* One step of one goroutine keeps pc and seen within their types, stays off
\* the semaphore's path where there is none, and takes at most one step of the
\* breaker and one of the token bucket.
LEMMA CallStep ==
  ASSUME TypeOK, SemPath, NEW g \in Goroutines, Call(g)
  PROVE  /\ pc' \in [Goroutines -> PCs] /\ seen' \in [Goroutines -> CircuitStates]
         /\ SemPath'
         /\ \/ EnterHalfOpen \/ RejectOpen \/ CloseOnSuccess \/ ResetFailureCount
            \/ CountFailure \/ UNCHANGED breakerVars
         /\ TakeToken \/ RefuseToken \/ UNCHANGED rateVars
  <1>0. /\ pc \in [Goroutines -> PCs] /\ seen \in [Goroutines -> CircuitStates]
        /\ state \in CircuitStates
    BY DEF TypeOK, BreakerTypeOK
  <1>1. \E x \in PCs : Goto(g, x) /\ (x \in {"waiting", "counting", "release"} => HasSem)
    <2> USE DEF PCs
    <2>1. AllowLoad(g) \/ AllowProbe(g) \/ AllowRate(g) \/ Refuse(g) \/ WaitGiveUp(g)
          \/ Operation(g) \/ SuccessLoad(g) \/ SuccessSettle(g) \/ FailureUncount(g)
          => \E x \in PCs \ {"waiting", "counting", "release"} : Goto(g, x)
      BY DEF AllowLoad, AllowProbe, AllowRate, Refuse, WaitGiveUp, Operation,
             SuccessLoad, SuccessSettle, FailureUncount
    <2>2. AcquireDrop(g) \/ AcquireCount(g) \/ FailureRelease(g)
          => \E x \in PCs \ {"waiting", "counting", "release"} : Goto(g, x)
      BY DEF AcquireDrop, AcquireCount, FailureRelease
    <2>3. AcquireSem(g) \/ WaitSend(g)
          => HasSem /\ \E x \in PCs : Goto(g, x)
      BY DEF AcquireSem, WaitSend, SemPath
    <2>4. FailureCount(g) => \E x \in PCs : Goto(g, x) /\ (x = "release" => HasSem)
                                          /\ x \notin {"waiting", "counting"}
      BY DEF FailureCount
    <2> QED BY <2>1, <2>2, <2>3, <2>4 DEF Call
  <1>2. pc' \in [Goroutines -> PCs] /\ SemPath'
    BY <1>0, <1>1, ModeKept DEF Goto, SemPath, HasSem
  <1>3. seen' \in [Goroutines -> CircuitStates]
    BY <1>0 DEF Call, AllowLoad, AllowProbe, AllowRate, AcquireDrop, AcquireSem, WaitSend,
       WaitGiveUp, AcquireCount, Refuse, Operation, SuccessLoad, SuccessSettle,
       FailureCount, FailureRelease, FailureUncount
  <1>4. \/ EnterHalfOpen \/ RejectOpen \/ CloseOnSuccess \/ ResetFailureCount
        \/ CountFailure \/ UNCHANGED breakerVars
    BY DEF Call, AllowLoad, AllowProbe, AllowRate, AcquireDrop, AcquireSem, WaitSend,
       WaitGiveUp, AcquireCount, Refuse, Operation, SuccessLoad, SuccessSettle,
       FailureCount, FailureRelease, FailureUncount
  <1>5. TakeToken \/ RefuseToken \/ UNCHANGED rateVars
    BY DEF Call, AllowLoad, AllowProbe, AllowRate, AcquireDrop, AcquireSem, WaitSend,
       WaitGiveUp, AcquireCount, Refuse, Operation, SuccessLoad, SuccessSettle,
       FailureCount, FailureRelease, FailureUncount
  <1> QED BY <1>2, <1>3, <1>4, <1>5

\* The invariant holds when the gate is created.
LEMMA InitInv == Init => IndInv
  <1> SUFFICES ASSUME Init PROVE IndInv
    OBVIOUS
  <1>1. RateTypeOK
    <2>1. \A a, b \in Nat \ {0} : a * b \in Nat \ {0}
      BY Z3
    <2>2. MaxTokens \in Nat /\ MaxRefillAge \in Nat
      BY <2>1, RateConstants DEF MaxTokens, MaxRefillAge
    <2> QED BY <2>2 DEF Init, RateInit, RateTypeOK
  <1>2. TypeOK
    BY <1>1, BreakerConstants, LimitPositive
       DEF Init, BreakerInit, LimiterInit, TypeOK, BreakerTypeOK, CircuitStates,
           LimiterTypeOK, PCs
  <1>3. BreakerCounterInv /\ LimitBound /\ SemPath
    BY BreakerConstants, LimitPositive
       DEF Init, BreakerInit, LimiterInit, BreakerCounterInv, LimitBound, SemPath, HasSem
  <1>4. At(Counted) = {} /\ At(SemHolders) = {}
    BY DEF Init, At, Counted, SemHolders
  <1>5. SlotAccounting
    BY <1>4, FS_EmptySet DEF Init, LimiterInit, SlotAccounting
  <1> QED BY <1>2, <1>3, <1>5 DEF IndInv

\* Every step preserves the invariant.
LEMMA NextInv == IndInv /\ [Next]_vars => IndInv'
  <1> SUFFICES ASSUME IndInv, [Next]_vars PROVE IndInv'
    OBVIOUS
  <1>0. /\ BreakerTypeOK /\ BreakerCounterInv /\ RateTypeOK /\ TypeOK /\ SemPath
        /\ SlotInv
    BY DEF IndInv, TypeOK, SlotInv
  <1>1. CASE Tick
    <2>1. BreakerTypeOK' /\ BreakerCounterInv'
      BY <1>0, <1>1, BreakerStep DEF Tick
    <2>2. RateTypeOK'
      BY <1>0, <1>1, RateType DEF Tick
    <2>3. UNCHANGED <<mode, sem, currentConnections, pc, seen, kept>>
      BY <1>1 DEF Tick, limiterVars, callVars
    <2> QED BY <1>0, <2>1, <2>2, <2>3
            DEF IndInv, TypeOK, LimiterTypeOK, SlotAccounting, LimitBound, SemPath, At, HasSem
  <1>2. ASSUME NEW g \in Goroutines, Call(g) PROVE IndInv'
    <2>1. BreakerTypeOK' /\ BreakerCounterInv'
      BY <1>0, <1>2, CallStep, BreakerStep
    <2>2. RateTypeOK'
      BY <1>0, <1>2, CallStep, RateType
    <2>3. SlotInv'
      BY <1>0, <1>2, SlotStep
    <2>4. SemPath' /\ pc' \in [Goroutines -> PCs] /\ seen' \in [Goroutines -> CircuitStates]
      BY <1>0, <1>2, CallStep
    <2> QED BY <2>1, <2>2, <2>3, <2>4 DEF IndInv, TypeOK, SlotInv
  <1>3. CASE UNCHANGED vars
    <2>1. UNCHANGED <<breakerVars, rateVars, mode, sem, currentConnections, pc, seen, kept>>
      BY <1>3 DEF vars, limiterVars, callVars
    <2>2. BreakerTypeOK' /\ BreakerCounterInv' /\ RateTypeOK'
      BY <1>0, <2>1, BreakerStep, RateType
    <2> QED BY <1>0, <2>1, <2>2
            DEF IndInv, TypeOK, LimiterTypeOK, SlotAccounting, LimitBound, SemPath, At, HasSem
  <1> QED BY <1>1, <1>2, <1>3 DEF Next

\* The bound on concurrent operations follows from the accounting.
LEMMA BoundFromSlots == IndInv => ConcurrencyBound
  <1> SUFFICES ASSUME IndInv PROVE ConcurrencyBound
    OBVIOUS
  <1>1. /\ sem \in Nat /\ kept \in Nat
        /\ IF HasSem THEN sem <= MaxConnections ELSE currentConnections <= MaxConnections
        /\ currentConnections = Cardinality(At(Counted)) + kept
        /\ HasSem => sem = Cardinality(At(SemHolders)) + kept
    BY DEF IndInv, TypeOK, LimiterTypeOK, LimitBound, SlotAccounting
  <1>2. /\ IsFiniteSet(At(Counted)) /\ IsFiniteSet(At(SemHolders))
        /\ At({"running"}) \subseteq At(Counted)
        /\ At({"running"}) \subseteq At(SemHolders)
        /\ At({"release"}) \subseteq At(SemHolders)
    BY GateConstants, FS_Subset DEF At, Counted, SemHolders
  <1>3. /\ Cardinality(At({"running"})) \in Nat
        /\ Cardinality(At(Counted)) \in Nat /\ Cardinality(At(SemHolders)) \in Nat
        /\ Cardinality(At({"running"})) <= Cardinality(At(Counted))
        /\ Cardinality(At({"running"})) <= Cardinality(At(SemHolders))
    BY <1>2, FS_Subset, FS_CardinalityType
  <1>4. Cardinality(At({"running"})) <= MaxConnections
    BY <1>1, <1>3, LimitPositive DEF HasSem
  <1>5. At({"release"}) # {} => sem > 0
    <2> SUFFICES ASSUME At({"release"}) # {} PROVE sem > 0
      OBVIOUS
    <2>1. HasSem
      BY DEF IndInv, SemPath, At
    <2>2. Cardinality(At(SemHolders)) # 0
      BY <1>2, FS_EmptySet
    <2> QED BY <1>1, <1>3, <2>1, <2>2
  <1> QED BY <1>1, <1>4, <1>5 DEF ConcurrencyBound

\* For any goroutines, limits, threshold, timeout, rate and backpressure mode:
\* the gate is well typed, a closed breaker is below its threshold, every slot
\* belongs to a request in flight or to one that returned with success, and at
\* most maxConnections operations run at once.
THEOREM GateSafety ==
  Spec => [](TypeOK /\ BreakerCounterInv /\ SlotAccounting /\ ConcurrencyBound)
  <1>1. IndInv => TypeOK /\ BreakerCounterInv /\ SlotAccounting /\ ConcurrencyBound
    BY BoundFromSlots DEF IndInv
  <1> QED BY InitInv, NextInv, <1>1, PTL DEF Spec

-----------------------------------------------------------------------------
(* Calls and transactions                                                  *)

\* Goroutines whose Begin left its slot behind: the transaction is about to be
\* returned, or open.
KeptBy ==
    {g \in Goroutines : /\ pc[g] = "idle"
                        /\ op[g] \in {"fn", "end"} \/ (op[g] = "begin" /\ started[g])}

\* Where a goroutine may be in the gate, call by call.
CallShape ==
    \A g \in Goroutines :
        /\ op[g] \in {"none", "fn", "end"} => pc[g] = "idle"
        /\ started[g] => op[g] = "begin" /\ pc[g] \in {"succeeded", "settle", "idle"}

\* The inductive invariant of the database: the gate's, and every open
\* transaction has one of the slots that returned calls have kept.
DBInv ==
    /\ IndInv
    /\ DBTypeOK
    /\ CallShape
    /\ Cardinality(KeptBy) <= kept

\* The set of these goroutines is finite.
LEMMA KeptFinite == IsFiniteSet(KeptBy)
  BY GateConstants, FS_Subset DEF KeptBy

\* Commit or Rollback takes its slot back into the hands of the gate.
LEMMA SettleStep ==
  ASSUME IndInv, NEW g \in Goroutines, pc[g] = "idle", kept > 0,
         NEW x \in {"succeeded", "failed"}, Settle(g, x)
  PROVE  IndInv'
  <1>0. /\ BreakerTypeOK /\ BreakerCounterInv /\ RateTypeOK /\ TypeOK /\ SemPath
        /\ SlotAccounting /\ LimitBound /\ LimiterTypeOK /\ kept \in Nat
        /\ pc \in [Goroutines -> PCs] /\ seen \in [Goroutines -> CircuitStates]
    BY DEF IndInv, TypeOK
  <1>1. /\ Goto(g, x) /\ kept' = kept - 1
        /\ UNCHANGED <<breakerVars, rateVars, mode, sem, currentConnections, seen>>
    BY DEF Settle, limiterVars
  <1>2. BreakerTypeOK' /\ BreakerCounterInv' /\ RateTypeOK'
    BY <1>0, <1>1, BreakerStep, RateType
  <1>3. /\ Cardinality({h \in Goroutines : pc'[h] \in Counted}) = Cardinality(At(Counted)) + 1
        /\ Cardinality(At(Counted)) \in Nat
    BY <1>0, <1>1, Enter DEF Counted
  <1>4. /\ Cardinality({h \in Goroutines : pc'[h] \in SemHolders}) = Cardinality(At(SemHolders)) + 1
        /\ Cardinality(At(SemHolders)) \in Nat
    BY <1>0, <1>1, Enter DEF SemHolders
  <1>5. SlotAccounting' /\ LimitBound' /\ LimiterTypeOK' /\ kept' \in Nat
    BY <1>0, <1>1, <1>3, <1>4 DEF SlotAccounting, LimitBound, LimiterTypeOK, At, HasSem
  <1>6. pc' \in [Goroutines -> PCs] /\ SemPath'
    BY <1>0, <1>1 DEF Goto, PCs, SemPath, HasSem
  <1> QED BY <1>0, <1>1, <1>2, <1>5, <1>6 DEF IndInv, TypeOK

\* Every step of a goroutine is a step of the gate, or none of it, or ends a
\* transaction with its slot.
LEMMA GoroutineGate ==
  ASSUME NEW g \in Goroutines, Goroutine(g) \/ AwaitDone(g)
  PROVE  \/ Call(g)
         \/ UNCHANGED vars
         \/ /\ pc[g] = "idle" /\ op[g] = "end"
            /\ \E x \in {"succeeded", "failed"} : Settle(g, x)
  <1>1. ASSUME NEW c \in {"exec", "begin"}, Start(g, c) PROVE Call(g)
    BY <1>1 DEF Start, Call
  <1>2. GateStep(g) => Call(g)
    BY DEF GateStep, Call
  <1>3. AttemptOk(g) \/ GiveUp(g) => Call(g)
    BY DEF AttemptOk, GiveUp, Call, Operation
  <1>4. \/ Retry(g) \/ Return(g) \/ BeginFailed(g) \/ BeginReturn(g) \/ FnReturn(g)
        \/ RollbackOk(g) \/ AwaitDone(g)
        => UNCHANGED vars
    BY DEF Retry, Return, BeginFailed, BeginReturn, FnReturn, RollbackOk, AwaitDone
  <1>5. Commit(g) \/ RollbackFailed(g)
        => pc[g] = "idle" /\ op[g] = "end" /\ \E x \in {"succeeded", "failed"} : Settle(g, x)
    BY DEF Commit, RollbackFailed
  <1> QED BY <1>1, <1>2, <1>3, <1>4, <1>5 DEF Goroutine

\* The type invariant of what the database adds to the gate.
LEMMA DBTypeStep ==
  ASSUME DBTypeOK, TypeOK', NEW g \in Goroutines, Goroutine(g) \/ AwaitDone(g)
  PROVE  DBTypeOK'
  <1> USE RetryConstants DEF DBTypeOK, Ops, TxStates
  <1>1. ASSUME NEW c \in {"exec", "begin"}, Start(g, c) PROVE DBTypeOK'
    BY <1>1 DEF Start, SetOp
  <1>2. CASE GateStep(g)
    BY <1>2 DEF GateStep, dbOnly
  <1>3. CASE AttemptOk(g)
    BY <1>3 DEF AttemptOk
  <1>4. CASE GiveUp(g)
    BY <1>4 DEF GiveUp
  <1>5. CASE Retry(g)
    BY <1>5 DEF Retry, MayRetry
  <1>6. CASE Return(g) \/ BeginFailed(g)
    BY <1>6 DEF Return, BeginFailed, SetOp
  <1>7. CASE BeginReturn(g) \/ FnReturn(g) \/ AwaitDone(g)
    BY <1>7 DEF BeginReturn, FnReturn, AwaitDone, SetOp
  <1>8. CASE Commit(g)
    BY <1>8 DEF Commit, CommitOutcomes, SetOp
  <1>9. CASE RollbackOk(g) \/ RollbackFailed(g)
    BY <1>9 DEF RollbackOk, RollbackFailed, SetOp
  <1> QED BY <1>1, <1>2, <1>3, <1>4, <1>5, <1>6, <1>7, <1>8, <1>9 DEF Goroutine

\* A goroutine that is in the gate moves on in it, or returns from it.
GatePath(g) ==
    /\ pc[g] # "idle"
    /\ \E x \in PCs : Goto(g, x)
    /\ pc[g] = "succeeded" => pc'[g] = "settle"
    /\ pc[g] = "settle" => pc'[g] = "idle" /\ kept' = kept + 1
    /\ pc[g] # "settle" => kept' = kept

LEMMA GatePaths ==
  ASSUME TypeOK, NEW g \in Goroutines, GateStep(g)
  PROVE  GatePath(g)
  <1>0. pc \in [Goroutines -> PCs]
    BY DEF TypeOK
  <1> USE DEF PCs, Goto, GatePath
  <1>1. CASE AllowProbe(g) \/ AllowRate(g) \/ WaitGiveUp(g) \/ Refuse(g)
    BY <1>0, <1>1 DEF AllowProbe, AllowRate, WaitGiveUp, Refuse
  <1>2. CASE AcquireDrop(g) \/ AcquireSem(g) \/ WaitSend(g) \/ AcquireCount(g)
    BY <1>0, <1>2 DEF AcquireDrop, AcquireSem, WaitSend, AcquireCount
  <1>3. CASE SuccessLoad(g) \/ SuccessSettle(g)
    BY <1>0, <1>3 DEF SuccessLoad, SuccessSettle
  <1>4. CASE FailureCount(g) \/ FailureRelease(g) \/ FailureUncount(g)
    BY <1>0, <1>4 DEF FailureCount, FailureRelease, FailureUncount
  <1> QED BY <1>1, <1>2, <1>3, <1>4 DEF GateStep

\* What a step of a goroutine does to its place, and to the others' places.
LEMMA ShapeStep ==
  ASSUME TypeOK, DBTypeOK, CallShape, NEW g \in Goroutines, Goroutine(g) \/ AwaitDone(g)
  PROVE  CallShape'
  <1>0. /\ pc \in [Goroutines -> PCs] /\ op \in [Goroutines -> Ops]
        /\ started \in [Goroutines -> BOOLEAN]
    BY DEF DBTypeOK, TypeOK
  <1> USE DEF CallShape, Goto, SetOp
  <1>1. ASSUME NEW c \in {"exec", "begin"}, Start(g, c) PROVE CallShape'
    BY <1>0, <1>1 DEF Start, AllowLoad
  <1>2. CASE GateStep(g)
    <2>1. GatePath(g) /\ op' = op /\ started' = started
      BY <1>2, GatePaths DEF GateStep, dbOnly
    <2> QED BY <1>0, <2>1 DEF GatePath
  <1>3. CASE AttemptOk(g)
    BY <1>0, <1>3 DEF AttemptOk
  <1>4. CASE GiveUp(g)
    BY <1>0, <1>4 DEF GiveUp
  <1>5. CASE Retry(g) \/ AwaitDone(g)
    BY <1>5 DEF Retry, AwaitDone, vars, callVars
  <1>6. CASE Return(g) \/ BeginFailed(g)
    BY <1>0, <1>6 DEF Return, BeginFailed, vars, callVars
  <1>7. CASE BeginReturn(g)
    BY <1>0, <1>7 DEF BeginReturn, vars, callVars
  <1>8. CASE FnReturn(g)
    BY <1>0, <1>8 DEF FnReturn, vars, callVars
  <1>9. CASE Commit(g)
    BY <1>0, <1>9 DEF Commit, Settle
  <1>10. CASE RollbackOk(g)
    BY <1>0, <1>10 DEF RollbackOk, vars, callVars
  <1>11. CASE RollbackFailed(g)
    BY <1>0, <1>11 DEF RollbackFailed, Settle
  <1> QED BY <1>1, <1>2, <1>3, <1>4, <1>5, <1>6, <1>7, <1>8, <1>9, <1>10, <1>11 DEF Goroutine

\* Counting a set that changes by one element at most.
LEMMA CountStep ==
  ASSUME NEW S, NEW T, NEW x, IsFiniteSet(S), NEW k \in Nat, NEW j \in Nat, Cardinality(S) <= k,
         \/ T \subseteq S /\ k <= j
         \/ T \subseteq S \cup {x} /\ k + 1 <= j
         \/ T \subseteq S \ {x} /\ x \in S /\ k <= j + 1
  PROVE  Cardinality(T) <= j
  <1>1. /\ Cardinality(S) \in Nat
        /\ IsFiniteSet(S \cup {x}) /\ Cardinality(S \cup {x}) <= Cardinality(S) + 1
        /\ IsFiniteSet(S \ {x}) /\ (x \in S => Cardinality(S \ {x}) = Cardinality(S) - 1)
    BY FS_CardinalityType, FS_AddElement, FS_RemoveElement
  <1>2. CASE T \subseteq S /\ k <= j
    <2>1. Cardinality(T) <= Cardinality(S) /\ Cardinality(T) \in Nat
      BY <1>2, FS_Subset, FS_CardinalityType
    <2> QED BY <1>1, <1>2, <2>1
  <1>3. CASE T \subseteq S \cup {x} /\ k + 1 <= j
    <2>1. Cardinality(T) <= Cardinality(S \cup {x}) /\ Cardinality(T) \in Nat /\ Cardinality(S \cup {x}) \in Nat
      BY <1>1, <1>3, FS_Subset, FS_CardinalityType
    <2> QED BY <1>1, <1>3, <2>1
  <1>4. CASE T \subseteq S \ {x} /\ x \in S /\ k <= j + 1
    <2>1. Cardinality(T) <= Cardinality(S \ {x}) /\ Cardinality(T) \in Nat /\ Cardinality(S \ {x}) \in Nat
      BY <1>1, <1>4, FS_Subset, FS_CardinalityType
    <2> QED BY <1>1, <1>4, <2>1
  <1> QED BY <1>2, <1>3, <1>4

\* How a step may change the goroutines with a kept slot, and kept with them.
KeptMoves(g) ==
    \/ KeptBy' \subseteq KeptBy /\ kept <= kept'
    \/ KeptBy' \subseteq KeptBy \cup {g} /\ kept + 1 <= kept'
    \/ KeptBy' \subseteq KeptBy \ {g} /\ g \in KeptBy /\ kept <= kept' + 1

\* Every step of a goroutine is one of these moves.
LEMMA KeptMove ==
  ASSUME DBInv, NEW g \in Goroutines, Goroutine(g) \/ AwaitDone(g)
  PROVE  KeptMoves(g)
  <1>0. /\ pc \in [Goroutines -> PCs] /\ op \in [Goroutines -> Ops]
        /\ started \in [Goroutines -> BOOLEAN] /\ kept \in Nat
        /\ CallShape /\ TypeOK
    BY DEF DBInv, DBTypeOK, TypeOK
  <1> USE DEF CallShape, Goto, SetOp, KeptBy, KeptMoves
  <1>1. ASSUME NEW c \in {"exec", "begin"}, Start(g, c) PROVE KeptMoves(g)
    <2>1. /\ pc[g] = "idle" /\ op[g] = "none" /\ op' = [op EXCEPT ![g] = c]
          /\ UNCHANGED <<started, kept>>
          /\ \E x \in {"probe", "rate"} : pc' = [pc EXCEPT ![g] = x]
      BY <1>1 DEF Start, AllowLoad
    <2> QED BY <1>0, <2>1
  <1>2. CASE GateStep(g)
    <2>1. GatePath(g) /\ op' = op /\ started' = started
      BY <1>0, <1>2, GatePaths DEF GateStep, dbOnly
    <2>2. PICK x \in PCs : Goto(g, x)
      BY <2>1 DEF GatePath
    <2>3. CASE pc[g] = "settle"
      BY <1>0, <2>1, <2>2, <2>3 DEF GatePath
    <2>4. CASE pc[g] # "settle"
      BY <1>0, <2>1, <2>2, <2>4 DEF GatePath
    <2> QED BY <2>3, <2>4
  <1>3. CASE AttemptOk(g)
    BY <1>0, <1>3 DEF AttemptOk
  <1>4. CASE GiveUp(g)
    BY <1>0, <1>4 DEF GiveUp
  <1>5. CASE Retry(g) \/ AwaitDone(g)
    BY <1>0, <1>5 DEF Retry, AwaitDone, vars, callVars
  <1>6. CASE Return(g) \/ BeginFailed(g)
    BY <1>0, <1>6 DEF Return, BeginFailed, vars, callVars
  <1>7. CASE BeginReturn(g)
    BY <1>0, <1>7 DEF BeginReturn, vars, callVars
  <1>8. CASE FnReturn(g)
    BY <1>0, <1>8 DEF FnReturn, vars, callVars
  <1>9. CASE Commit(g) \/ RollbackFailed(g)
    <2>1. /\ pc[g] = "idle" /\ op[g] = "end" /\ op' = [op EXCEPT ![g] = "ending"]
          /\ kept' = kept - 1 /\ started' = started
          /\ \E x \in {"succeeded", "failed"} : pc' = [pc EXCEPT ![g] = x]
      BY <1>9 DEF Commit, RollbackFailed, Settle
    <2>2. g \in KeptBy
      BY <2>1
    <2>3. KeptBy' \subseteq KeptBy
      BY <1>0, <2>1
    <2>4. g \notin KeptBy'
      BY <1>0, <2>1
    <2> QED BY <1>0, <2>1, <2>2, <2>3, <2>4
  <1>10. CASE RollbackOk(g)
    BY <1>0, <1>10 DEF RollbackOk, vars, callVars
  <1> QED BY <1>1, <1>2, <1>3, <1>4, <1>5, <1>6, <1>7, <1>8, <1>9, <1>10 DEF Goroutine

\* Open transactions are never more than the slots kept for them.
LEMMA KeptStep ==
  ASSUME DBInv, NEW g \in Goroutines, Goroutine(g) \/ AwaitDone(g), kept' \in Nat
  PROVE  Cardinality(KeptBy') <= kept'
  <1>0. kept \in Nat /\ IsFiniteSet(KeptBy) /\ Cardinality(KeptBy) <= kept
    BY KeptFinite DEF DBInv, DBTypeOK, TypeOK
  <1> QED BY <1>0, KeptMove, CountStep DEF KeptMoves

\* The invariant holds when the program starts.
LEMMA DBInitInv == DBInit => DBInv
  <1> SUFFICES ASSUME DBInit PROVE DBInv
    OBVIOUS
  <1>1. IndInv
    BY InitInv DEF DBInit
  <1>2. DBTypeOK
    BY <1>1, RetryConstants DEF IndInv, DBInit, DBTypeOK, Ops, TxStates
  <1>3. CallShape /\ KeptBy = {} /\ kept = 0
    BY DEF DBInit, Init, CallShape, KeptBy
  <1> QED BY <1>1, <1>2, <1>3, FS_EmptySet DEF DBInv

\* Every step preserves it.
LEMMA DBNextInv == DBInv /\ [DBNext]_dbVars => DBInv'
  <1> SUFFICES ASSUME DBInv, [DBNext]_dbVars PROVE DBInv'
    OBVIOUS
  <1>0. IndInv /\ DBTypeOK /\ CallShape /\ TypeOK /\ kept \in Nat
    BY DEF DBInv, DBTypeOK, TypeOK
  <1>1. ASSUME NEW g \in Goroutines, Goroutine(g) \/ AwaitDone(g) PROVE DBInv'
    <2>1. IndInv'
      <3>1. CASE Call(g) \/ UNCHANGED vars
        BY <1>0, <3>1, NextInv DEF Next
      <3>2. ASSUME pc[g] = "idle", op[g] = "end",
                   NEW x \in {"succeeded", "failed"}, Settle(g, x)
            PROVE  IndInv'
        <4>1. kept > 0
          <5>1. g \in KeptBy
            BY <3>2 DEF KeptBy
          <5>3. IsFiniteSet(KeptBy)
            BY KeptFinite
          <5>2. Cardinality(KeptBy) # 0 /\ Cardinality(KeptBy) \in Nat
            BY <5>1, <5>3, FS_EmptySet, FS_CardinalityType
          <5> QED BY <1>0, <5>2 DEF DBInv
        <4> QED BY <1>0, <3>2, <4>1, SettleStep
      <3> QED BY <1>1, <3>1, <3>2, GoroutineGate
    <2>2. TypeOK' /\ kept' \in Nat
      BY <2>1 DEF IndInv, TypeOK
    <2> QED BY <1>0, <1>1, <2>1, <2>2, DBTypeStep, ShapeStep, KeptStep DEF DBInv
  <1>2. CASE Tick /\ UNCHANGED dbOnly
    <2>1. IndInv'
      BY <1>0, <1>2, NextInv DEF Next
    <2>2. UNCHANGED <<pc, kept, op, attempt, started, tx, result>>
      BY <1>2 DEF Tick, dbOnly, callVars
    <2> QED BY <1>0, <2>1, <2>2 DEF DBInv, IndInv, DBTypeOK, CallShape, KeptBy
  <1>3. CASE UNCHANGED dbVars
    <2>1. UNCHANGED vars /\ UNCHANGED <<pc, kept, op, attempt, started, tx, result>>
      BY <1>3 DEF dbVars, dbOnly, vars, callVars
    <2>2. IndInv'
      BY <1>0, <2>1, NextInv
    <2> QED BY <1>0, <2>1, <2>2 DEF DBInv, IndInv, DBTypeOK, CallShape, KeptBy
  <1> QED BY <1>1, <1>2, <1>3 DEF DBNext

\* Open transactions own kept slots, running operations own slots of requests in
\* flight, and together these are all there are.
LEMMA OpenBound == DBInv => OpenTransactionsBound
  <1> SUFFICES ASSUME DBInv PROVE OpenTransactionsBound
    OBVIOUS
  <1> DEFINE R == At({"running"})
  <1>1. /\ kept \in Nat /\ sem \in Nat
        /\ IF HasSem THEN sem <= MaxConnections ELSE currentConnections <= MaxConnections
        /\ currentConnections = Cardinality(At(Counted)) + kept
        /\ HasSem => sem = Cardinality(At(SemHolders)) + kept
        /\ Cardinality(KeptBy) <= kept
    BY DEF DBInv, IndInv, TypeOK, LimiterTypeOK, LimitBound, SlotAccounting
  <1>2. /\ IsFiniteSet(At(Counted)) /\ IsFiniteSet(At(SemHolders)) /\ IsFiniteSet(KeptBy)
        /\ IsFiniteSet(R)
        /\ R \subseteq At(Counted) /\ R \subseteq At(SemHolders)
        /\ R \cap KeptBy = {}
        /\ OpenTransactions \cup R \subseteq KeptBy \cup R
    <2>1. /\ IsFiniteSet(At(Counted)) /\ IsFiniteSet(At(SemHolders)) /\ IsFiniteSet(R)
          /\ R \subseteq At(Counted) /\ R \subseteq At(SemHolders)
      BY GateConstants, FS_Subset DEF At, Counted, SemHolders
    <2>2. R \cap KeptBy = {} /\ OpenTransactions \subseteq KeptBy
      BY DEF At, KeptBy, OpenTransactions
    <2> QED BY <2>1, <2>2, KeptFinite
  <1> HIDE DEF R
  <1>3. /\ Cardinality(R) \in Nat /\ Cardinality(KeptBy) \in Nat
        /\ Cardinality(At(Counted)) \in Nat /\ Cardinality(At(SemHolders)) \in Nat
        /\ Cardinality(R) <= Cardinality(At(Counted))
        /\ Cardinality(R) <= Cardinality(At(SemHolders))
    BY <1>2, FS_Subset, FS_CardinalityType
  <1>4. IsFiniteSet(KeptBy \cup R) /\ Cardinality(KeptBy \cup R) = Cardinality(KeptBy) + Cardinality(R)
    <2>1. Cardinality(KeptBy \cap R) = 0
      <3>1. KeptBy \cap R = {}
        BY <1>2
      <3> QED BY <3>1, FS_EmptySet
    <2>2. /\ IsFiniteSet(KeptBy \cup R)
          /\ Cardinality(KeptBy \cup R)
               = Cardinality(KeptBy) + Cardinality(R) - Cardinality(KeptBy \cap R)
      BY <1>2, FS_Union
    <2> QED BY <1>3, <2>1, <2>2
  <1>5. /\ Cardinality(OpenTransactions \cup R) <= Cardinality(KeptBy \cup R)
        /\ Cardinality(OpenTransactions \cup R) \in Nat
    BY <1>2, <1>4, FS_Subset, FS_CardinalityType
  <1> QED BY <1>1, <1>3, <1>4, <1>5, LimitPositive DEF HasSem, OpenTransactionsBound, R

\* Every reachable state of the database satisfies its invariant.
LEMMA DBAlways == DBSpec => []DBInv
  BY DBInitInv, DBNextInv, PTL DEF DBSpec

\* The state of the database calls is well typed (db.go, utils.go).
THEOREM DatabaseTypes == DBSpec => []DBTypeOK
  <1>1. DBInv => DBTypeOK
    BY DEF DBInv
  <1> QED BY DBAlways, <1>1, PTL

\* Also with transactions, whose ends reach the breaker late, a closed breaker is
\* below its threshold and a half-open one has a clean counter (gate.go
\* RecordSuccess, RecordFailure).
THEOREM BreakerConsistent == DBSpec => []BreakerCounterInv
  <1>1. DBInv => BreakerCounterInv
    BY DEF DBInv, IndInv
  <1> QED BY DBAlways, <1>1, PTL

\* No slot is lost or counted twice by calls, retries and transactions: each
\* belongs to a request in flight or was left by a success (gate.go
\* AcquireWithContext, Release; db.go Begin, Commit, Rollback).
THEOREM SlotsAccounted == DBSpec => []SlotAccounting
  <1>1. DBInv => SlotAccounting
    BY DEF DBInv, IndInv
  <1> QED BY DBAlways, <1>1, PTL

\* Never more than maxConnections operations run at once, and Release finds the
\* element its request sent, with transactions as well.
THEOREM OperationsWithinLimit == DBSpec => []ConcurrencyBound
  <1>1. DBInv => ConcurrencyBound
    BY BoundFromSlots DEF DBInv
  <1> QED BY DBAlways, <1>1, PTL

\* Open transactions and running operations together respect maxConnections,
\* however transactions end (db.go Begin, Commit, Rollback).
THEOREM TransactionsWithinLimit == DBSpec => []OpenTransactionsBound
  BY DBAlways, OpenBound, PTL

-----------------------------------------------------------------------------
(* The rate limiter alone                                                  *)

\* Where a window stands once it has granted something: what it granted, what
\* the bucket still holds and what is accruing never exceed one bucket, the
\* refill of the window and one token.
Credit ==
    \/ granted = 0
    \/ TicksPerSecond * (granted + tokens) + RefillRate * sinceRefill
         < TicksPerSecond * (MaxTokens + 1) + RefillRate * elapsed

WindowInv == WindowTypeOK /\ Credit

\* Products of naturals are naturals.
LEMMA MulNat == \A a, b \in Nat : a * b \in Nat
  BY Z3

\* Multiplication distributes over addition.
LEMMA MulDist == \A a, b, c \in Int : a * (b + c) = a * b + a * c
  BY Z3

\* MaxTokens and MaxRefillAge are positive.
LEMMA RateBounds == MaxTokens \in Nat \ {0} /\ MaxRefillAge \in Nat \ {0}
  <1>1. \A a, b \in Nat \ {0} : a * b \in Nat \ {0}
    BY Z3
  <1> QED BY <1>1, RateConstants DEF MaxTokens, MaxRefillAge

\* Truncated division: the refill is a natural number, it takes no more than
\* has accrued, and it is zero only if less than a token has.
LEMMA RefillBounds ==
  ASSUME NEW s \in Nat
  PROVE  LET d == (RefillRate * s) \div TicksPerSecond
         IN  /\ d \in Nat
             /\ TicksPerSecond * d <= RefillRate * s
             /\ d = 0 => RefillRate * s < TicksPerSecond
  <1>1. RefillRate * s \in Nat
    BY MulNat, RateConstants
  <1>2. \A x \in Nat, t \in Nat \ {0} :
           LET d == x \div t IN d \in Nat /\ t * d <= x /\ (d = 0 => x < t)
    BY Z3
  <1> QED BY <1>1, <1>2, RateConstants

\* The specification's state is well typed.
LEMMA WindowTypeStep == ASSUME WindowTypeOK, [WindowNext]_windowedVars PROVE WindowTypeOK'
  <1> USE RateConstants, WindowConstants, RateBounds DEF WindowTypeOK, RateTypeOK
  <1>0. TokensToAdd \in Nat
    BY RefillBounds DEF TokensToAdd
  <1>1. Refilled \in 0 .. MaxTokens /\ RefillAge \in 0 .. MaxRefillAge
    BY <1>0 DEF Refilled, RefillAge
  <1>2. CASE Grant
    BY <1>1, <1>2 DEF Grant, TakeToken
  <1>3. CASE Deny
    BY <1>1, <1>3 DEF Deny, RefuseToken, windowVars
  <1>4. CASE OpenWindow
    BY <1>4 DEF OpenWindow, rateVars
  <1>5. CASE WindowTick
    BY <1>5 DEF WindowTick, RateTick
  <1>6. CASE UNCHANGED windowedVars
    BY <1>6 DEF windowedVars, rateVars, windowVars
  <1> QED BY <1>2, <1>3, <1>4, <1>5, <1>6 DEF WindowNext

\* After Allow, whether it grants or refuses: tokens and what is accruing have
\* not grown, and if the window had granted nothing they fit in one bucket.
LEMMA RefillCredit ==
  ASSUME WindowTypeOK, sinceRefill' = RefillAge
  PROVE  /\ TicksPerSecond * Refilled + RefillRate * sinceRefill'
              <= TicksPerSecond * tokens + RefillRate * sinceRefill
         /\ TicksPerSecond * Refilled + RefillRate * sinceRefill'
              < TicksPerSecond * (MaxTokens + 1)
         /\ Refilled \in 0 .. MaxTokens
         /\ sinceRefill' \in Nat
  <1> DEFINE T == TicksPerSecond
             R == RefillRate
             d == TokensToAdd
  <1>1. /\ T \in Nat \ {0} /\ R \in Nat \ {0} /\ MaxTokens \in Nat
        /\ tokens \in 0 .. MaxTokens /\ sinceRefill \in Nat
    BY RateConstants, RateBounds DEF WindowTypeOK, RateTypeOK
  <1>2. d \in Nat /\ T * d <= R * sinceRefill /\ (d = 0 => R * sinceRefill < T)
    BY <1>1, RefillBounds DEF TokensToAdd
  <1>3. Refilled \in 0 .. MaxTokens /\ Refilled <= tokens + d /\ sinceRefill' \in Nat
    BY <1>1, <1>2 DEF Refilled, RefillAge
  <1>4. T * Refilled <= T * tokens + T * d /\ T * Refilled <= T * MaxTokens
    <2>1. \A a, b \in Int : a <= b => T * a <= T * b
      BY <1>1, Z3
    <2>2. T * (tokens + d) = T * tokens + T * d
      BY <1>1, <1>2, MulDist
    <2> QED BY <1>1, <1>2, <1>3, <2>1, <2>2
  <1>5. T * (MaxTokens + 1) = T * MaxTokens + T
    BY <1>1, MulDist
  <1>6. R * 0 = 0
    BY <1>1
  <1>7. T * Refilled \in Int /\ T * tokens \in Int /\ T * d \in Int /\ T * MaxTokens \in Int
        /\ R * sinceRefill \in Nat
    BY <1>1, <1>2, <1>3, MulNat
  <1> HIDE DEF T, R, d
  <1>8. CASE d = 0
    <2>1. sinceRefill' = sinceRefill
      BY <1>8 DEF RefillAge, d
    <2>2. T * d = 0
      BY <1>1, <1>8
    <2>3. /\ T * Refilled + R * sinceRefill' <= T * tokens + R * sinceRefill
          /\ T * Refilled + R * sinceRefill' < T * (MaxTokens + 1)
      BY <1>1, <1>2, <1>4, <1>5, <1>7, <1>8, <2>1, <2>2
    <2> QED BY <1>3, <2>3 DEF T, R
  <1>9. CASE d # 0
    <2>1. sinceRefill' = 0
      BY <1>2, <1>9 DEF RefillAge, d
    <2>2. /\ T * Refilled + R * sinceRefill' <= T * tokens + R * sinceRefill
          /\ T * Refilled + R * sinceRefill' < T * (MaxTokens + 1)
      BY <1>1, <1>2, <1>4, <1>5, <1>6, <1>7, <2>1
    <2> QED BY <1>3, <2>2 DEF T, R
  <1> QED BY <1>8, <1>9

\* No step of Allow or of the clock takes the bucket out of its credit.
LEMMA CreditStep == ASSUME WindowInv, [WindowNext]_windowedVars PROVE Credit'
  <1> DEFINE T == TicksPerSecond
             R == RefillRate
             B == T * (MaxTokens + 1)
  <1>1. /\ T \in Nat \ {0} /\ R \in Nat \ {0} /\ MaxTokens \in Nat
        /\ tokens \in Nat /\ sinceRefill \in Nat /\ elapsed \in Nat /\ granted \in Nat
    BY RateConstants, WindowConstants, RateBounds DEF WindowInv, WindowTypeOK, RateTypeOK
  <1>2. /\ B \in Nat /\ T * granted \in Nat /\ T * tokens \in Nat
        /\ R * sinceRefill \in Nat /\ R * elapsed \in Nat
    BY <1>1, MulNat
  <1>3. T * (granted + tokens) = T * granted + T * tokens
    BY <1>1, MulDist
  <1>4. granted = 0 \/ T * granted + T * tokens + R * sinceRefill < B + R * elapsed
    BY <1>3 DEF WindowInv, Credit
  <1> SUFFICES granted' # 0 =>
         T * (granted' + tokens') + R * sinceRefill' < B + R * elapsed'
    BY DEF Credit, MaxTokens
  <1>5. CASE Grant
    <2>1. /\ tokens' = Refilled - 1 /\ granted' = granted + 1
          /\ elapsed' = elapsed /\ sinceRefill' = RefillAge
      BY <1>5 DEF Grant, TakeToken
    <2>2. /\ T * Refilled + R * sinceRefill' <= T * tokens + R * sinceRefill
          /\ T * Refilled + R * sinceRefill' < B
          /\ Refilled \in Int /\ sinceRefill' \in Nat
      BY <1>1, <2>1, RefillCredit, RateBounds DEF WindowInv
    <2>3. T * (granted' + tokens') = T * granted + T * Refilled
      BY <1>1, <2>1, <2>2, MulDist
    <2>4. T * Refilled \in Int /\ R * sinceRefill' \in Int
      BY <1>1, <2>2
    <2>5. granted = 0 => T * granted = 0
      BY <1>1
    <2> HIDE DEF T, R, B
    <2> QED BY <1>2, <1>4, <2>1, <2>2, <2>3, <2>4, <2>5
  <1>6. CASE Deny
    <2>1. /\ tokens' = Refilled /\ granted' = granted
          /\ elapsed' = elapsed /\ sinceRefill' = RefillAge
      BY <1>6 DEF Deny, RefuseToken, windowVars
    <2>2. /\ T * Refilled + R * sinceRefill' <= T * tokens + R * sinceRefill
          /\ Refilled \in Int /\ sinceRefill' \in Nat
      BY <1>1, <2>1, RefillCredit, RateBounds DEF WindowInv
    <2>3. T * (granted' + tokens') = T * granted + T * Refilled
      BY <1>1, <2>1, <2>2, MulDist
    <2>4. T * Refilled \in Int /\ R * sinceRefill' \in Int
      BY <1>1, <2>2
    <2> HIDE DEF T, R, B
    <2> QED BY <1>2, <1>4, <2>1, <2>2, <2>3, <2>4
  <1>7. CASE OpenWindow
    BY <1>7 DEF OpenWindow
  <1>8. CASE WindowTick
    <2>1. CASE elapsed < MaxElapsed
      <3>1. /\ tokens' = tokens /\ granted' = granted /\ elapsed' = elapsed + 1
            /\ sinceRefill' = sinceRefill + 1 \/ sinceRefill' = sinceRefill
        BY <1>8, <2>1 DEF WindowTick, RateTick
      <3>2. R * (elapsed + 1) = R * elapsed + R /\ R * (sinceRefill + 1) = R * sinceRefill + R
        BY <1>1, MulDist
      <3> HIDE DEF T, R, B
      <3> QED BY <1>1, <1>2, <1>3, <1>4, <3>1, <3>2
    <2>2. CASE ~ (elapsed < MaxElapsed)
      BY <1>8, <2>2 DEF WindowTick
    <2> QED BY <2>1, <2>2
  <1>9. CASE UNCHANGED windowedVars
    BY <1>9 DEF windowedVars, rateVars, windowVars, WindowInv, Credit
  <1> QED BY <1>5, <1>6, <1>7, <1>8, <1>9 DEF WindowNext

\* The credit of a window implies its budget.
LEMMA CreditBudget == WindowInv => RateBudget
  <1> SUFFICES ASSUME WindowInv PROVE RateBudget
    OBVIOUS
  <1> DEFINE T == TicksPerSecond
             R == RefillRate
  <1>1. /\ T \in Nat \ {0} /\ R \in Nat /\ MaxTokens \in Nat
        /\ tokens \in Nat /\ sinceRefill \in Nat /\ elapsed \in Nat /\ granted \in Nat
    BY RateConstants, WindowConstants, RateBounds DEF WindowInv, WindowTypeOK, RateTypeOK
  <1>2. /\ T * (MaxTokens + 1) = T * MaxTokens + T
        /\ T * (granted + tokens) = T * granted + T * tokens
    BY <1>1, MulDist
  <1>3. /\ T * MaxTokens \in Nat /\ T * granted \in Nat /\ T * tokens \in Nat
        /\ R * sinceRefill \in Nat /\ R * elapsed \in Nat
    BY <1>1, MulNat
  <1>4. granted = 0 => T * granted = 0
    BY <1>1
  <1>5. granted = 0 \/ T * (granted + tokens) + R * sinceRefill < T * (MaxTokens + 1) + R * elapsed
    BY DEF WindowInv, Credit
  <1>6. T * granted < T * (MaxTokens + 1) + R * elapsed
    <2> HIDE DEF T, R
    <2> QED BY <1>1, <1>2, <1>3, <1>4, <1>5
  <1> QED BY <1>6 DEF RateBudget

\* It holds always.
LEMMA WindowAlways == WindowSpec => []WindowInv
  <1>1. WindowInit => WindowInv
    BY RateConstants, WindowConstants, RateBounds
       DEF WindowInit, RateInit, WindowInv, WindowTypeOK, RateTypeOK, Credit
  <1>2. WindowInv /\ [WindowNext]_windowedVars => WindowInv'
    BY WindowTypeStep, CreditStep DEF WindowInv
  <1> QED BY <1>1, <1>2, PTL DEF WindowSpec

\* The token bucket of RateLimiter.Allow holds between none and maxTokens tokens.
THEOREM RateLimiterTypes == WindowSpec => []WindowTypeOK
  <1>1. WindowInv => WindowTypeOK
    BY DEF WindowInv
  <1> QED BY <1>1, WindowAlways, PTL

\* In every window of its life RateLimiter.Allow grants at most one bucket, the
\* window's refill and one token: for every refill rate, burst and clock
\* resolution.
THEOREM RateLimiterBudget == WindowSpec => []RateBudget
  <1>1. WindowInv => RateBudget
    BY CreditBudget
  <1> QED BY <1>1, WindowAlways, PTL
=============================================================================
