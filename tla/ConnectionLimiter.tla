-------------------------- MODULE ConnectionLimiter --------------------------
(***************************************************************************)
(* The connection limiter of gate.go.  Without backpressure ("drop") a     *)
(* slot is taken by a test and an increment under cl.mu.  With it ("block",*)
(* "timeout") the slot is an element of the buffered channel cl.sem, and   *)
(* currentConnections is adjusted afterwards by a separate atomic add.     *)
(* Mode "no timeout" is mode "timeout" with cl.timeout not set.            *)
(***************************************************************************)
EXTENDS Integers

CONSTANTS MaxConnections,  \* cl.maxConnections, the capacity of cl.sem
          Modes            \* values of cl.mode to consider

ASSUME LimiterConstants ==
    /\ MaxConnections \in Nat \ {0}
    /\ Modes \subseteq {"drop", "block", "timeout", "no timeout"}

VARIABLES mode,                \* cl.mode, never changed
          sem,                 \* number of elements in cl.sem (0 if nil)
          currentConnections   \* cl.currentConnections

limiterVars == <<mode, sem, currentConnections>>

HasSem == mode # "drop"

LimiterTypeOK ==
    /\ mode \in Modes
    /\ sem \in Nat
    /\ currentConnections \in Int

LimiterInit ==
    /\ mode \in Modes
    /\ sem = 0
    /\ currentConnections = 0

MutAcquireOk ==
    /\ currentConnections <= MaxConnections
    /\ currentConnections' = currentConnections + 1
    /\ UNCHANGED <<mode, sem>>

\* Acquire under cl.mu: a slot is free.
AcquireOk ==
    /\ currentConnections < MaxConnections
    /\ currentConnections' = currentConnections + 1
    /\ UNCHANGED <<mode, sem>>

\* Acquire under cl.mu: ErrConnectionLimit.
AcquireFull ==
    /\ currentConnections >= MaxConnections
    /\ UNCHANGED limiterVars

\* The buffer of cl.sem is full.
SemFull == sem = MaxConnections

\* cl.sem <- struct{}{}
SemSend ==
    /\ ~ SemFull
    /\ sem' = sem + 1
    /\ UNCHANGED <<mode, currentConnections>>

\* What AcquireWithContext does once the fast path found cl.sem full.
MayWait == mode \in {"block", "timeout"}

\* atomic.AddInt64(&cl.currentConnections, 1)
CountUp ==
    /\ currentConnections' = currentConnections + 1
    /\ UNCHANGED <<mode, sem>>

\* Release: the receive of the select, or its default branch when empty.
SemReceive ==
    /\ sem' = IF sem > 0 THEN sem - 1 ELSE sem
    /\ UNCHANGED <<mode, currentConnections>>

\* atomic.AddInt64(&cl.currentConnections, -1)
CountDown ==
    /\ currentConnections' = currentConnections - 1
    /\ UNCHANGED <<mode, sem>>
=============================================================================
