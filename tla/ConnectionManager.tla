-------------------------- MODULE ConnectionManager --------------------------
(***************************************************************************)
(* ConnectionManager and its leak detector (open.go).  A pool (sql.DB) is  *)
(* a number, cm.db is the number of the current one or 0.  Open and Close  *)
(* hold cm.mu throughout and are one step each; what reads cm.db without   *)
(* the lock is in DBRuntime.  The warmup goroutine, which takes idle       *)
(* connections of a pool and gives them back, is left out, and so is       *)
(* activeConnections: its only reader, checkLeaks, passes it to            *)
(* leakCallback, which nothing sets.                                       *)
(***************************************************************************)
EXTENDS Integers

CONSTANT MaxPools          \* bound on the pools ever created

ASSUME ManagerConstants == MaxPools \in Nat

VARIABLES db,          \* cm.db, 0 for nil
          pools,       \* state of every pool
          leakEnabled, \* EnableLeakDetection, never changed
          leakStopped, \* ld.stopChan is closed
          detectors    \* goroutines started by LeakDetector.Start

managerVars == <<db, pools, leakEnabled, leakStopped, detectors>>

Pools == 1 .. MaxPools
Unused == {p \in Pools : pools[p] = "unused"}

ManagerTypeOK ==
    /\ db \in 0 .. MaxPools
    /\ pools \in [Pools -> {"unused", "open", "closed"}]
    /\ leakEnabled \in BOOLEAN
    /\ leakStopped \in BOOLEAN
    /\ detectors \in 0 .. MaxPools

ManagerInit ==
    /\ db = 0
    /\ pools = [p \in Pools |-> "unused"]
    /\ leakEnabled \in BOOLEAN
    /\ leakStopped = FALSE
    /\ detectors = 0

SetPool(p, s) == pools' = [pools EXCEPT ![p] = s]

-----------------------------------------------------------------------------
\* NewLeakDetector returns nil, on which Start and Stop do nothing, unless
\* leak detection is enabled.
DetectorsStarted == IF leakEnabled THEN 1 ELSE 0

\* Open creates a pool, reaches the database and starts the detector.
OpenNew(p) ==
    /\ db = 0
    /\ p \in Unused
    /\ db' = p
    /\ SetPool(p, "open")
    /\ detectors' = detectors + DetectorsStarted
    /\ UNCHANGED <<leakEnabled, leakStopped>>

MutOpenAgain ==
    /\ db # 0
    /\ detectors' = detectors + DetectorsStarted
    /\ UNCHANGED <<db, pools, leakEnabled, leakStopped>>

\* Open finds the database open already.
OpenAgain ==
    /\ db # 0
    /\ UNCHANGED managerVars

MutOpenUnreachable(p) ==
    /\ db = 0
    /\ p \in Unused
    /\ SetPool(p, "open")
    /\ UNCHANGED <<db, leakEnabled, leakStopped, detectors>>

\* Open creates a pool, cannot ping the database and closes the pool.  (When
\* sql.Open itself fails nothing changes.)
OpenUnreachable(p) ==
    /\ db = 0
    /\ p \in Unused
    /\ SetPool(p, "closed")
    /\ UNCHANGED <<db, leakEnabled, leakStopped, detectors>>

\* The detector's select sees the closed channel.
DetectorEnds ==
    /\ detectors > 0
    /\ leakStopped
    /\ detectors' = detectors - 1
    /\ UNCHANGED <<db, pools, leakEnabled, leakStopped>>

\* Stop closes a channel that is closed: the goroutine panics.
StopPanics == leakEnabled /\ leakStopped

MutCloseOk ==
    /\ ~ StopPanics
    /\ pools' = [p \in Pools |-> IF p = db THEN "closed" ELSE pools[p]]
    /\ db' = 0
    /\ UNCHANGED <<leakEnabled, leakStopped, detectors>>

\* Close: the detector is told to stop, the pool, if there is one, is closed.
CloseOk ==
    /\ ~ StopPanics
    /\ leakStopped' = leakEnabled
    /\ pools' = [p \in Pools |-> IF p = db THEN "closed" ELSE pools[p]]
    /\ db' = 0
    /\ UNCHANGED <<leakEnabled, detectors>>

\* Close returns the error of sql.DB.Close: the pool is closed, cm.db remains.
CloseFailed ==
    /\ ~ StopPanics
    /\ db # 0
    /\ leakStopped' = leakEnabled
    /\ SetPool(db, "closed")
    /\ UNCHANGED <<db, leakEnabled, detectors>>
=============================================================================
