------------------------------ MODULE DBRuntime ------------------------------
(***************************************************************************)
(* DBRuntime (dbruntime.go) over the connection manager, with a Monitor    *)
(* (monitor.go).  One goroutine, the owner, connects, disconnects and      *)
(* controls the monitor, as in main; Users call operations of the runtime  *)
(* at any time, and so do the loops of the monitor.  Nothing protects      *)
(* r.advancedDB or the reads of cm.db in IsConnected and                   *)
(* AcquireConnection.  A panic ends the program: panic names its cause.    *)
(* stmts is the statement cache of the current r.advancedDB; an operation  *)
(* that uses an earlier one uses that one's cache, which nobody else does. *)
(***************************************************************************)
EXTENDS ConnectionManager, StatementCache

CONSTANTS Users,
          Loops       \* loops of the monitor that may be alive at once

VARIABLES owner,      \* "opened" between Open and the assignment in Connect,
                      \* "closing" between Clear and Close in Disconnect
          advancedDB, \* pool that r.advancedDB wraps, 0 if it is nil
          call,       \* what a user or a monitor loop is doing
          prep,       \* users in Prepare: the query, the pool, and whether
                      \* the wrapper they use is still r.advancedDB
          running,    \* m.running
          monStopped, \* m.stopChan is closed
          ctxDone,    \* the context given to Monitor.Start is done
          panic

monitorVars == <<running, monStopped, ctxDone>>
runtimeVars == <<owner, advancedDB, stmts, call, prep, monitorVars, panic>>
vars == <<managerVars, runtimeVars>>

Actors == Users \cup Loops

TypeOK ==
    /\ ManagerTypeOK
    /\ StmtTypeOK(Pools)
    /\ owner \in {"idle", "opened", "closing"}
    /\ advancedDB \in 0 .. MaxPools
    /\ call \in [Actors -> {"off", "idle", "connected", "acquiring", "preparing", "putting"}]
    /\ DOMAIN prep = {u \in Users : call[u] \in {"preparing", "putting"}}
    /\ \A u \in DOMAIN prep : prep[u] \in [query : Queries, pool : Pools, current : BOOLEAN]
    /\ running \in BOOLEAN
    /\ monStopped \in BOOLEAN
    /\ ctxDone \in BOOLEAN
    /\ panic \in {"no", "nil wrapper", "nil pool", "nil row",
                  "detector channel", "monitor channel"}

MonitorInit ==
    /\ running = FALSE
    /\ monStopped = FALSE
    /\ ctxDone = FALSE

Init ==
    /\ ManagerInit
    /\ StmtInit
    /\ owner = "idle"
    /\ advancedDB = 0
    /\ call = [a \in Actors |-> IF a \in Users THEN "idle" ELSE "off"]
    /\ prep = [u \in {} |-> 0]
    /\ MonitorInit
    /\ panic = "no"

SetCall(a, s) == call' = [call EXCEPT ![a] = s]

-----------------------------------------------------------------------------
(* The owner                                                               *)

\* Connect: connManager.Open succeeds.
ConnectOpen ==
    /\ owner = "idle"
    /\ OpenAgain \/ \E p \in Unused : OpenNew(p)
    /\ owner' = "opened"
    /\ UNCHANGED <<advancedDB, stmts, call, prep, monitorVars, panic>>

\* Connect: connManager.Open fails, and so does Connect.
ConnectFail ==
    /\ owner = "idle"
    /\ \E p \in Unused : OpenUnreachable(p)
    /\ UNCHANGED runtimeVars

MutWrapped == IF advancedDB = 0 THEN db ELSE advancedDB

\* What NewAdvancedDB wraps.
Wrapped == db

MutConnectWrap ==
    /\ owner = "opened"
    /\ advancedDB' = Wrapped
    /\ owner' = "idle"
    /\ UNCHANGED <<managerVars, stmts, call, prep, monitorVars, panic>>

\* Connect: r.advancedDB is replaced, and with it the statement cache.
ConnectWrap ==
    /\ owner = "opened"
    /\ advancedDB' = Wrapped
    /\ stmts' = NoStmts
    /\ prep' = [u \in DOMAIN prep |-> [prep[u] EXCEPT !.current = FALSE]]
    /\ owner' = "idle"
    /\ UNCHANGED <<managerVars, call, monitorVars, panic>>

\* Disconnect: the statement cache is cleared, if there is one.
DisconnectClear ==
    /\ owner = "idle"
    /\ IF advancedDB = 0 THEN UNCHANGED stmts ELSE ClearStmts
    /\ owner' = "closing"
    /\ UNCHANGED <<managerVars, advancedDB, call, prep, monitorVars, panic>>

MutDisconnect ==
    /\ owner = "closing"
    /\ CloseOk \/ CloseFailed
    /\ advancedDB' = 0
    /\ owner' = "idle"
    /\ UNCHANGED <<stmts, call, prep, monitorVars, panic>>

\* Disconnect: Close; r.advancedDB stays.
Disconnect ==
    /\ owner = "closing"
    /\ CloseOk \/ CloseFailed
    /\ owner' = "idle"
    /\ UNCHANGED <<advancedDB, stmts, call, prep, monitorVars, panic>>

\* Disconnect for the second time, also of a runtime connected anew.
DisconnectPanics ==
    /\ owner = "closing"
    /\ StopPanics
    /\ panic' = "detector channel"
    /\ UNCHANGED <<managerVars, owner, advancedDB, stmts, call, prep, monitorVars>>

\* Monitor.Start: a new loop, although stopChan may be closed.  Loops are all
\* alike, so any free identity will do.
MonitorStart ==
    /\ owner = "idle"
    /\ ~ running
    /\ \E l \in Loops : call[l] = "off"
    /\ SetCall(CHOOSE l \in Loops : call[l] = "off", "idle")
    /\ running' = TRUE
    /\ UNCHANGED <<managerVars, owner, advancedDB, stmts, prep, monStopped, ctxDone, panic>>

\* Monitor.Stop.
MonitorStop ==
    /\ owner = "idle"
    /\ running
    /\ running' = FALSE
    /\ \/ ~ monStopped /\ monStopped' = TRUE /\ UNCHANGED panic
       \/ monStopped /\ panic' = "monitor channel" /\ UNCHANGED monStopped
    /\ UNCHANGED <<managerVars, owner, advancedDB, stmts, call, prep, ctxDone>>

\* The context given to the monitor ends; running stays true.
ContextEnds ==
    /\ ~ ctxDone
    /\ ctxDone' = TRUE
    /\ UNCHANGED <<managerVars, owner, advancedDB, stmts, call, prep, running, monStopped, panic>>

-----------------------------------------------------------------------------
(* Operations                                                              *)

\* IsConnected, read without a lock, lets an operation pass; otherwise the
\* operation returns an error and nothing changes.
Check(a) ==
    /\ call[a] = "idle"
    /\ db # 0
    /\ SetCall(a, "connected")
    /\ UNCHANGED <<managerVars, owner, advancedDB, stmts, prep, monitorVars, panic>>

\* The operation then uses r.advancedDB: a nil pointer, or a pool that serves
\* it or is closed and answers with an error.
Use(a) ==
    /\ call[a] = "connected"
    /\ panic' = IF advancedDB = 0 THEN "nil wrapper" ELSE panic
    /\ SetCall(a, "idle")
    /\ UNCHANGED <<managerVars, owner, advancedDB, stmts, prep, monitorVars>>

\* Prepare: stmtCache.Get finds the statement.
PrepareHit(u) ==
    /\ call[u] = "connected"
    /\ advancedDB # 0
    /\ \E q \in Queries : GetStmt(q)
    /\ SetCall(u, "idle")
    /\ UNCHANGED <<managerVars, owner, advancedDB, prep, monitorVars, panic>>

\* Prepare: stmtCache.Get finds nothing.
PrepareMiss(u) ==
    /\ call[u] = "connected"
    /\ advancedDB # 0
    /\ \E q \in Queries :
          /\ GetNoStmt(q)
          /\ prep' = [v \in DOMAIN prep \cup {u} |->
                        IF v = u THEN [query |-> q, pool |-> advancedDB, current |-> TRUE]
                        ELSE prep[v]]
    /\ SetCall(u, "preparing")
    /\ UNCHANGED <<managerVars, owner, advancedDB, monitorVars, panic>>

Unprepare(u) == prep' = [v \in DOMAIN prep \ {u} |-> prep[v]]

\* Prepare: PrepareContext succeeds, which a closed pool does not let it.
PrepareContext(u) ==
    /\ call[u] = "preparing"
    /\ pools[prep[u].pool] = "open"
    /\ SetCall(u, "putting")
    /\ UNCHANGED <<managerVars, owner, advancedDB, stmts, prep, monitorVars, panic>>

\* Prepare: PrepareContext fails, and so does Prepare.
PrepareFails(u) ==
    /\ call[u] = "preparing"
    /\ Unprepare(u)
    /\ SetCall(u, "idle")
    /\ UNCHANGED <<managerVars, owner, advancedDB, stmts, monitorVars, panic>>

\* Prepare: stmtCache.Put, into the cache of the wrapper Prepare began with.
PreparePut(u) ==
    /\ call[u] = "putting"
    /\ IF prep[u].current THEN PutStmt(prep[u].query, prep[u].pool) ELSE UNCHANGED stmts
    /\ Unprepare(u)
    /\ SetCall(u, "idle")
    /\ UNCHANGED <<managerVars, owner, advancedDB, monitorVars, panic>>

\* QueryRow of a runtime that is not connected returns nil; its callers scan
\* it, as blob.go does.
ScanNilRow(u) ==
    /\ call[u] = "idle"
    /\ db = 0
    /\ panic' = "nil row"
    /\ UNCHANGED <<managerVars, owner, advancedDB, stmts, call, prep, monitorVars>>

\* AcquireConnection: the first, unlocked read of cm.db.
AcquireCheck(u) ==
    /\ call[u] = "idle"
    /\ db # 0
    /\ SetCall(u, "acquiring")
    /\ UNCHANGED <<managerVars, owner, advancedDB, stmts, prep, monitorVars, panic>>

\* AcquireConnection: the second read, Conn and Validate.  The reads race with
\* Close: the second one may find nil, or the first one may be reused.
AcquireUse(u) ==
    /\ call[u] = "acquiring"
    /\ SetCall(u, "idle")
    /\ \/ UNCHANGED panic
       \/ db = 0 /\ panic' = "nil pool"
    /\ UNCHANGED <<managerVars, owner, advancedDB, stmts, prep, monitorVars>>

\* The ticker fires: checkAndNotify calls the operations of GetDiagnostics and
\* CheckHealth one by one, each of which begins like this, and passes what it
\* learnt to the callbacks.
LoopTick(l) == Check(l)

MutLoopEnds(l) ==
    /\ call[l] = "idle"
    /\ ctxDone
    /\ SetCall(l, "off")
    /\ UNCHANGED <<managerVars, owner, advancedDB, stmts, prep, monitorVars, panic>>

\* The select of monitorLoop sees the closed channel or the ended context.
LoopEnds(l) ==
    /\ call[l] = "idle"
    /\ monStopped \/ ctxDone
    /\ SetCall(l, "off")
    /\ UNCHANGED <<managerVars, owner, advancedDB, stmts, prep, monitorVars, panic>>

-----------------------------------------------------------------------------
Owner ==
    \/ ConnectOpen \/ ConnectFail \/ ConnectWrap
    \/ DisconnectClear \/ Disconnect \/ DisconnectPanics
    \/ MonitorStart \/ MonitorStop \/ ContextEnds

Detector == DetectorEnds /\ UNCHANGED runtimeVars

Next ==
    /\ panic = "no"
    /\ \/ Owner
       \/ Detector
       \/ \E u \in Users :
             \/ Check(u) \/ ScanNilRow(u) \/ AcquireCheck(u) \/ AcquireUse(u)
             \/ PrepareHit(u) \/ PrepareMiss(u) \/ PrepareContext(u)
             \/ PrepareFails(u) \/ PreparePut(u)
       \/ \E l \in Loops : LoopTick(l) \/ LoopEnds(l)
       \/ \E a \in Actors : Use(a)

Spec == Init /\ [][Next]_vars

\* Goroutines that can run do.  When the stop channel and the ticker of a
\* loop are ready, select picks either at random, so the loop ends in the
\* long run: strong fairness.
FairSpec ==
    /\ Spec
    /\ WF_vars(panic = "no" /\ Detector)
    /\ \A a \in Actors : WF_vars(panic = "no" /\ Use(a))
    /\ \A l \in Loops : SF_vars(panic = "no" /\ LoopEnds(l))

-----------------------------------------------------------------------------
(* Properties                                                              *)

\* No pool is lost: an open pool is the one in cm.db, whatever sequence of
\* failed and repeated Connects and Disconnects led there (Open, Close).
PoolsOwned == \A p \in Pools : pools[p] = "open" => db = p

\* Until the first Disconnect exactly one leak detector runs while the
\* database is open, and none while it is not (Open, LeakDetector.Start).
OneDetector ==
    leakEnabled /\ ~ leakStopped => detectors = IF db = 0 THEN 0 ELSE 1

\* Between calls of the owner, operations go to the pool that IsConnected
\* has seen (Connect, Disconnect).
WrapperCurrent == owner = "idle" /\ db # 0 => advancedDB = db

\* An operation that passed IsConnected finds a wrapper: it may be in flight
\* during a Disconnect, a reconnection or a failed Close, and panics only if
\* it overtook the first Connect between Open and the assignment.
NilWrapperOnlyAtFirstConnect == panic = "nil wrapper" => owner = "opened"

\* Between calls of the owner, a statement in the cache belongs to the pool
\* in use: a Prepare that was overtaken by a Disconnect, and puts a statement
\* of the closed pool into the cache, does not spoil the next connection
\* (Prepare, Put, Clear, Connect).
StatementsUsable ==
    owner = "idle" /\ db # 0 /\ pools[db] = "open" =>
        \A q \in DOMAIN stmts : stmts[q] = db

\* Goroutines of the background end once they are told to: the leak detectors
\* and the monitor's loops, also those started after the channel was closed
\* (LeakDetector.Start, monitorLoop).
BackgroundEnds ==
    /\ leakStopped ~> (detectors = 0 \/ panic # "no")
    /\ monStopped ~> ((\A l \in Loops : call[l] = "off") \/ panic # "no")
=============================================================================
