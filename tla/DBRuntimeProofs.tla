---------------------------- MODULE DBRuntimeProofs ----------------------------
(***************************************************************************)
(* Safety of the runtime, its connection manager and its statement cache   *)
(* for any number of users, monitor loops, queries and connections, and    *)
(* any size of the cache.                                                  *)
(***************************************************************************)
EXTENDS DBRuntime, FiniteSetTheorems, TLAPS

-----------------------------------------------------------------------------
(* The connection manager                                                  *)

\* Each detector was started with a pool of its own.
DetectorBudget == detectors + Cardinality(Unused) <= MaxPools

ManagerInv == ManagerTypeOK /\ PoolsOwned /\ OneDetector /\ DetectorBudget

\* The steps of the manager, whoever takes them.
ManagerStep ==
    \/ \E p \in Unused : OpenNew(p) \/ OpenUnreachable(p)
    \/ CloseOk \/ CloseFailed \/ DetectorEnds
    \/ UNCHANGED managerVars

\* Pools are finitely many.
LEMMA UnusedFinite == IsFiniteSet(Unused) /\ Cardinality(Unused) \in Nat
  <1>1. IsFiniteSet(Pools)
    BY FS_Interval, ManagerConstants DEF Pools
  <1>2. IsFiniteSet(Unused)
    BY <1>1, FS_Subset DEF Unused
  <1> QED BY <1>2, FS_CardinalityType

\* Pools that are not created anew leave the budget of detectors alone.
LEMMA FewerUnused ==
  ASSUME Unused' \subseteq Unused
  PROVE  Cardinality(Unused') \in Nat /\ Cardinality(Unused') <= Cardinality(Unused)
  BY UnusedFinite, FS_Subset, FS_CardinalityType

\* A step that opens no pool: pools are closed, detectors end, and if the channel
\* stays open nothing else has changed.
Shrinks ==
    /\ leakEnabled' = leakEnabled /\ leakStopped' \in BOOLEAN
    /\ detectors' \in Nat /\ detectors' <= detectors
    /\ db' \in {0, db}
    /\ pools' \in [Pools -> {"unused", "open", "closed"}]
    /\ \A p \in Pools : /\ pools'[p] = "unused" => pools[p] = "unused"
                        /\ pools'[p] = "open" => pools[p] = "open" /\ (db' = db \/ db # p)
    /\ leakEnabled /\ ~ leakStopped' =>
          ~ leakStopped /\ detectors' = detectors /\ db' = db

\* Every step of the manager preserves its invariant.
LEMMA ManagerPreserved ==
  ASSUME ManagerInv, ManagerStep
  PROVE  ManagerInv'
  <1>0. /\ db \in 0 .. MaxPools /\ pools \in [Pools -> {"unused", "open", "closed"}]
        /\ leakEnabled \in BOOLEAN /\ leakStopped \in BOOLEAN /\ detectors \in Nat
        /\ MaxPools \in Nat /\ PoolsOwned /\ OneDetector /\ DetectorBudget
    BY ManagerConstants DEF ManagerInv, ManagerTypeOK
  <1>1. ASSUME NEW p \in Unused, OpenNew(p) PROVE ManagerInv'
    <2>1. /\ db = 0 /\ db' = p /\ pools' = [pools EXCEPT ![p] = "open"]
          /\ p \in Pools /\ UNCHANGED <<leakEnabled, leakStopped>>
          /\ detectors' = detectors + (IF leakEnabled THEN 1 ELSE 0)
      BY <1>1 DEF OpenNew, SetPool, DetectorsStarted, Unused
    <2>2. Unused' = Unused \ {p}
      BY <1>0, <2>1 DEF Unused
    <2>3. Cardinality(Unused') = Cardinality(Unused) - 1 /\ Cardinality(Unused') \in Nat
      BY <1>1, <2>2, UnusedFinite, FS_RemoveElement, FS_CardinalityType
    <2>4. DetectorBudget' /\ detectors' \in 0 .. MaxPools
      BY <1>0, <2>1, <2>3, UnusedFinite DEF DetectorBudget
    <2>5. PoolsOwned'
      BY <1>0, <2>1 DEF PoolsOwned, Pools
    <2>6. OneDetector'
      BY <1>0, <2>1 DEF OneDetector, Pools
    <2>7. ManagerTypeOK'
      BY <1>0, <2>1, <2>4 DEF ManagerTypeOK, Pools
    <2> QED BY <2>4, <2>5, <2>6, <2>7 DEF ManagerInv
  <1>2. ASSUME Shrinks PROVE ManagerInv'
    <2>0. \A p \in Pools : pools'[p] = "unused" => pools[p] = "unused"
      BY <1>2 DEF Shrinks
    <2>1. Unused' \subseteq Unused
      BY <2>0 DEF Unused
    <2>2. DetectorBudget' /\ detectors' \in 0 .. MaxPools
      BY <1>0, <1>2, <2>1, FewerUnused, UnusedFinite DEF DetectorBudget, Shrinks
    <2>3. PoolsOwned'
      BY <1>0, <1>2 DEF PoolsOwned, Shrinks
    <2>4. OneDetector'
      BY <1>0, <1>2 DEF OneDetector, Shrinks
    <2>5. ManagerTypeOK'
      BY <1>0, <1>2, <2>2 DEF ManagerTypeOK, Shrinks
    <2> QED BY <2>2, <2>3, <2>4, <2>5 DEF ManagerInv
  <1>3. ASSUME NEW p \in Unused, OpenUnreachable(p) PROVE Shrinks
    BY <1>0, <1>3 DEF OpenUnreachable, SetPool, Unused, Shrinks
  <1>4. ASSUME CloseOk PROVE Shrinks
    <2>1. /\ UNCHANGED <<leakEnabled, detectors>> /\ leakStopped' = leakEnabled /\ db' = 0
          /\ pools' = [p \in Pools |-> IF p = db THEN "closed" ELSE pools[p]]
      BY <1>4 DEF CloseOk
    <2>2. pools' \in [Pools -> {"unused", "open", "closed"}]
      BY <1>0, <2>1
    <2>3. \A p \in Pools : /\ pools'[p] = "open" => pools[p] = "open" /\ db # p
                           /\ pools'[p] = "unused" => pools[p] = "unused"
      BY <2>1
    <2>4. leakStopped' \in BOOLEAN /\ ~ (leakEnabled /\ ~ leakStopped')
      BY <1>0, <2>1, Zenon
    <2>5. /\ leakEnabled' = leakEnabled /\ detectors' \in Nat /\ detectors' <= detectors
          /\ db' \in {0, db}
      BY <1>0, <2>1
    <2> QED BY <2>2, <2>3, <2>4, <2>5 DEF Shrinks
  <1>5. ASSUME CloseFailed PROVE Shrinks
    <2>1. /\ UNCHANGED <<db, leakEnabled, detectors>> /\ leakStopped' = leakEnabled
          /\ pools' = [pools EXCEPT ![db] = "closed"]
      BY <1>5 DEF CloseFailed, SetPool
    <2>2. pools' \in [Pools -> {"unused", "open", "closed"}]
      BY <1>0, <2>1
    <2>3. \A p \in Pools : /\ pools'[p] = "open" => pools[p] = "open"
                           /\ pools'[p] = "unused" => pools[p] = "unused"
      BY <1>0, <2>1
    <2>4. leakStopped' \in BOOLEAN /\ ~ (leakEnabled /\ ~ leakStopped')
      BY <1>0, <2>1, Zenon
    <2>5. /\ leakEnabled' = leakEnabled /\ detectors' \in Nat /\ detectors' <= detectors
          /\ db' = db
      BY <1>0, <2>1
    <2> QED BY <2>2, <2>3, <2>4, <2>5 DEF Shrinks
  <1>6. ASSUME DetectorEnds \/ UNCHANGED managerVars PROVE Shrinks
    BY <1>0, <1>6 DEF DetectorEnds, managerVars, Shrinks
  <1> QED BY <1>1, <1>2, <1>3, <1>4, <1>5, <1>6 DEF ManagerStep

-----------------------------------------------------------------------------
(* The runtime                                                             *)

\* Connect has a pool in hand; and while no wrapper was ever assigned, only an
\* operation that overtakes the first Connect has passed IsConnected.
WrapperUse ==
    /\ owner = "opened" => db # 0
    /\ owner # "opened" /\ db # 0 => advancedDB = db
    /\ owner # "opened" /\ advancedDB = 0 => \A a \in Actors : call[a] # "connected"

\* Cached statements, and those on their way into the cache, belong to the pool
\* of the wrapper whose cache it is.
StatementsCurrent ==
    /\ \A q \in DOMAIN stmts : stmts[q] = advancedDB
    /\ \A u \in DOMAIN prep : prep[u].current => prep[u].pool = advancedDB
    /\ IsFiniteSet(DOMAIN stmts)

\* The inductive invariant.
Inv ==
    /\ TypeOK /\ ManagerInv
    /\ WrapperUse /\ StatementsCurrent
    /\ NilWrapperOnlyAtFirstConnect

\* Put keeps the cache within its size, also when q is cached already.
LEMMA PutWithinSize ==
  ASSUME StmtTypeOK(Pools), IsFiniteSet(DOMAIN stmts),
         NEW q \in Queries, NEW s \in Pools, PutStmt(q, s)
  PROVE  /\ StmtTypeOK(Pools)' /\ IsFiniteSet(DOMAIN stmts')
         /\ \A k \in DOMAIN stmts' : stmts'[k] = s \/ (k \in DOMAIN stmts /\ stmts'[k] = stmts[k])
  <1> DEFINE D == DOMAIN stmts
  <1>0. /\ D \subseteq Queries /\ IsFiniteSet(D) /\ Cardinality(D) \in Nat
        /\ Cardinality(D) <= StmtCacheSize /\ StmtCacheSize \in Nat
        /\ \A k \in D : stmts[k] \in Pools
    BY StatementConstants, FS_CardinalityType DEF StmtTypeOK
  <1>1. PICK gone \in IF Full THEN {{k} : k \in DOMAIN stmts} ELSE {{}} :
           stmts' = [k \in (DOMAIN stmts \ gone) \cup {q} |-> IF k = q THEN s ELSE stmts[k]]
    BY DEF PutStmt
  <1>2. /\ DOMAIN stmts' = (D \ gone) \cup {q}
        /\ \A k \in DOMAIN stmts' : stmts'[k] = IF k = q THEN s ELSE stmts[k]
    BY <1>1
  <1>3. IsFiniteSet(D \ gone) /\ Cardinality(D \ gone) \in Nat /\ Cardinality(D \ gone) < StmtCacheSize
    <2>1. CASE Full
      <3>1. PICK k \in D : gone = {k}
        BY <1>1, <2>1
      <3>2. Cardinality(D \ {k}) = Cardinality(D) - 1 /\ IsFiniteSet(D \ {k})
        BY <1>0, <3>1, FS_RemoveElement
      <3>3. Cardinality(D \ {k}) \in Nat
        BY <3>2, FS_CardinalityType
      <3> HIDE DEF D
      <3> QED BY <1>0, <3>1, <3>2, <3>3
    <2>2. CASE ~ Full
      <3>1. gone = {} /\ D \ gone = D
        BY <1>1, <2>2
      <3>2. ~ (Cardinality(D) >= StmtCacheSize)
        BY <2>2 DEF Full
      <3> HIDE DEF D
      <3> QED BY <1>0, <3>1, <3>2
    <2> QED BY <2>1, <2>2
  <1>4. IsFiniteSet((D \ gone) \cup {q}) /\ Cardinality((D \ gone) \cup {q}) <= StmtCacheSize
    <2> HIDE DEF D
    <2>1. /\ IsFiniteSet((D \ gone) \cup {q})
          /\ Cardinality((D \ gone) \cup {q})
               = IF q \in D \ gone THEN Cardinality(D \ gone) ELSE Cardinality(D \ gone) + 1
      BY <1>3, FS_AddElement
    <2> QED BY <1>0, <1>3, <2>1
  <1> QED BY <1>0, <1>2, <1>4 DEF StmtTypeOK

\* Every step of the program is a step of the manager, or none of it.
LEMMA RuntimeManager == ASSUME [Next]_vars PROVE ManagerStep
  <1>1. CASE UNCHANGED vars
    BY <1>1 DEF vars, ManagerStep
  <1>2. CASE Owner
    BY <1>2 DEF Owner, ConnectOpen, ConnectFail, ConnectWrap, DisconnectClear, Disconnect,
       DisconnectPanics, MonitorStart, MonitorStop, ContextEnds, OpenAgain, ManagerStep
  <1>3. CASE Detector
    BY <1>3 DEF Detector, ManagerStep
  <1>4. ASSUME NEW a, Check(a) \/ Use(a) \/ ScanNilRow(a) \/ AcquireCheck(a) \/ AcquireUse(a)
                      \/ LoopTick(a) \/ LoopEnds(a)
        PROVE  ManagerStep
    BY <1>4 DEF Check, Use, ScanNilRow, AcquireCheck, AcquireUse, LoopTick, LoopEnds, ManagerStep
  <1>5. ASSUME NEW u, PrepareHit(u) \/ PrepareMiss(u) \/ PrepareContext(u)
                      \/ PrepareFails(u) \/ PreparePut(u)
        PROVE  ManagerStep
    BY <1>5 DEF PrepareHit, PrepareMiss, PrepareContext, PrepareFails, PreparePut, ManagerStep
  <1> QED BY <1>1, <1>2, <1>3, <1>4, <1>5 DEF Next

\* The type invariant, without the manager's part.
RuntimeTypeOK ==
    /\ StmtTypeOK(Pools)
    /\ owner \in {"idle", "opened", "closing"}
    /\ advancedDB \in 0 .. MaxPools
    /\ call \in [Actors -> {"off", "idle", "connected", "acquiring", "preparing", "putting"}]
    /\ DOMAIN prep = {u \in Users : call[u] \in {"preparing", "putting"}}
    /\ \A u \in DOMAIN prep : prep[u] \in [query : Queries, pool : Pools, current : BOOLEAN]
    /\ running \in BOOLEAN
    /\ monStopped \in BOOLEAN
    /\ ctxDone \in BOOLEAN
    /\ panic \in {"no", "nil wrapper", "nil pool", "nil row",
                  "detector channel", "monitor channel"}

\* The two parts make up the type invariant.
LEMMA TypeParts == TypeOK <=> ManagerTypeOK /\ RuntimeTypeOK
  BY DEF TypeOK, RuntimeTypeOK

\* What the proofs about single steps start from.
Before == ManagerTypeOK /\ RuntimeTypeOK /\ WrapperUse /\ StatementsCurrent
          /\ NilWrapperOnlyAtFirstConnect

After == RuntimeTypeOK' /\ WrapperUse' /\ StatementsCurrent' /\ NilWrapperOnlyAtFirstConnect'

\* A cache without statements is well typed.
LEMMA EmptyCache ==
  ASSUME stmts' = NoStmts
  PROVE  StmtTypeOK(Pools)' /\ DOMAIN stmts' = {} /\ IsFiniteSet(DOMAIN stmts')
  <1>1. DOMAIN stmts' = {}
    BY DEF NoStmts
  <1> QED BY <1>1, FS_EmptySet, StatementConstants DEF StmtTypeOK

\* The owner's steps.
LEMMA OwnerStep ==
  ASSUME Before, panic = "no", Owner
  PROVE  After
  <1> USE DEF Before, After, StmtTypeOK, WrapperUse, StatementsCurrent,
              NilWrapperOnlyAtFirstConnect, RuntimeTypeOK, monitorVars
  <1>1. CASE ConnectOpen
    BY <1>1, ManagerConstants DEF ConnectOpen, OpenAgain, OpenNew, managerVars, Unused, Pools
  <1>2. CASE ConnectFail
    BY <1>2 DEF ConnectFail, OpenUnreachable, runtimeVars
  <1>3. CASE ConnectWrap
    <2>1. /\ StmtTypeOK(Pools)' /\ DOMAIN stmts' = {} /\ IsFiniteSet(DOMAIN stmts')
      BY <1>3, EmptyCache DEF ConnectWrap
    <2> QED BY <1>3, <2>1 DEF ConnectWrap, Wrapped, managerVars, ManagerTypeOK
  <1>4. CASE DisconnectClear
    <2>1. CASE advancedDB = 0
      BY <1>4, <2>1 DEF DisconnectClear, managerVars
    <2>2. CASE advancedDB # 0
      <3>1. /\ StmtTypeOK(Pools)' /\ DOMAIN stmts' = {} /\ IsFiniteSet(DOMAIN stmts')
        BY <1>4, <2>2, EmptyCache DEF DisconnectClear, ClearStmts
      <3> QED BY <1>4, <3>1 DEF DisconnectClear, managerVars
    <2> QED BY <2>1, <2>2
  <1>5. CASE Disconnect
    BY <1>5 DEF Disconnect, CloseOk, CloseFailed
  <1>6. CASE DisconnectPanics
    BY <1>6 DEF DisconnectPanics, managerVars
  <1>7. CASE MonitorStart
    BY <1>7 DEF MonitorStart, SetCall, managerVars, Actors
  <1>8. CASE MonitorStop \/ ContextEnds
    BY <1>8 DEF MonitorStop, ContextEnds, managerVars
  <1> QED BY <1>1, <1>2, <1>3, <1>4, <1>5, <1>6, <1>7, <1>8 DEF Owner

\* A step of a user or of a loop that leaves the statement cache and Prepare alone.
LEMMA PlainStep ==
  ASSUME Before, panic = "no",
         NEW a \in Actors, \/ Check(a) \/ Use(a) \/ ScanNilRow(a) \/ AcquireCheck(a)
                           \/ AcquireUse(a) \/ LoopTick(a) \/ LoopEnds(a)
  PROVE  After
  <1>1. /\ UNCHANGED <<db, owner, advancedDB, stmts, prep, running, monStopped, ctxDone>>
        /\ \E x \in {"off", "idle", "connected", "acquiring"} :
              /\ call[a] \in {"idle", "connected", "acquiring"}
              /\ call' = [call EXCEPT ![a] = x]
              /\ x = "connected" => db # 0
        /\ panic' \in {"no", "nil wrapper", "nil row", "nil pool"}
        /\ panic' = "nil wrapper" => advancedDB = 0 /\ call[a] = "connected"
    <2> USE DEF monitorVars, managerVars, SetCall
    <2>1. CASE Check(a) \/ LoopTick(a) \/ AcquireCheck(a) \/ LoopEnds(a)
      BY <2>1 DEF Check, LoopTick, AcquireCheck, LoopEnds
    <2>2. CASE Use(a) \/ AcquireUse(a)
      BY <2>2 DEF Use, AcquireUse
    <2>3. CASE ScanNilRow(a)
      <3>1. call' = [call EXCEPT ![a] = "idle"]
        BY <2>3 DEF ScanNilRow, Before, RuntimeTypeOK
      <3> QED BY <2>3, <3>1 DEF ScanNilRow
    <2> QED BY <2>1, <2>2, <2>3
  <1>2. PICK x \in {"off", "idle", "connected", "acquiring"} :
           /\ call[a] \in {"idle", "connected", "acquiring"}
           /\ call' = [call EXCEPT ![a] = x]
           /\ x = "connected" => db # 0
    BY <1>1
  <1>3. call \in [Actors -> {"off", "idle", "connected", "acquiring", "preparing", "putting"}]
    BY DEF Before, RuntimeTypeOK
  <1>4. {u \in Users : call'[u] \in {"preparing", "putting"}}
          = {u \in Users : call[u] \in {"preparing", "putting"}}
    BY <1>2, <1>3 DEF Actors
  <1>5. call' \in [Actors -> {"off", "idle", "connected", "acquiring", "preparing", "putting"}]
    BY <1>2, <1>3
  <1>6. RuntimeTypeOK'
    BY <1>1, <1>4, <1>5 DEF Before, RuntimeTypeOK, StmtTypeOK
  <1>7. WrapperUse'
    BY <1>1, <1>2, <1>3 DEF Before, WrapperUse
  <1>8. StatementsCurrent'
    BY <1>1 DEF Before, StatementsCurrent
  <1>9. NilWrapperOnlyAtFirstConnect'
    BY <1>1 DEF Before, WrapperUse, NilWrapperOnlyAtFirstConnect
  <1> QED BY <1>6, <1>7, <1>8, <1>9 DEF After

\* The steps of Prepare.
LEMMA PrepareStep ==
  ASSUME Before, panic = "no",
         NEW u \in Users, \/ PrepareHit(u) \/ PrepareMiss(u) \/ PrepareContext(u)
                          \/ PrepareFails(u) \/ PreparePut(u)
  PROVE  After
  <1>0. u \in Actors
    BY DEF Actors
  <1> USE DEF Before, After, WrapperUse, StatementsCurrent,
              NilWrapperOnlyAtFirstConnect, RuntimeTypeOK, monitorVars, managerVars, SetCall
  <1>1. CASE PrepareHit(u)
    BY <1>0, <1>1 DEF PrepareHit, GetStmt, StmtTypeOK
  <1>2. CASE PrepareMiss(u)
    <2>1. PICK q \in Queries :
             prep' = [v \in DOMAIN prep \cup {u} |->
                        IF v = u THEN [query |-> q, pool |-> advancedDB, current |-> TRUE]
                        ELSE prep[v]]
      BY <1>2 DEF PrepareMiss
    <2>2. /\ call[u] = "connected" /\ call' = [call EXCEPT ![u] = "preparing"]
          /\ advancedDB \in Pools
          /\ UNCHANGED <<db, pools, owner, advancedDB, stmts, running, monStopped, ctxDone, panic>>
      BY <1>2, ManagerConstants DEF PrepareMiss, GetNoStmt, Pools
    <2>3. DOMAIN prep' = {v \in Users : call'[v] \in {"preparing", "putting"}}
      BY <1>0, <2>1, <2>2
    <2>4. \A v \in DOMAIN prep' :
             /\ prep'[v] \in [query : Queries, pool : Pools, current : BOOLEAN]
             /\ prep'[v].current => prep'[v].pool = advancedDB
      BY <2>1, <2>2
    <2> QED BY <1>0, <2>2, <2>3, <2>4 DEF StmtTypeOK
  <1>3. CASE PrepareContext(u)
    BY <1>0, <1>3 DEF PrepareContext, StmtTypeOK
  <1>4. CASE PrepareFails(u)
    BY <1>0, <1>4 DEF PrepareFails, Unprepare, StmtTypeOK
  <1>5. CASE PreparePut(u)
    <2>1. /\ call[u] = "putting" /\ call' = [call EXCEPT ![u] = "idle"]
          /\ prep' = [v \in DOMAIN prep \ {u} |-> prep[v]]
          /\ UNCHANGED <<db, pools, owner, advancedDB, running, monStopped, ctxDone, panic>>
      BY <1>5 DEF PreparePut, Unprepare
    <2>2. u \in DOMAIN prep /\ prep[u].query \in Queries /\ prep[u].pool \in Pools
      BY <2>1
    <2>3. StmtTypeOK(Pools)' /\ IsFiniteSet(DOMAIN stmts')
          /\ \A q \in DOMAIN stmts' : stmts'[q] = advancedDB
      <3>1. CASE ~ prep[u].current
        <4>1. stmts' = stmts
          BY <1>5, <3>1 DEF PreparePut
        <4> QED BY <4>1 DEF StmtTypeOK
      <3>2. CASE prep[u].current
        <4>1. PICK q \in Queries, s \in Pools : q = prep[u].query /\ s = prep[u].pool
          BY <2>2
        <4>2. PutStmt(q, s)
          BY <1>5, <3>2, <4>1 DEF PreparePut
        <4>3. s = advancedDB
          BY <2>2, <3>2, <4>1
        <4> QED BY <4>2, <4>3, PutWithinSize
      <3> QED BY <3>1, <3>2
    <2>4. DOMAIN prep' = {v \in Users : call'[v] \in {"preparing", "putting"}}
      BY <1>0, <2>1
    <2>5. \A v \in DOMAIN prep' :
             /\ prep'[v] \in [query : Queries, pool : Pools, current : BOOLEAN]
             /\ prep'[v].current => prep'[v].pool = advancedDB
      BY <2>1
    <2> QED BY <1>0, <2>1, <2>3, <2>4, <2>5
  <1> QED BY <1>1, <1>2, <1>3, <1>4, <1>5

\* The invariant holds before the first Connect.
LEMMA InitInv == Init => Inv
  <1> SUFFICES ASSUME Init PROVE Inv
    OBVIOUS
  <1>1. DOMAIN stmts = {} /\ Cardinality({}) = 0 /\ IsFiniteSet({})
    BY FS_EmptySet DEF Init, StmtInit, NoStmts
  <1>2. ManagerTypeOK
    <2>1. 0 \in 0 .. MaxPools
      BY ManagerConstants
    <2>2. pools \in [Pools -> {"unused", "open", "closed"}]
      BY DEF Init, ManagerInit
    <2> QED BY <2>1, <2>2 DEF Init, ManagerInit, ManagerTypeOK
  <1>3. RuntimeTypeOK
    <2>1. StmtTypeOK(Pools)
      BY <1>1, StatementConstants DEF StmtTypeOK
    <2>2. 0 \in 0 .. MaxPools
      BY ManagerConstants
    <2>3. /\ call \in [Actors -> {"off", "idle", "connected", "acquiring", "preparing", "putting"}]
          /\ \A u \in Users : call[u] = "idle"
          /\ DOMAIN prep = {}
      BY DEF Init, Actors
    <2>4. DOMAIN prep = {u \in Users : call[u] \in {"preparing", "putting"}}
      BY <2>3
    <2> QED BY <2>1, <2>2, <2>3, <2>4 DEF Init, MonitorInit, RuntimeTypeOK
  <1>4. WrapperUse /\ StatementsCurrent /\ NilWrapperOnlyAtFirstConnect
    BY <1>1 DEF Init, ManagerInit, WrapperUse, StatementsCurrent, NilWrapperOnlyAtFirstConnect, Actors
  <1>5. PoolsOwned /\ OneDetector
    BY DEF Init, ManagerInit, PoolsOwned, OneDetector
  <1>6. DetectorBudget
    <2>1. Unused = 1 .. MaxPools
      BY DEF Init, ManagerInit, Unused, Pools
    <2>2. Cardinality(1 .. MaxPools) = MaxPools
      BY FS_Interval, ManagerConstants
    <2> QED BY <2>1, <2>2, ManagerConstants DEF DetectorBudget, Init, ManagerInit
  <1> QED BY <1>2, <1>3, <1>4, <1>5, <1>6, TypeParts DEF Inv, ManagerInv

\* Every step preserves the invariant.
LEMMA NextInv == Inv /\ [Next]_vars => Inv'
  <1> SUFFICES ASSUME Inv, [Next]_vars PROVE Inv'
    OBVIOUS
  <1>0. Before /\ ManagerInv
    BY TypeParts DEF Inv, Before, ManagerInv
  <1>1. ManagerInv'
    BY <1>0, RuntimeManager, ManagerPreserved
  <1>2. ASSUME UNCHANGED <<runtimeVars, db>> PROVE After
    <2>1. UNCHANGED <<owner, advancedDB, stmts, call, prep, running, monStopped, ctxDone, panic, db>>
      BY <1>2 DEF runtimeVars, monitorVars
    <2> QED BY <1>0, <2>1 DEF Before, After, RuntimeTypeOK, StmtTypeOK, WrapperUse,
            StatementsCurrent, NilWrapperOnlyAtFirstConnect
  <1>3. After
    <2>1. CASE UNCHANGED vars
      BY <1>2, <2>1 DEF vars, managerVars
    <2>2. CASE Next
      <3>1. panic = "no"
        BY <2>2 DEF Next
      <3>2. CASE Owner
        BY <1>0, <3>1, <3>2, OwnerStep
      <3>3. CASE Detector
        BY <1>2, <3>3 DEF Detector, DetectorEnds
      <3>4. ASSUME NEW u \in Users,
                   \/ Check(u) \/ ScanNilRow(u) \/ AcquireCheck(u) \/ AcquireUse(u)
                   \/ PrepareHit(u) \/ PrepareMiss(u) \/ PrepareContext(u)
                   \/ PrepareFails(u) \/ PreparePut(u)
            PROVE  After
        BY <1>0, <3>1, <3>4, PlainStep, PrepareStep DEF Actors
      <3>5. ASSUME NEW l \in Loops, LoopTick(l) \/ LoopEnds(l) PROVE After
        BY <1>0, <3>1, <3>5, PlainStep DEF Actors
      <3>6. ASSUME NEW a \in Actors, Use(a) PROVE After
        BY <1>0, <3>1, <3>6, PlainStep
      <3> QED BY <2>2, <3>2, <3>3, <3>4, <3>5, <3>6 DEF Next
    <2> QED BY <2>1, <2>2
  <1>4. TypeOK'
    BY <1>1, <1>3 DEF ManagerInv, After, TypeOK, RuntimeTypeOK
  <1> QED BY <1>1, <1>3, <1>4 DEF Inv, After

\* The invariant holds in every reachable state.
LEMMA Always == Spec => []Inv
  BY InitInv, NextInv, PTL DEF Spec

\* The state of the runtime is well typed; the statement cache stays within its
\* size, and no more detectors run than pools were opened.
THEOREM RuntimeTypes == Spec => []TypeOK
  <1>1. Inv => TypeOK
    BY DEF Inv
  <1> QED BY Always, <1>1, PTL

\* No pool is lost: an open pool is the one in cm.db (Open, Close).
THEOREM NoPoolLost == Spec => []PoolsOwned
  <1>1. Inv => PoolsOwned
    BY DEF Inv, ManagerInv
  <1> QED BY Always, <1>1, PTL

\* Until the first Disconnect one leak detector runs exactly while the database
\* is open (Open, LeakDetector.Start).
THEOREM DetectorPerPool == Spec => []OneDetector
  <1>1. Inv => OneDetector
    BY DEF Inv, ManagerInv
  <1> QED BY Always, <1>1, PTL

\* Between calls of the owner the wrapper is that of the current pool (Connect,
\* Disconnect).
THEOREM WrapperFollowsPool == Spec => []WrapperCurrent
  <1>1. Inv => WrapperCurrent
    BY DEF Inv, WrapperUse, WrapperCurrent
  <1> QED BY Always, <1>1, PTL

\* Between calls of the owner every cached statement belongs to the pool in use,
\* although Prepare may be overtaken by Disconnect and Connect (Prepare, Put).
THEOREM CachedStatementsUsable == Spec => []StatementsUsable
  <1>1. Inv => StatementsUsable
    BY DEF Inv, WrapperUse, StatementsCurrent, StatementsUsable
  <1> QED BY Always, <1>1, PTL

\* An operation that passed IsConnected meets a nil wrapper only if it overtook
\* the first Connect.
THEOREM WrapperFound == Spec => []NilWrapperOnlyAtFirstConnect
  <1>1. Inv => NilWrapperOnlyAtFirstConnect
    BY DEF Inv
  <1> QED BY Always, <1>1, PTL
=============================================================================
