---------------------------- MODULE TCPServerProofs ----------------------------
(***************************************************************************)
(* Safety of the TCP server for any number of connections and addresses    *)
(* and any limits, with and without the protection of addresses.           *)
(***************************************************************************)
EXTENDS TCPServer, FiniteSetTheorems, TLAPS

\* The connection acceptLoop has in hand, and no other, has no handler yet.
InHand ==
    /\ acceptor \notin {"store", "add", "spawn"} => accepted = {}
    /\ \A c, d \in accepted : c = d
    /\ \A c \in accepted : handler[c] = "none" /\ conn[c] \in {"open", "closed"}

\* A handler is started for an accepted connection only, the map holds what is
\* being handled, and an open connection has somebody who will close it.
Live == {"admit", "scan", "check", "message", "serve", "limited", "delete"}

Handled ==
    \A c \in Conns :
        /\ conn[c] \in {"none", "backlog"} => handler[c] = "none"
        /\ c \in clients => \/ c \in accepted /\ acceptor \in {"add", "spawn"}
                            \/ handler[c] \in Live
        /\ conn[c] = "open" => c \in accepted \/ handler[c] \in Live \cup {"close"}

\* The listener is created with the accept loop and closed by Stop, after which
\* no connection waits for it.
ListenerUse ==
    /\ listener = "nil" <=> acceptor = "off"
    /\ stop # "idle" => listener # "nil"
    /\ stop \in {"range", "wait", "stopped"} =>
          listener = "closed" /\ \A c \in Conns : conn[c] # "backlog"

\* Connections of an address that are being served.
LiveOf(i) == {c \in Conns : IpOf[c] = i /\ handler[c] \in Serving}

\* Every served connection of an address was counted, up to the limit.
Admitted ==
    protected /\ MaxConnectionsPerIP > 0 =>
        \A i \in IPs : /\ Cardinality(LiveOf(i)) <= ipConnections[i]
                       /\ ipConnections[i] <= MaxConnectionsPerIP

\* The inductive invariant.
Inv ==
    /\ TypeOK /\ WaitGroupCounts
    /\ InHand /\ Handled /\ ListenerUse
    /\ StoppedIsQuiet /\ Admitted

RunningSet == {c \in Conns : Running(c)}

\* The handlers that run are finitely many.
LEMMA RunningFinite ==
  /\ IsFiniteSet(RunningSet) /\ Cardinality(RunningSet) \in Nat
  /\ RunningSet = {} <=> Cardinality(RunningSet) = 0
  <1>1. IsFiniteSet(RunningSet)
    BY ServerConstants, FS_Subset DEF RunningSet
  <1> QED BY <1>1, FS_EmptySet, FS_CardinalityType

\* A step that leaves the running handlers, wg and the accept loop's part alone
\* keeps the count.
LEMMA SameCount ==
  ASSUME WaitGroupCounts, RunningSet' = RunningSet, wg' = wg, AcceptorCount' = AcceptorCount
  PROVE  WaitGroupCounts'
  BY DEF WaitGroupCounts, RunningSet, AcceptorCount

\* The steps of a handler other than its last keep it running.
LEMMA HandlerStays ==
  ASSUME TypeOK, NEW c \in Conns, Handle(c), ~ DeferDone(c)
  PROVE  /\ \E x \in HandlerPCs \ {"none", "gone", "admit"} : Goto(c, x)
         /\ handler[c] \notin {"none", "gone"}
         /\ UNCHANGED <<wg, acceptor, accepted, stop, listener, shutdown, rangeVars, protected>>
  <1> USE DEF HandlerPCs, serverVars, limitVars
  <1>1. CASE Admit(c)
    BY <1>1 DEF Admit
  <1>2. CASE ScanLine(c) \/ ScanEnd(c) \/ CheckLine(c) \/ CheckSize(c)
    BY <1>2 DEF ScanLine, ScanEnd, CheckLine, CheckSize
  <1>3. CASE CheckRateLimit(c) \/ Answer(c)
    BY <1>3 DEF CheckRateLimit, Answer
  <1>4. CASE DeferDelete(c) \/ DeferClose(c)
    BY <1>4 DEF DeferDelete, DeferClose
  <1> QED BY <1>1, <1>2, <1>3, <1>4 DEF Handle

\* Every step keeps the wait group exact, and its counter a natural number.
LEMMA CountStep ==
  ASSUME TypeOK, WaitGroupCounts, InHand, ListenerUse, [Next]_vars
  PROVE  WaitGroupCounts' /\ wg' \in Nat
  <1>0. /\ handler \in [Conns -> HandlerPCs] /\ wg \in Nat
        /\ wg = Cardinality(RunningSet) + AcceptorCount
        /\ AcceptorCount \in {0, 1, 2} /\ accepted \subseteq Conns
    BY DEF TypeOK, WaitGroupCounts, RunningSet, AcceptorCount
  <1>1. ASSUME UNCHANGED <<handler, wg, acceptor>> PROVE WaitGroupCounts' /\ wg' \in Nat
    BY <1>0, <1>1 DEF WaitGroupCounts, Running, AcceptorCount
  <1>2. CASE UNCHANGED vars
    BY <1>1, <1>2 DEF vars, serverVars
  <1>3. CASE Start
    <2>1. acceptor = "off" /\ acceptor' = "check" /\ wg' = wg + 1 /\ handler' = handler
      BY <1>3 DEF Start, ListenerUse
    <2> QED BY <1>0, <2>1, RunningFinite DEF WaitGroupCounts, Running, RunningSet, AcceptorCount
  <1>4. CASE Stop
    BY <1>1, <1>4 DEF Stop, StopBegin, StopListener, StopRange, StopRangeEnd, StopWait, serverVars
  <1>5. CASE AcceptCheck \/ AcceptClosed
    <2>1. /\ acceptor \in {"check", "accept"} /\ handler' = handler
          /\ \/ acceptor' = "done" /\ wg' = wg - 1
             \/ acceptor' \in {"check", "accept"} /\ wg' = wg
      BY <1>5 DEF AcceptCheck, AcceptClosed
    <2> QED BY <1>0, <2>1, RunningFinite DEF WaitGroupCounts, Running, RunningSet, AcceptorCount
  <1>6. CASE AcceptRetry \/ \E c \in Conns : AcceptConn(c) \/ AcceptStore(c)
    <2>1. /\ acceptor \in {"accept", "store"} /\ acceptor' \in {"check", "store", "add"}
          /\ UNCHANGED <<handler, wg>>
      BY <1>6 DEF AcceptRetry, AcceptConn, AcceptStore, serverVars
    <2> QED BY <1>0, <2>1 DEF WaitGroupCounts, Running, RunningSet, AcceptorCount
  <1>7. ASSUME NEW c \in Conns, AcceptSpawn(c) PROVE WaitGroupCounts' /\ wg' \in Nat
    <2>1. /\ acceptor = "spawn" /\ acceptor' = "check" /\ wg' = wg
          /\ handler[c] = "none" /\ handler' = [handler EXCEPT ![c] = "admit"]
      BY <1>7 DEF AcceptSpawn, Goto, InHand, serverVars
    <2>2. RunningSet' = RunningSet \cup {c} /\ c \notin RunningSet
      BY <1>0, <2>1 DEF RunningSet, Running
    <2>3. Cardinality(RunningSet') = Cardinality(RunningSet) + 1
      BY <2>2, RunningFinite, FS_AddElement
    <2> QED BY <1>0, <2>1, <2>3, RunningFinite DEF WaitGroupCounts, RunningSet, AcceptorCount
  <1>8. ASSUME NEW c \in Conns, DeferDone(c) PROVE WaitGroupCounts' /\ wg' \in Nat
    <2>1. /\ acceptor' = acceptor /\ wg' = wg - 1
          /\ handler[c] = "done" /\ handler' = [handler EXCEPT ![c] = "gone"]
      BY <1>8 DEF DeferDone, Goto
    <2>2. RunningSet' = RunningSet \ {c} /\ c \in RunningSet
      BY <1>0, <2>1 DEF RunningSet, Running
    <2>3. Cardinality(RunningSet') = Cardinality(RunningSet) - 1
      BY <2>2, RunningFinite, FS_RemoveElement
    <2>4. Cardinality(RunningSet) # 0
      BY <2>2, RunningFinite
    <2> QED BY <1>0, <2>1, <2>3, <2>4, RunningFinite DEF WaitGroupCounts, RunningSet, AcceptorCount
  <1>9. ASSUME NEW c \in Conns, Handle(c), ~ DeferDone(c) PROVE WaitGroupCounts' /\ wg' \in Nat
    <2>1. PICK x \in HandlerPCs \ {"none", "gone", "admit"} : Goto(c, x)
      BY <1>9, HandlerStays
    <2>2. handler[c] \notin {"none", "gone"} /\ UNCHANGED <<wg, acceptor>>
      BY <1>9, HandlerStays
    <2>3. RunningSet' = RunningSet
      BY <1>0, <2>1, <2>2 DEF RunningSet, Running, Goto
    <2> QED BY <1>0, <2>2, <2>3, SameCount DEF AcceptorCount
  <1>10. ASSUME NEW c \in Conns, Dial(c) \/ Send(c) \/ Hangup(c)
         PROVE  WaitGroupCounts' /\ wg' \in Nat
    BY <1>1, <1>10 DEF Dial, Send, Hangup, serverVars
  <1>11. ASSUME NEW i \in IPs, SecondPasses(i) PROVE WaitGroupCounts' /\ wg' \in Nat
    BY <1>1, <1>11 DEF SecondPasses, serverVars
  <1>12. ASSUME NEW c \in Conns, AcceptAdd(c) PROVE WaitGroupCounts' /\ wg' \in Nat
    <2>1. acceptor = "add" /\ acceptor' = "spawn" /\ wg' = wg + 1 /\ handler' = handler
      BY <1>12 DEF AcceptAdd
    <2> QED BY <1>0, <2>1, RunningFinite DEF WaitGroupCounts, Running, RunningSet, AcceptorCount
  <1>13. CASE AcceptLoop
    BY <1>5, <1>6, <1>7, <1>12, <1>13 DEF AcceptLoop
  <1> QED BY <1>2, <1>3, <1>4, <1>8, <1>9, <1>10, <1>11, <1>13 DEF Next

\* The rest of the type invariant.
LEMMA TypeStep ==
  ASSUME TypeOK, wg' \in Nat, [Next]_vars
  PROVE  TypeOK'
  <1> USE ServerConstants DEF TypeOK, Lines, HandlerPCs, Goto, serverVars, limitVars, rangeVars
  <1>1. CASE UNCHANGED vars
    BY <1>1 DEF vars
  <1>2. CASE Start
    BY <1>2 DEF Start
  <1>3. CASE StopBegin \/ StopRangeEnd \/ StopWait
    BY <1>3 DEF StopBegin, StopRangeEnd, StopWait
  <1>4. CASE StopListener
    BY <1>4 DEF StopListener
  <1>5. ASSUME NEW c \in Conns, StopRange(c) PROVE TypeOK'
    BY <1>5 DEF StopRange
  <1>6. CASE AcceptCheck \/ AcceptRetry \/ AcceptClosed
    BY <1>6 DEF AcceptCheck, AcceptRetry, AcceptClosed
  <1>7. ASSUME NEW c \in Conns, AcceptConn(c) \/ AcceptStore(c) \/ AcceptAdd(c) \/ AcceptSpawn(c)
        PROVE  TypeOK'
    BY <1>7 DEF AcceptConn, AcceptStore, AcceptAdd, AcceptSpawn
  <1>8. ASSUME NEW c \in Conns, Dial(c) \/ Send(c) \/ Hangup(c) PROVE TypeOK'
    BY <1>8 DEF Dial, Send, Hangup
  <1>9. ASSUME NEW c \in Conns, Admit(c) PROVE TypeOK'
    BY <1>9 DEF Admit
  <1>10. ASSUME NEW c \in Conns, ScanLine(c) \/ ScanEnd(c) \/ CheckLine(c) \/ CheckSize(c)
         PROVE  TypeOK'
    BY <1>10 DEF ScanLine, ScanEnd, CheckLine, CheckSize
  <1>11. ASSUME NEW c \in Conns, CheckRateLimit(c) \/ Answer(c) PROVE TypeOK'
    BY <1>11 DEF CheckRateLimit, Answer
  <1>12. ASSUME NEW c \in Conns, DeferDelete(c) \/ DeferClose(c) \/ DeferDone(c) PROVE TypeOK'
    BY <1>12 DEF DeferDelete, DeferClose, DeferDone
  <1>13. ASSUME NEW i \in IPs, SecondPasses(i) PROVE TypeOK'
    BY <1>13 DEF SecondPasses
  <1>14. CASE Stop
    BY <1>3, <1>4, <1>5, <1>14 DEF Stop
  <1>15. CASE AcceptLoop
    BY <1>6, <1>7, <1>15 DEF AcceptLoop
  <1>16. ASSUME NEW c \in Conns, Handle(c) PROVE TypeOK'
    BY <1>9, <1>10, <1>11, <1>12, <1>16 DEF Handle
  <1> QED BY <1>1, <1>2, <1>8, <1>13, <1>14, <1>15, <1>16 DEF Next

\* The part of the invariant about who holds which connection.
Shape == InHand /\ Handled /\ ListenerUse

\* A step of a handler touches its own connection and map entry only.
LEMMA HandleShape ==
  ASSUME TypeOK, Shape, NEW c \in Conns, Handle(c)
  PROVE  Shape'
  <1>0. /\ handler \in [Conns -> HandlerPCs] /\ clients \subseteq Conns /\ accepted \subseteq Conns
        /\ conn \in [Conns -> {"none", "backlog", "open", "closed"}]
    BY DEF TypeOK
  <1> USE DEF Shape, InHand, Handled, ListenerUse, Goto, serverVars, Live, HandlerPCs
  <1>1. CASE Admit(c)
    BY <1>0, <1>1 DEF Admit
  <1>2. CASE ScanLine(c) \/ ScanEnd(c) \/ CheckSize(c)
    BY <1>0, <1>2 DEF ScanLine, ScanEnd, CheckSize
  <1>3. CASE CheckLine(c)
    BY <1>0, <1>3 DEF CheckLine
  <1>4. CASE CheckRateLimit(c)
    BY <1>0, <1>4 DEF CheckRateLimit
  <1>5. CASE Answer(c)
    BY <1>0, <1>5 DEF Answer
  <1>6. CASE DeferDelete(c)
    BY <1>0, <1>6 DEF DeferDelete
  <1>7. CASE DeferClose(c)
    BY <1>0, <1>7 DEF DeferClose
  <1>8. CASE DeferDone(c)
    BY <1>0, <1>8 DEF DeferDone
  <1> QED BY <1>1, <1>2, <1>3, <1>4, <1>5, <1>6, <1>7, <1>8 DEF Handle

\* Every step keeps track of the connections.
LEMMA ShapeStep ==
  ASSUME TypeOK, Shape, [Next]_vars
  PROVE  Shape'
  <1>0. /\ handler \in [Conns -> HandlerPCs] /\ clients \subseteq Conns /\ accepted \subseteq Conns
        /\ conn \in [Conns -> {"none", "backlog", "open", "closed"}]
    BY DEF TypeOK
  <1> USE DEF Shape, InHand, Handled, ListenerUse, Goto, serverVars
  <1>1. CASE UNCHANGED vars
    BY <1>1 DEF vars
  <1>2. CASE Start
    BY <1>0, <1>2 DEF Start, MuFree
  <1>3. CASE StopBegin \/ StopRangeEnd \/ StopWait
    BY <1>0, <1>3 DEF StopBegin, StopRangeEnd, StopWait
  <1>4. CASE StopListener
    BY <1>0, <1>4 DEF StopListener
  <1>5. ASSUME NEW c \in Conns, StopRange(c) PROVE Shape'
    BY <1>0, <1>5 DEF StopRange, Live
  <1>6. CASE AcceptCheck \/ AcceptRetry \/ AcceptClosed
    BY <1>0, <1>6 DEF AcceptCheck, AcceptRetry, AcceptClosed
  <1>7. ASSUME NEW c \in Conns, AcceptConn(c) PROVE Shape'
    BY <1>0, <1>7 DEF AcceptConn
  <1>8. ASSUME NEW c \in Conns, AcceptStore(c) PROVE Shape'
    BY <1>0, <1>8 DEF AcceptStore
  <1>9. ASSUME NEW c \in Conns, AcceptAdd(c) \/ AcceptSpawn(c) PROVE Shape'
    BY <1>0, <1>9 DEF AcceptAdd, AcceptSpawn, Live
  <1>10. ASSUME NEW c \in Conns, Dial(c) PROVE Shape'
    BY <1>0, <1>10 DEF Dial
  <1>11. ASSUME NEW c \in Conns, Send(c) \/ Hangup(c) PROVE Shape'
    BY <1>0, <1>11 DEF Send, Hangup
  <1>12. ASSUME NEW i \in IPs, SecondPasses(i) PROVE Shape'
    BY <1>12 DEF SecondPasses
  <1>13. ASSUME NEW c \in Conns, Handle(c) PROVE Shape'
    BY <1>13, HandleShape
  <1>14. CASE Stop
    BY <1>3, <1>4, <1>5, <1>14 DEF Stop
  <1>15. CASE AcceptLoop
    BY <1>6, <1>7, <1>8, <1>9, <1>15 DEF AcceptLoop
  <1> QED BY <1>1, <1>2, <1>10, <1>11, <1>12, <1>13, <1>14, <1>15 DEF Next

\* Stop returns when nothing is running any more, and nothing starts again.
LEMMA QuietStep ==
  ASSUME Inv, [Next]_vars, Shape'
  PROVE  StoppedIsQuiet'
  <1>0. /\ handler \in [Conns -> HandlerPCs] /\ clients \subseteq Conns /\ accepted \subseteq Conns
        /\ conn \in [Conns -> {"none", "backlog", "open", "closed"}]
        /\ InHand /\ Handled /\ ListenerUse /\ StoppedIsQuiet
        /\ acceptor \in {"off", "check", "accept", "store", "add", "spawn", "done"}
    BY DEF Inv, TypeOK
  <1> SUFFICES ASSUME stop' = "stopped"
               PROVE  /\ acceptor' = "done" /\ clients' = {}
                      /\ \A c \in Conns : handler'[c] \in {"none", "gone"} /\ conn'[c] # "open"
    BY DEF StoppedIsQuiet, Running
  <1>1. CASE stop = "wait"
    <2>1. /\ wg = 0 /\ UNCHANGED <<acceptor, clients, handler, conn, accepted>>
      <3>1. stop' # stop
        BY <1>1
      <3>2. StopWait
        BY <1>1, <3>1 DEF Next, Start, Stop, StopBegin, StopListener, StopRange, StopRangeEnd,
           AcceptLoop, AcceptCheck, AcceptRetry, AcceptClosed, AcceptConn, AcceptStore, AcceptAdd,
           AcceptSpawn, Dial, Send, Hangup, Handle, Admit, ScanLine, ScanEnd, CheckLine, CheckSize,
           CheckRateLimit, Answer, DeferDelete, DeferClose, DeferDone, SecondPasses, vars
      <3> QED BY <3>2 DEF StopWait, serverVars
    <2>2. acceptor = "done" /\ RunningSet = {}
      <3>1. 0 = Cardinality(RunningSet) + AcceptorCount /\ AcceptorCount \in {0, 1, 2}
        BY <2>1 DEF Inv, WaitGroupCounts, RunningSet, AcceptorCount
      <3>2. AcceptorCount = 0 /\ RunningSet = {}
        BY <3>1, RunningFinite
      <3> QED BY <1>0, <1>1, <3>2 DEF AcceptorCount, ListenerUse
    <2>3. \A c \in Conns : handler[c] \in {"none", "gone"}
      BY <2>2 DEF RunningSet, Running
    <2>4. accepted = {}
      BY <1>0, <2>2 DEF InHand
    <2>5. clients = {} /\ \A c \in Conns : conn[c] # "open"
      BY <1>0, <2>3, <2>4 DEF Handled, Live
    <2> QED BY <2>1, <2>2, <2>3, <2>5
  <1>2. CASE stop = "stopped"
    <2>1. /\ acceptor = "done" /\ clients = {} /\ listener = "closed"
          /\ \A c \in Conns : handler[c] \in {"none", "gone"} /\ conn[c] \notin {"open", "backlog"}
      BY <1>0, <1>2 DEF StoppedIsQuiet, ListenerUse, Running
    <2>2. UNCHANGED <<acceptor, clients, handler, conn>>
      <3>1. CASE UNCHANGED vars \/ \E i \in IPs : SecondPasses(i)
        BY <3>1 DEF vars, serverVars, SecondPasses
      <3>2. ~ Start /\ ~ Stop /\ ~ AcceptLoop
        BY <1>2, <2>1 DEF Start, Stop, StopBegin, StopListener, StopRange, StopRangeEnd, StopWait,
           AcceptLoop, AcceptCheck, AcceptRetry, AcceptClosed, AcceptConn, AcceptStore, AcceptAdd,
           AcceptSpawn
      <3>3. ASSUME NEW c \in Conns PROVE ~ Dial(c) /\ ~ Send(c) /\ ~ Hangup(c) /\ ~ Handle(c)
        <4>1. ~ Dial(c) /\ ~ Send(c) /\ ~ Hangup(c)
          BY <2>1 DEF Dial, Send, Hangup
        <4>2. ~ Handle(c)
          BY <2>1 DEF Handle, Admit, ScanLine, ScanEnd, CheckLine, CheckSize, CheckRateLimit,
             Answer, DeferDelete, DeferClose, DeferDone
        <4> QED BY <4>1, <4>2
      <3> QED BY <3>1, <3>2, <3>3 DEF Next
    <2> QED BY <2>1, <2>2
  <1>3. CASE stop \notin {"wait", "stopped"}
    BY <1>3 DEF Next, Start, Stop, StopBegin, StopListener, StopRange, StopRangeEnd, StopWait,
       AcceptLoop, AcceptCheck, AcceptRetry, AcceptClosed, AcceptConn, AcceptStore, AcceptAdd,
       AcceptSpawn, Dial, Send, Hangup, Handle, Admit, ScanLine, ScanEnd, CheckLine, CheckSize,
       CheckRateLimit, Answer, DeferDelete, DeferClose, DeferDone, SecondPasses, vars
  <1> QED BY <1>1, <1>2, <1>3

\* The connections of an address that are being served are finitely many.
LEMMA LiveFinite ==
  ASSUME NEW i \in IPs
  PROVE  IsFiniteSet(LiveOf(i)) /\ Cardinality(LiveOf(i)) \in Nat
  <1>1. IsFiniteSet(LiveOf(i))
    BY ServerConstants, FS_Subset DEF LiveOf
  <1> QED BY <1>1, FS_CardinalityType

\* A step that serves no further connection keeps the limit.
LEMMA FewerServed ==
  ASSUME TypeOK, Admitted, UNCHANGED <<protected, ipConnections>>,
         \A c \in Conns : handler'[c] \in Serving => handler[c] \in Serving
  PROVE  Admitted'
  <1> SUFFICES ASSUME protected, MaxConnectionsPerIP > 0, NEW i \in IPs
               PROVE  /\ Cardinality(LiveOf(i)') <= ipConnections[i]
                      /\ ipConnections[i] <= MaxConnectionsPerIP
    BY DEF Admitted
  <1>1. /\ Cardinality(LiveOf(i)) <= ipConnections[i] /\ ipConnections[i] <= MaxConnectionsPerIP
        /\ ipConnections[i] \in Nat
    BY DEF Admitted, TypeOK
  <1>2. LiveOf(i)' \subseteq LiveOf(i)
    BY DEF LiveOf
  <1>3. Cardinality(LiveOf(i)') <= Cardinality(LiveOf(i)) /\ Cardinality(LiveOf(i)') \in Nat
    BY <1>2, LiveFinite, FS_Subset, FS_CardinalityType
  <1> QED BY <1>1, <1>3, LiveFinite

\* allowConnection counts the connection it admits, below the limit only.
LEMMA AdmitStep ==
  ASSUME TypeOK, Admitted, NEW c \in Conns, Admit(c)
  PROVE  Admitted'
  <1>0. /\ handler \in [Conns -> HandlerPCs] /\ ipConnections \in [IPs -> Nat]
        /\ MaxConnectionsPerIP \in Nat /\ IpOf \in [Conns -> IPs]
    BY ServerConstants DEF TypeOK
  <1>1. protected' = protected /\ handler[c] = "admit"
    BY DEF Admit
  <1> SUFFICES ASSUME protected, MaxConnectionsPerIP > 0, NEW i \in IPs
               PROVE  /\ Cardinality(LiveOf(i)') <= ipConnections'[i]
                      /\ ipConnections'[i] <= MaxConnectionsPerIP
    BY <1>1 DEF Admitted
  <1>2. /\ Cardinality(LiveOf(i)) <= ipConnections[i] /\ ipConnections[i] <= MaxConnectionsPerIP
    BY DEF Admitted
  <1>3. CASE Barred(IpOf[c])
    <2>1. ipConnections' = ipConnections /\ handler' = [handler EXCEPT ![c] = "delete"]
      BY <1>3 DEF Admit, Goto
    <2>2. LiveOf(i)' = LiveOf(i)
      BY <1>0, <1>1, <2>1 DEF LiveOf, Serving
    <2> QED BY <1>2, <2>1, <2>2
  <1>4. CASE ~ Barred(IpOf[c])
    <2>1. /\ ipConnections' = [ipConnections EXCEPT ![IpOf[c]] = @ + 1]
          /\ handler' = [handler EXCEPT ![c] = "scan"]
      BY <1>4 DEF Admit, Goto
    <2>2. ipConnections[IpOf[c]] < MaxConnectionsPerIP
      BY <1>0, <1>4 DEF Barred
    <2>3. CASE IpOf[c] = i
      <3>1. LiveOf(i)' = LiveOf(i) \cup {c} /\ c \notin LiveOf(i)
        BY <1>0, <1>1, <2>1, <2>3 DEF LiveOf, Serving
      <3>2. Cardinality(LiveOf(i)') = Cardinality(LiveOf(i)) + 1
        BY <3>1, LiveFinite, FS_AddElement
      <3> QED BY <1>0, <1>2, <2>1, <2>2, <2>3, <3>2, LiveFinite
    <2>4. CASE IpOf[c] # i
      <3>1. LiveOf(i)' = LiveOf(i) /\ ipConnections'[i] = ipConnections[i]
        BY <1>0, <2>1, <2>4 DEF LiveOf
      <3> QED BY <1>2, <3>1
    <2> QED BY <2>3, <2>4
  <1> QED BY <1>3, <1>4

\* Every step keeps the connections of an address within their limit.
LEMMA AdmittedStep ==
  ASSUME TypeOK, Admitted, [Next]_vars
  PROVE  Admitted'
  <1>0. handler \in [Conns -> HandlerPCs]
    BY DEF TypeOK
  <1>1. ASSUME UNCHANGED <<protected, ipConnections, handler>> PROVE Admitted'
    BY <1>1, FewerServed
  <1> USE DEF serverVars, limitVars
  <1>2. CASE UNCHANGED vars \/ Start \/ Stop
    BY <1>1, <1>2 DEF vars, Start, Stop, StopBegin, StopListener, StopRange, StopRangeEnd, StopWait
  <1>3. CASE AcceptCheck \/ AcceptRetry \/ AcceptClosed
    BY <1>1, <1>3 DEF AcceptCheck, AcceptRetry, AcceptClosed
  <1>4. ASSUME NEW c \in Conns, AcceptConn(c) \/ AcceptStore(c) \/ AcceptAdd(c)
                                 \/ Dial(c) \/ Send(c) \/ Hangup(c)
        PROVE  Admitted'
    BY <1>1, <1>4 DEF AcceptConn, AcceptStore, AcceptAdd, Dial, Send, Hangup
  <1>5. ASSUME NEW i \in IPs, SecondPasses(i) PROVE Admitted'
    BY <1>1, <1>5 DEF SecondPasses
  <1>6. ASSUME NEW c \in Conns, UNCHANGED <<protected, ipConnections>>,
               NEW x, Goto(c, x), x \in Serving => handler[c] \in Serving
        PROVE  Admitted'
    BY <1>0, <1>6, FewerServed DEF Goto
  <1>7. ASSUME NEW c \in Conns, AcceptSpawn(c) PROVE Admitted'
    BY <1>6, <1>7 DEF AcceptSpawn, Serving
  <1>8. ASSUME NEW c \in Conns, Handle(c) PROVE Admitted'
    <2>1. CASE Admit(c)
      BY <2>1, AdmitStep
    <2>2. CASE ScanLine(c) \/ ScanEnd(c) \/ CheckLine(c) \/ CheckSize(c)
      <3>1. handler[c] \in Serving /\ UNCHANGED <<protected, ipConnections>> /\ \E x : Goto(c, x)
        BY <2>2 DEF ScanLine, ScanEnd, CheckLine, CheckSize, Serving
      <3> QED BY <1>6, <3>1
    <2>3. CASE CheckRateLimit(c) \/ Answer(c)
      <3>1. handler[c] \in Serving /\ UNCHANGED <<protected, ipConnections>> /\ \E x : Goto(c, x)
        BY <2>3 DEF CheckRateLimit, Answer, Serving
      <3> QED BY <1>6, <3>1
    <2>4. CASE DeferDelete(c) \/ DeferClose(c) \/ DeferDone(c)
      BY <1>6, <2>4 DEF DeferDelete, DeferClose, DeferDone, Serving
    <2> QED BY <1>8, <2>1, <2>2, <2>3, <2>4 DEF Handle
  <1>9. CASE AcceptLoop
    BY <1>3, <1>4, <1>7, <1>9 DEF AcceptLoop
  <1> QED BY <1>2, <1>4, <1>5, <1>8, <1>9 DEF Next

\* The invariant holds before Start.
LEMMA InitInv == Init => Inv
  <1> SUFFICES ASSUME Init PROVE Inv
    OBVIOUS
  <1>1. TypeOK
    BY ServerConstants DEF Init, TypeOK, HandlerPCs
  <1>2. RunningSet = {} /\ AcceptorCount = 0 /\ wg = 0
    BY DEF Init, RunningSet, Running, AcceptorCount
  <1>3. WaitGroupCounts
    BY <1>2, FS_EmptySet DEF WaitGroupCounts, RunningSet, AcceptorCount
  <1>4. InHand /\ Handled /\ ListenerUse /\ StoppedIsQuiet
    BY DEF Init, InHand, Handled, ListenerUse, StoppedIsQuiet
  <1>5. Admitted
    <2>1. \A i \in IPs : LiveOf(i) = {} /\ ipConnections[i] = 0
      BY DEF Init, LiveOf, Serving
    <2> QED BY <2>1, FS_EmptySet, ServerConstants DEF Admitted
  <1> QED BY <1>1, <1>3, <1>4, <1>5 DEF Inv

\* Every step preserves the invariant.
LEMMA NextInv == Inv /\ [Next]_vars => Inv'
  <1> SUFFICES ASSUME Inv, [Next]_vars PROVE Inv'
    OBVIOUS
  <1>1. Shape'
    BY ShapeStep DEF Inv, Shape
  <1>2. WaitGroupCounts' /\ wg' \in Nat
    BY CountStep DEF Inv
  <1>3. TypeOK'
    BY <1>2, TypeStep DEF Inv
  <1>4. StoppedIsQuiet' /\ Admitted'
    BY <1>1, QuietStep, AdmittedStep DEF Inv
  <1> QED BY <1>1, <1>2, <1>3, <1>4 DEF Inv, Shape

\* The invariant holds in every reachable state.
LEMMA Always == Spec => []Inv
  BY InitInv, NextInv, PTL DEF Spec

\* The state of the server is well typed.
THEOREM ServerTypes == Spec => []TypeOK
  <1>1. Inv => TypeOK
    BY DEF Inv
  <1> QED BY Always, <1>1, PTL

\* For any number of connections, wg counts the accept loop and the handlers
\* that have not returned, and nothing else (acceptLoop, handleClient).
THEOREM WaitGroupExact == Spec => []WaitGroupCounts
  <1>1. Inv => WaitGroupCounts
    BY DEF Inv
  <1> QED BY Always, <1>1, PTL

\* A Stop that returns has left no goroutine, no registered client and no open
\* connection behind, however connections were being accepted meanwhile.
THEOREM StopLeavesNothing == Spec => []StoppedIsQuiet
  <1>1. Inv => StoppedIsQuiet
    BY DEF Inv
  <1> QED BY Always, <1>1, PTL

\* With the protection on, no address has more connections served at once than
\* MaxConnectionsPerIP (allowConnection).
THEOREM AddressLimit == Spec => []PerIPBound
  <1>1. Inv => PerIPBound
    <2> SUFFICES ASSUME Inv, protected, NEW i \in IPs, MaxConnectionsPerIP > 0
                 PROVE  Cardinality(LiveOf(i)) <= MaxConnectionsPerIP
      BY DEF PerIPBound, LiveOf
    <2>1. /\ Cardinality(LiveOf(i)) <= ipConnections[i] /\ ipConnections[i] <= MaxConnectionsPerIP
          /\ ipConnections[i] \in Nat
      BY DEF Inv, Admitted, TypeOK
    <2> QED BY <2>1, LiveFinite, ServerConstants
  <1> QED BY Always, <1>1, PTL
=============================================================================
