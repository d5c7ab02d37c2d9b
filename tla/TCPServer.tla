------------------------------- MODULE TCPServer -------------------------------
(***************************************************************************)
(* TCPServer (tcp_server.go): Start, Stop, the accept loop and one handler *)
(* goroutine per connection, with the per-IP protection of                 *)
(* EnableDDoSProtection.                                                   *)
(*                                                                         *)
(* s.mu is held across several steps only by Stop (stop # "idle" and not   *)
(* yet "stopped"); every other critical section is one action, guarded by  *)
(* MuFree.  Start runs once: Stop leaves s.listener set, so a later Start  *)
(* returns an error and changes nothing.                                   *)
(*                                                                         *)
(* A handler is at                                                         *)
(*   admit    started, before allowConnection                              *)
(*   scan     in scanner.Scan                                              *)
(*   check    has a line, before its look at s.shutdown                    *)
(*   message  in handleMessage, before its checks                          *)
(*   serve    past the checks, or its request too large, before it answers *)
(*   limited  refused by the rate limit, before it sends the error         *)
(*   delete, close, done   in its deferred calls; gone after the last      *)
(***************************************************************************)
EXTENDS Integers, FiniteSets

CONSTANTS Conns, IPs,
          IpOf,                  \* the address a connection comes from
          MaxConnectionsPerIP,   \* 0: no limit
          RateLimitPerIP,        \* 0: no limit
          Blacklist, Whitelist

ASSUME ServerConstants ==
    /\ IpOf \in [Conns -> IPs]
    /\ MaxConnectionsPerIP \in Nat /\ RateLimitPerIP \in Nat
    /\ Blacklist \subseteq IPs /\ Whitelist \subseteq IPs
    /\ IsFiniteSet(Conns)

VARIABLES
    listener,        \* "nil", "listening" or "closed"
    shutdown,        \* s.shutdown is closed
    clients,         \* keys of s.clients
    wg,              \* counter of s.wg
    ipConnections,   \* s.ipConnections
    served,          \* requests of an IP accepted less than a second ago
    protected,       \* s.config.EnableDDoSProtection, never changed
    acceptor,        \* place of acceptLoop
    accepted,        \* the connection acceptLoop has in hand
    stop,            \* place of Stop
    inRange,         \* connections Stop's Range still has to visit
    atRange,         \* history: the connections registered when Range began
    conn,            \* the connection: "none", "backlog", "open", "closed"
    line,            \* the line a client has sent and the handler not read
    handler          \* place of the handler of a connection

serverVars == <<listener, shutdown, clients, wg>>
rangeVars == <<inRange, atRange>>
limitVars == <<ipConnections, served, protected>>
vars == <<serverVars, limitVars, acceptor, accepted, stop, rangeVars, conn, line, handler>>

\* "large" is a request over MaxRequestSize, "garbage" a line that is no
\* message, "toolong" one that exceeds the scanner's buffer.
Lines == {"request", "large", "close", "garbage", "toolong"}
HandlerPCs == {"none", "admit", "scan", "check", "message", "serve", "limited",
               "delete", "close", "done", "gone"}

TypeOK ==
    /\ listener \in {"nil", "listening", "closed"}
    /\ shutdown \in BOOLEAN
    /\ clients \subseteq Conns
    /\ wg \in Nat
    /\ ipConnections \in [IPs -> Nat]
    /\ served \in [IPs -> Nat]
    /\ protected \in BOOLEAN
    /\ acceptor \in {"off", "check", "accept", "store", "add", "spawn", "done"}
    /\ accepted \in SUBSET Conns
    /\ stop \in {"idle", "listener", "range", "wait", "stopped"}
    /\ inRange \subseteq Conns /\ atRange \subseteq Conns
    /\ conn \in [Conns -> {"none", "backlog", "open", "closed"}]
    /\ line \in [Conns -> Lines \cup {"none"}]
    /\ handler \in [Conns -> HandlerPCs]

Init ==
    /\ listener = "nil" /\ shutdown = FALSE /\ clients = {} /\ wg = 0
    /\ ipConnections = [i \in IPs |-> 0] /\ served = [i \in IPs |-> 0]
    /\ protected \in BOOLEAN
    /\ acceptor = "off" /\ accepted = {}
    /\ stop = "idle" /\ inRange = {} /\ atRange = {}
    /\ conn = [c \in Conns |-> "none"]
    /\ line = [c \in Conns |-> "none"]
    /\ handler = [c \in Conns |-> "none"]

MuFree == stop \in {"idle", "stopped"}

Goto(c, label) == handler' = [handler EXCEPT ![c] = label]

-----------------------------------------------------------------------------
(* Clients and the network                                                 *)

Dial(c) ==
    /\ conn[c] = "none" /\ listener = "listening"
    /\ conn' = [conn EXCEPT ![c] = "backlog"]
    /\ UNCHANGED <<serverVars, limitVars, acceptor, accepted, stop, rangeVars, line, handler>>

Send(c) ==
    /\ conn[c] \in {"backlog", "open"} /\ line[c] = "none"
    /\ \E l \in Lines : line' = [line EXCEPT ![c] = l]
    /\ UNCHANGED <<serverVars, limitVars, acceptor, accepted, stop, rangeVars, conn, handler>>

\* The client, or the network, ends the connection.
Hangup(c) ==
    /\ conn[c] = "open"
    /\ conn' = [conn EXCEPT ![c] = "closed"]
    /\ UNCHANGED <<serverVars, limitVars, acceptor, accepted, stop, rangeVars, line, handler>>

\* A second has passed since the last accepted request of an address.
SecondPasses(i) ==
    /\ served[i] > 0
    /\ served' = [served EXCEPT ![i] = 0]
    /\ UNCHANGED <<serverVars, ipConnections, protected, acceptor, accepted, stop, rangeVars, conn, line, handler>>

-----------------------------------------------------------------------------
(* Start and Stop                                                          *)

Start ==
    /\ MuFree /\ listener = "nil"
    /\ listener' = "listening"
    /\ wg' = wg + 1
    /\ acceptor' = "check"
    /\ UNCHANGED <<shutdown, clients, limitVars, accepted, stop, rangeVars, conn, line, handler>>

\* Lock s.mu and close s.shutdown.
StopBegin ==
    /\ stop = "idle" /\ listener # "nil"
    /\ shutdown' = TRUE
    /\ stop' = "listener"
    /\ UNCHANGED <<listener, clients, wg, limitVars, acceptor, accepted, rangeVars, conn, line, handler>>

\* Close the listener; connections nobody accepted are reset.
StopListener ==
    /\ stop = "listener"
    /\ listener' = "closed"
    /\ conn' = [c \in Conns |-> IF conn[c] = "backlog" THEN "closed" ELSE conn[c]]
    /\ stop' = "range"
    /\ inRange' = clients /\ atRange' = clients
    /\ UNCHANGED <<shutdown, clients, wg, limitVars, acceptor, accepted, line, handler>>

MutStopRange(c) ==
    /\ stop = "range" /\ c \in clients
    /\ inRange' = inRange \ {c}
    /\ UNCHANGED <<serverVars, limitVars, acceptor, accepted, stop, atRange, conn, line, handler>>

\* clients.Range closes one connection.  Range is no snapshot: it may also
\* meet a connection stored meanwhile.
StopRange(c) ==
    /\ stop = "range" /\ c \in clients
    /\ conn' = [conn EXCEPT ![c] = "closed"]
    /\ inRange' = inRange \ {c}
    /\ UNCHANGED <<serverVars, limitVars, acceptor, accepted, stop, atRange, line, handler>>

\* Range ends once no connection it started with is left in the map.
StopRangeEnd ==
    /\ stop = "range" /\ inRange \cap clients = {}
    /\ stop' = "wait" /\ inRange' = {}
    /\ UNCHANGED <<serverVars, limitVars, acceptor, accepted, atRange, conn, line, handler>>

MutStopWait ==
    /\ stop = "wait"
    /\ stop' = "stopped"
    /\ UNCHANGED <<serverVars, limitVars, acceptor, accepted, rangeVars, conn, line, handler>>

\* wg.Wait returns, Stop unlocks s.mu and returns.
StopWait ==
    /\ stop = "wait" /\ wg = 0
    /\ stop' = "stopped"
    /\ UNCHANGED <<serverVars, limitVars, acceptor, accepted, rangeVars, conn, line, handler>>

-----------------------------------------------------------------------------
(* acceptLoop                                                              *)

AcceptCheck ==
    /\ acceptor = "check"
    /\ acceptor' = IF shutdown THEN "done" ELSE "accept"
    /\ wg' = IF shutdown THEN wg - 1 ELSE wg
    /\ UNCHANGED <<listener, shutdown, clients, limitVars, accepted, stop, rangeVars, conn, line, handler>>

AcceptConn(c) ==
    /\ acceptor = "accept" /\ conn[c] = "backlog"
    /\ conn' = [conn EXCEPT ![c] = "open"]
    /\ acceptor' = "store" /\ accepted' = {c}
    /\ UNCHANGED <<serverVars, limitVars, stop, rangeVars, line, handler>>

\* The accept deadline of one second, or another error before shutdown.
AcceptRetry ==
    /\ acceptor = "accept" /\ listener = "listening"
    /\ acceptor' = "check"
    /\ UNCHANGED <<serverVars, limitVars, accepted, stop, rangeVars, conn, line, handler>>

\* Accept fails on the closed listener and the loop sees s.shutdown.
AcceptClosed ==
    /\ acceptor = "accept" /\ listener = "closed"
    /\ acceptor' = IF shutdown THEN "done" ELSE "check"
    /\ wg' = IF shutdown THEN wg - 1 ELSE wg
    /\ UNCHANGED <<listener, shutdown, clients, limitVars, accepted, stop, rangeVars, conn, line, handler>>

AcceptStore(c) ==
    /\ acceptor = "store" /\ c \in accepted
    /\ clients' = clients \cup {c}
    /\ acceptor' = "add"
    /\ UNCHANGED <<listener, shutdown, wg, limitVars, accepted, stop, rangeVars, conn, line, handler>>

MutAcceptAdd(c) ==
    /\ acceptor = "add" /\ c \in accepted
    /\ acceptor' = "spawn"
    /\ UNCHANGED <<serverVars, limitVars, accepted, stop, rangeVars, conn, line, handler>>

\* s.wg.Add(1), before the goroutine exists.
AcceptAdd(c) ==
    /\ acceptor = "add" /\ c \in accepted
    /\ wg' = wg + 1
    /\ acceptor' = "spawn"
    /\ UNCHANGED <<listener, shutdown, clients, limitVars, accepted, stop, rangeVars, conn, line, handler>>

\* go s.handleClient(clientID, conn)
AcceptSpawn(c) ==
    /\ acceptor = "spawn" /\ c \in accepted
    /\ Goto(c, "admit")
    /\ acceptor' = "check" /\ accepted' = {}
    /\ UNCHANGED <<serverVars, limitVars, stop, rangeVars, conn, line>>

-----------------------------------------------------------------------------
(* handleClient and handleMessage                                          *)

\* allowConnection, without its lock.
Barred(i) ==
    \/ i \in Blacklist
    \/ Whitelist # {} /\ i \notin Whitelist
    \/ MaxConnectionsPerIP > 0 /\ ipConnections[i] >= MaxConnectionsPerIP

MutAdmit(c) ==
    LET i == IpOf[c] IN
    /\ handler[c] = "admit"
    /\ protected => MuFree
    /\ Goto(c, "scan")
    /\ ipConnections' = [ipConnections EXCEPT ![i] = @ + 1]
    /\ UNCHANGED <<serverVars, served, protected, acceptor, accepted, stop, rangeVars, conn, line>>

Admit(c) ==
    LET i == IpOf[c]
        refuse == protected /\ Barred(i)
        count == protected /\ ~ Barred(i) /\ MaxConnectionsPerIP > 0 IN
    /\ handler[c] = "admit"
    /\ protected => MuFree
    /\ Goto(c, IF refuse THEN "delete" ELSE "scan")
    /\ ipConnections' = IF count THEN [ipConnections EXCEPT ![i] = @ + 1] ELSE ipConnections
    /\ UNCHANGED <<serverVars, served, protected, acceptor, accepted, stop, rangeVars, conn, line>>

\* scanner.Scan returns a line, perhaps one that was read before the
\* connection was closed, or fails on a closed connection or, with
\* bufio.ErrTooLong, on a line longer than its buffer.
ScanLine(c) ==
    /\ handler[c] = "scan" /\ line[c] \notin {"none", "toolong"}
    /\ Goto(c, "check")
    /\ UNCHANGED <<serverVars, limitVars, acceptor, accepted, stop, rangeVars, conn, line>>

ScanEnd(c) ==
    /\ handler[c] = "scan" /\ (conn[c] = "closed" \/ line[c] = "toolong")
    /\ Goto(c, "delete")
    /\ UNCHANGED <<serverVars, limitVars, acceptor, accepted, stop, rangeVars, conn, line>>

\* The look at s.shutdown, then DecodeTCPMessage: a line that does not decode
\* is answered with an error.
CheckLine(c) ==
    /\ handler[c] = "check"
    /\ Goto(c, IF shutdown THEN "delete"
               ELSE IF line[c] = "garbage" THEN "scan" ELSE "message")
    /\ line' = IF ~ shutdown /\ line[c] = "garbage" THEN [line EXCEPT ![c] = "none"] ELSE line
    /\ UNCHANGED <<serverVars, limitVars, acceptor, accepted, stop, rangeVars, conn>>

\* The size check precedes the rate limit, which does not count the request.
CheckSize(c) ==
    /\ handler[c] = "message" /\ protected /\ line[c] = "large"
    /\ Goto(c, "serve")
    /\ UNCHANGED <<serverVars, limitVars, acceptor, accepted, stop, rangeVars, conn, line>>

RateLimited == protected /\ RateLimitPerIP > 0

\* checkRateLimit under s.mu: one request per second and address.
CheckRateLimit(c) ==
    LET i == IpOf[c] IN
    /\ handler[c] = "message" /\ ~ (protected /\ line[c] = "large")
    /\ RateLimited => MuFree
    /\ Goto(c, IF RateLimited /\ served[i] > 0 THEN "limited" ELSE "serve")
    /\ served' = IF RateLimited /\ served[i] = 0 THEN [served EXCEPT ![i] = 1] ELSE served
    /\ UNCHANGED <<serverVars, ipConnections, protected, acceptor, accepted, stop, rangeVars, conn, line>>

\* The answer is written (a write to a closed connection is only logged);
\* a CLOSE message ends the loop whatever became of it.
Answer(c) ==
    /\ handler[c] \in {"serve", "limited"}
    /\ Goto(c, IF line[c] = "close" THEN "delete" ELSE "scan")
    /\ line' = [line EXCEPT ![c] = "none"]
    /\ UNCHANGED <<serverVars, limitVars, acceptor, accepted, stop, rangeVars, conn>>

MutDeferDelete(c) ==
    /\ handler[c] = "delete"
    /\ clients' = clients \ {c}
    /\ ipConnections' = [ipConnections EXCEPT ![IpOf[c]] = @ - 1]
    /\ Goto(c, "close")
    /\ UNCHANGED <<listener, shutdown, wg, served, protected, acceptor, accepted, stop, rangeVars, conn, line>>

\* defer s.clients.Delete(clientID)
DeferDelete(c) ==
    /\ handler[c] = "delete"
    /\ clients' = clients \ {c}
    /\ Goto(c, "close")
    /\ UNCHANGED <<listener, shutdown, wg, limitVars, acceptor, accepted, stop, rangeVars, conn, line>>

\* defer conn.Close()
DeferClose(c) ==
    /\ handler[c] = "close"
    /\ conn' = [conn EXCEPT ![c] = "closed"]
    /\ Goto(c, "done")
    /\ UNCHANGED <<serverVars, limitVars, acceptor, accepted, stop, rangeVars, line>>

\* defer s.wg.Done()
DeferDone(c) ==
    /\ handler[c] = "done"
    /\ wg' = wg - 1
    /\ Goto(c, "gone")
    /\ UNCHANGED <<listener, shutdown, clients, limitVars, acceptor, accepted, stop, rangeVars, conn, line>>

-----------------------------------------------------------------------------
AcceptLoop ==
    \/ AcceptCheck \/ AcceptRetry \/ AcceptClosed
    \/ \E c \in Conns : AcceptConn(c) \/ AcceptStore(c) \/ AcceptAdd(c) \/ AcceptSpawn(c)

Handle(c) ==
    \/ Admit(c) \/ ScanLine(c) \/ ScanEnd(c) \/ CheckLine(c) \/ CheckSize(c)
    \/ CheckRateLimit(c) \/ Answer(c) \/ DeferDelete(c) \/ DeferClose(c) \/ DeferDone(c)

Stop ==
    \/ StopBegin \/ StopListener \/ StopRangeEnd \/ StopWait
    \/ \E c \in Conns : StopRange(c)

Next ==
    \/ Start \/ Stop \/ AcceptLoop
    \/ \E c \in Conns : Dial(c) \/ Send(c) \/ Hangup(c) \/ Handle(c)
    \/ \E i \in IPs : SecondPasses(i)

Spec == Init /\ [][Next]_vars

\* A write to an open connection blocks for as long as the client does not
\* read: the server sets no write deadline.
MayBlock(c) ==
    /\ conn[c] = "open"
    /\ \/ handler[c] \in {"serve", "limited"}
       \/ handler[c] = "check" /\ line[c] = "garbage" /\ ~ shutdown

\* The server's goroutines run, and a Stop that was called goes on.  Nothing
\* is assumed of the clients, nor that Stop is ever called.
FairSpec ==
    /\ Spec
    /\ WF_vars(AcceptLoop)
    /\ WF_vars(Stop /\ stop # "idle")
    /\ \A c \in Conns : WF_vars(Handle(c) /\ ~ MayBlock(c))

-----------------------------------------------------------------------------
(* Properties                                                              *)

Running(c) == handler[c] \notin {"none", "gone"}
Serving == {"scan", "check", "message", "serve", "limited"}

\* What s.wg counts on account of acceptLoop: itself, and a handler that was
\* added and not started yet.
AcceptorCount ==
    IF acceptor \in {"off", "done"} THEN 0 ELSE IF acceptor = "spawn" THEN 2 ELSE 1

\* s.wg counts exactly the accept loop, the handlers that have not returned
\* and the one whose go statement is next (each wg.Add precedes its go, the
\* Done calls are deferred), so that wg.Wait means what Stop takes it to mean.
WaitGroupCounts == wg = Cardinality({c \in Conns : Running(c)}) + AcceptorCount

\* When Stop returns nothing of the server is left: no goroutine, no
\* registered client, no open or half-accepted connection.
StoppedIsQuiet ==
    stop = "stopped" =>
        /\ acceptor = "done" /\ clients = {}
        /\ \A c \in Conns : ~ Running(c) /\ conn[c] # "open"

\* The promise of MaxConnectionsPerIP: never more connections of one address
\* are served at once, whatever the order of accepts and closes.
PerIPBound ==
    protected =>
        \A i \in IPs :
            LET live == {c \in Conns : IpOf[c] = i /\ handler[c] \in Serving} IN
            MaxConnectionsPerIP > 0 => Cardinality(live) <= MaxConnectionsPerIP

\* The handler is about to lock s.mu (allowConnection, checkRateLimit).
NeedsMu(c) ==
    \/ protected /\ handler[c] = "admit"
    \/ RateLimited /\ handler[c] = "message" /\ line[c] # "large"

\* The two handlers Stop may wait for in vain: one that needs s.mu, which
\* Stop holds while it waits for the handlers; and one whose connection was
\* registered after Range began, was not met by it and stays open.
KeepsStop(c) ==
    /\ Running(c)
    /\ NeedsMu(c) \/ (conn[c] = "open" /\ c \notin atRange)

\* A Stop that was called returns, whatever the clients do, unless one of
\* these two handlers keeps it from doing so: every connection registered
\* when Range began is closed, also under a handler blocked in a write, and
\* no other goroutine of the server outlives its connection (Stop).
StopReturns ==
    stop = "listener" ~> (stop = "stopped" \/ [](\E c \in Conns : KeepsStop(c)))

\* What TCP_LAYER.md says of Stop, "closes all connections".  It does not
\* hold: see KeepsStop.
StopClosesAll == stop = "listener" ~> \A c \in Conns : conn[c] # "open"
=============================================================================
