------------------------------- MODULE TCPClient -------------------------------
(***************************************************************************)
(* TCPClient (tcp_client.go), shared by several goroutines, over one       *)
(* connection to a server whose handler (tcp_server.go) reads the lines    *)
(* one by one and answers each of them, from the idempotency cache when    *)
(* the key is known.                                                       *)
(*                                                                         *)
(* Two locks: connMu guards connected and conn, mu is held for a whole     *)
(* exchange.  IsConnected, which takes connMu for reading, is one step     *)
(* that needs connMu free.                                                 *)
(*                                                                         *)
(* A goroutine is at                                                       *)
(*   idle     outside the client                                           *)
(*   dial     in Connect, holding connMu                                   *)
(*   lock     has its message and ID, waits for mu                         *)
(*   check    holds mu, before IsConnected                                 *)
(*   write, read   in its exchange                                         *)
(*   ok, error     has its result, before the deferred unlocks             *)
(*   dlock, dcheck the same places of sendMessage, in a Disconnect         *)
(*   closing  in Disconnect, past sendMessage                              *)
(*                                                                         *)
(* A response is a record: the ID it carries, the request it was sent for  *)
(* (the idempotency cache makes them differ), whether it is a success, and *)
(* whose request it was made for first: the cache is shared by all clients *)
(* of the server, and each of them counts its IDs from 1.  A response of   *)
(* which the client has read the beginning is Torn.                        *)
(***************************************************************************)
EXTENDS Integers, Sequences

CONSTANTS Goroutines, Keys,
          NoKey,          \* a request without idempotency key
          Nobody,         \* holder of a free lock
          MaxMessages     \* bound: IDs given out

ASSUME ClientConstants ==
    /\ NoKey \notin Keys
    /\ Nobody \notin Goroutines
    /\ MaxMessages \in Nat

VARIABLES
    pc, request,     \* per goroutine: its place and the message it sends
    got,             \* per goroutine: the response it read
    connMu, mu,      \* holders of the locks
    connected,       \* c.connected
    messageID,       \* c.messageID
    conn,            \* c.conn: "nil", "open" or "closed" (by the other side)
    cut,             \* a write failed in the middle of a line
    out, in,         \* lines under way to the server and back
    stored           \* the server's idempotency cache

lockVars == <<connMu, mu, connected, messageID>>
netVars == <<conn, cut, out, in, stored>>
vars == <<pc, request, got, lockVars, netVars>>

IDs == 1..MaxMessages
Requests == [id : IDs, key : Keys \cup {NoKey}]
Garbage == [id |-> 0, key |-> NoKey]
Responses == [id : IDs \cup {0}, to : IDs \cup {0}, success : BOOLEAN,
              from : {"self", "other"}]
Torn == [id |-> 0, to |-> 0, success |-> FALSE, from |-> "self"]

Places == {"idle", "dial", "lock", "check", "write", "read", "ok", "error",
           "dlock", "dcheck", "closing"}

TypeOK ==
    /\ pc \in [Goroutines -> Places]
    /\ request \in [Goroutines -> Requests \cup {Garbage}]
    /\ got \in [Goroutines -> Responses]
    /\ connMu \in Goroutines \cup {Nobody} /\ mu \in Goroutines \cup {Nobody}
    /\ connected \in BOOLEAN
    /\ messageID \in 0..MaxMessages
    /\ conn \in {"nil", "open", "closed"}
    /\ cut \in BOOLEAN
    /\ out \in Seq(Requests \cup {Garbage})
    /\ in \in Seq(Responses)
    /\ DOMAIN stored \subseteq Keys
    /\ \A k \in DOMAIN stored : stored[k] \in Responses

Init ==
    /\ pc = [g \in Goroutines |-> "idle"]
    /\ request = [g \in Goroutines |-> Garbage]
    /\ got = [g \in Goroutines |-> Torn]
    /\ connMu = Nobody /\ mu = Nobody /\ connected = FALSE /\ messageID = 0
    /\ conn = "nil" /\ cut = FALSE /\ out = <<>> /\ in = <<>>
    /\ stored = [k \in {} |-> Torn]

Goto(g, label) == pc' = [pc EXCEPT ![g] = label]

-----------------------------------------------------------------------------
(* Connect                                                                 *)

\* A connected client answers "already connected" and changes nothing.
ConnectLock(g) ==
    /\ pc[g] = "idle" /\ connMu = Nobody /\ ~ connected
    /\ connMu' = g
    /\ Goto(g, "dial")
    /\ UNCHANGED <<request, got, mu, connected, messageID, netVars>>

\* DialTimeout succeeds, or fails within the timeout.
Dial(g) ==
    /\ pc[g] = "dial"
    /\ \/ /\ conn' = "open" /\ connected' = TRUE
          /\ cut' = FALSE /\ out' = <<>> /\ in' = <<>>
       \/ UNCHANGED <<conn, connected, cut, out, in>>
    /\ connMu' = Nobody
    /\ Goto(g, "idle")
    /\ UNCHANGED <<request, got, mu, messageID, stored>>

-----------------------------------------------------------------------------
(* Ping, Exec, Query, Stats, Metrics: sendAndReceive                       *)

MutNextID == messageID

nextID == messageID + 1

\* The ID is drawn before mu is taken.
Call(g, k) ==
    /\ pc[g] = "idle" /\ messageID < MaxMessages
    /\ messageID' = nextID
    /\ request' = [request EXCEPT ![g] = [id |-> nextID, key |-> k]]
    /\ got' = [got EXCEPT ![g] = Torn]
    /\ Goto(g, "lock")
    /\ UNCHANGED <<connMu, mu, connected, netVars>>

Lock(g) ==
    /\ pc[g] \in {"lock", "dlock"} /\ mu = Nobody
    /\ mu' = g
    /\ Goto(g, IF pc[g] = "lock" THEN "check" ELSE "dcheck")
    /\ UNCHANGED <<request, got, connMu, connected, messageID, netVars>>

\* IsConnected.  sendMessage's error is ignored by Disconnect.
Check(g) ==
    /\ pc[g] \in {"check", "dcheck"} /\ connMu = Nobody
    /\ Goto(g, IF pc[g] = "dcheck" THEN "closing" ELSE IF connected THEN "write" ELSE "error")
    /\ UNCHANGED <<request, got, lockVars, netVars>>

\* conn.Write.  After a line that was cut, the new one only ends the garbage.
\* On a connection closed by the other side a write may succeed all the same.
Write(g) ==
    /\ pc[g] = "write"
    /\ out' = IF conn = "open" THEN Append(out, IF cut THEN Garbage ELSE request[g]) ELSE out
    /\ cut' = FALSE
    /\ Goto(g, "read")
    /\ UNCHANGED <<request, got, lockVars, conn, in, stored>>

\* The write deadline, or an error: nothing or half of the line is sent.
WriteFails(g) ==
    /\ pc[g] = "write"
    /\ cut' \in {cut, TRUE}
    /\ Goto(g, "error")
    /\ UNCHANGED <<request, got, lockVars, conn, out, in, stored>>

\* The lines a new scanner leaves for the next call, when it has taken n of
\* them and perhaps the beginning of one more into the buffer it drops.
Leaves(n) ==
    LET rest == SubSeq(in, n + 1, Len(in)) IN
    {rest} \cup (IF rest = <<>> THEN {} ELSE {<<Torn>> \o Tail(rest)})

MutAccepts(g, r) == r.id > 0

\* DecodeTCPResponse and the comparison of the IDs.
Accepts(g, r) == r.id = request[g].id

\* The scanner returns the first line; the client checks its ID.
Read(g) ==
    /\ pc[g] = "read" /\ in # <<>>
    /\ \E n \in 1..Len(in) : in' \in Leaves(n)
    /\ got' = [got EXCEPT ![g] = Head(in)]
    /\ Goto(g, IF Accepts(g, Head(in)) /\ Head(in).success THEN "ok" ELSE "error")
    /\ UNCHANGED <<request, lockVars, conn, cut, out, stored>>

MutReadTimeout(g) ==
    /\ pc[g] = "read" /\ in # <<>>
    /\ in' \in Leaves(0)
    /\ Goto(g, "error")
    /\ UNCHANGED <<request, got, lockVars, conn, cut, out, stored>>

\* The read deadline: an answer, or the rest of one, may still come.
ReadTimeout(g) ==
    /\ pc[g] = "read"
    /\ in' \in Leaves(0)
    /\ Goto(g, "error")
    /\ UNCHANGED <<request, got, lockVars, conn, cut, out, stored>>

ReadEOF(g) ==
    /\ pc[g] = "read" /\ conn = "closed" /\ in = <<>>
    /\ Goto(g, "error")
    /\ UNCHANGED <<request, got, lockVars, netVars>>

\* The deferred unlocks; Disconnect first closes the connection.
Return(g) ==
    /\ pc[g] \in {"ok", "error", "closing"}
    /\ mu' = Nobody
    /\ connMu' = IF pc[g] = "closing" THEN Nobody ELSE connMu
    /\ conn' = IF pc[g] = "closing" THEN "nil" ELSE conn
    /\ connected' = (connected /\ pc[g] # "closing")
    /\ Goto(g, "idle")
    /\ UNCHANGED <<request, got, messageID, cut, out, in, stored>>

-----------------------------------------------------------------------------
(* Disconnect, up to sendMessage, with the ID of its CLOSE message; a      *)
(* client that is not connected changes nothing                            *)

DisconnectLock(g) ==
    /\ pc[g] = "idle" /\ connMu = Nobody /\ connected /\ messageID < MaxMessages
    /\ connMu' = g
    /\ messageID' = nextID
    /\ Goto(g, "dlock")
    /\ UNCHANGED <<request, got, mu, connected, netVars>>

-----------------------------------------------------------------------------
(* The other side                                                          *)

\* The response to request r, a success or an error; a known key is answered
\* with the stored response, ID included.
Answers(r) ==
    IF r = Garbage THEN {Torn}
    ELSE IF r.key \in DOMAIN stored THEN {[stored[r.key] EXCEPT !.to = r.id]}
    ELSE {[id |-> r.id, to |-> r.id, success |-> s, from |-> "self"] : s \in BOOLEAN}

\* handleMessage: the response is sent, then stored if it was a success.
Serve ==
    /\ conn = "open" /\ out # <<>>
    /\ LET r == Head(out) IN
       \E a \in Answers(r) :
          /\ in' = Append(in, a)
          /\ stored' = IF r.key # NoKey /\ r.key \notin DOMAIN stored /\ a.success
                       THEN [k \in DOMAIN stored \cup {r.key} |-> IF k = r.key THEN a ELSE stored[k]]
                       ELSE stored
    /\ out' = Tail(out)
    /\ UNCHANGED <<pc, request, got, lockVars, conn, cut>>

\* The server or the network ends the connection; what was on its way to the
\* client may be lost.
Drop ==
    /\ conn = "open"
    /\ conn' = "closed" /\ out' = <<>>
    /\ in' \in {in, <<>>}
    /\ UNCHANGED <<pc, request, got, lockVars, cut, stored>>

\* The server stores the response to a request of another client, which drew
\* its ID from a counter of its own; Set overwrites what is there.
OtherStores(k) ==
    /\ \E i \in IDs :
          stored' = [j \in DOMAIN stored \cup {k} |->
                       IF j = k THEN [id |-> i, to |-> 0, success |-> TRUE, from |-> "other"]
                       ELSE stored[j]]
    /\ UNCHANGED <<pc, request, got, lockVars, conn, cut, out, in>>

\* An idempotency key expires after five minutes, or is evicted.
Forget(k) ==
    /\ k \in DOMAIN stored
    /\ stored' = [j \in DOMAIN stored \ {k} |-> stored[j]]
    /\ UNCHANGED <<pc, request, got, lockVars, conn, cut, out, in>>

-----------------------------------------------------------------------------
Exchange(g) ==
    \/ Dial(g) \/ Write(g) \/ WriteFails(g) \/ Read(g) \/ ReadTimeout(g)
    \/ ReadEOF(g) \/ Return(g)

Next ==
    \/ \E g \in Goroutines :
         \/ ConnectLock(g) \/ DisconnectLock(g)
         \/ \E k \in Keys \cup {NoKey} : Call(g, k)
         \/ Lock(g) \/ Check(g) \/ Exchange(g)
    \/ Serve \/ Drop
    \/ \E k \in Keys : OtherStores(k) \/ Forget(k)

Spec == Init /\ [][Next]_vars

\* Nothing is assumed of the server.  Go's locks do not starve a waiter, so a
\* lock that is free again and again is obtained.
FairSpec ==
    /\ Spec
    /\ \A g \in Goroutines :
         WF_vars(Exchange(g)) /\ SF_vars(Lock(g)) /\ SF_vars(Check(g))

-----------------------------------------------------------------------------
(* Properties                                                              *)

\* What the ID check in sendAndReceive is worth: a call that succeeds has the
\* response the server sent for this very request, whatever calls of other
\* goroutines timed out before and left their answers, or parts of them, on
\* the connection.  The one exception is a late answer that the server took
\* from its idempotency cache, where another client had put it.
AnswersOwn ==
    \A g \in Goroutines :
        pc[g] = "ok" => got[g].to = request[g].id \/ got[g].from = "other"

\* What tcp_client.go line 249 takes the check to be, "Verify response ID
\* matches request ID": the response is the one to this request.  It does not
\* hold: a call with a key that another client has used under ID n times out,
\* and the call that draws n accepts its late answer.
AnswersOwnAlways ==
    \A g \in Goroutines : pc[g] = "ok" => got[g].to = request[g].id

\* The point of the deadlines: as long as nobody calls Disconnect, every call
\* returns, whatever the server does.
CallsReturn ==
    [](\A g \in Goroutines : pc[g] # "dlock")
      => \A g \in Goroutines : pc[g] # "idle" ~> pc[g] = "idle"

\* tcp_client.go line 61: "Disconnect disconnects from the TCP server".
DisconnectReturns ==
    \A g \in Goroutines : pc[g] = "dlock" ~> pc[g] = "idle" /\ ~ connected
=============================================================================
