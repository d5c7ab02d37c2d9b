---------------------------- MODULE TCPClientProofs ----------------------------
(***************************************************************************)
(* A call of the TCP client that succeeds has its own answer, or one that  *)
(* another client left in the server's cache, for any number of            *)
(* goroutines, keys and messages.                                          *)
(***************************************************************************)
EXTENDS TCPClient, TLAPS

\* mu is held for a whole exchange (sendAndReceive, sendMessage).
LockHeld ==
    \A g \in Goroutines :
        pc[g] \in {"check", "write", "read", "ok", "error", "dcheck", "closing"} => mu = g

\* A response with the ID i of this client; one made for another client may
\* carry any ID.
Carries(r, i) == r.id = i /\ r.from = "self"

\* A response whose ID, if it is one of this client, was drawn.
Drawn(r) == r.from = "self" => r.id <= messageID

\* No line under way and no stored response carries the ID i.
Unseen(i) ==
    /\ \A n \in 1 .. Len(out) : out[n].id # i
    /\ \A n \in 1 .. Len(in) : ~ Carries(in[n], i)
    /\ \A k \in DOMAIN stored : ~ Carries(stored[k], i)

\* IDs are drawn one after the other, and for one message each.
DrawnIDs ==
    /\ \A g \in Goroutines : request[g].id <= messageID
    /\ \A n \in 1 .. Len(out) : out[n].id <= messageID
    /\ \A n \in 1 .. Len(in) : Drawn(in[n])
    /\ \A k \in DOMAIN stored : Drawn(stored[k])
    /\ \A g, h \in Goroutines :
          g # h /\ request[g].id # 0 => request[g].id # request[h].id

Unsent == {"lock", "check", "write"}

\* A message that was not written yet has left no trace.
FreshRequest ==
    \A g \in Goroutines :
        pc[g] \in Unsent => request[g].id # 0 /\ Unseen(request[g].id)

\* While the answer to the message i is awaited: its line is the last one sent,
\* answers with its ID were sent for it, and the server has stored such an
\* answer only if there is nothing left to serve, hence to answer with it.
OwnAnswer(i) ==
    /\ i # 0
    /\ \A n \in 1 .. Len(out) : out[n].id = i => n = Len(out)
    /\ \A n \in 1 .. Len(in) : Carries(in[n], i) => in[n].to = i
    /\ \A k \in DOMAIN stored : Carries(stored[k], i) => out = <<>>

Awaited == \A g \in Goroutines : pc[g] = "read" => OwnAnswer(request[g].id)

\* The inductive invariant.
IDInv == DrawnIDs /\ FreshRequest /\ Awaited
Inv == TypeOK /\ LockHeld /\ IDInv /\ AnswersOwn

-----------------------------------------------------------------------------
(* Lines                                                                   *)

\* A connection on which nothing is under way.
LEMMA NoLines ==
  /\ <<>> \in Seq(Requests \cup {Garbage})
  /\ <<>> \in Seq(Responses)
  /\ Len(<<>>) = 0
  OBVIOUS

\* What a scanner leaves is well typed, and nothing in it is new but a torn line.
LEMMA LeavesOld ==
  ASSUME in \in Seq(Responses), NEW n \in 0 .. Len(in), NEW s \in Leaves(n)
  PROVE  /\ s \in Seq(Responses)
         /\ \A m \in 1 .. Len(s) : s[m] = Torn \/ \E j \in 1 .. Len(in) : s[m] = in[j]
  <1> DEFINE rest == SubSeq(in, n + 1, Len(in))
  <1>1. /\ rest \in Seq(Responses) /\ Len(rest) = Len(in) - n
        /\ \A m \in 1 .. Len(rest) : rest[m] = in[n + m]
    OBVIOUS
  <1>2. CASE s = rest
    BY <1>1, <1>2
  <1>3. CASE rest # <<>> /\ s = <<Torn>> \o Tail(rest)
    <2>0. Torn \in Responses
      BY DEF Torn, Responses
    <2>1. /\ Tail(rest) \in Seq(Responses) /\ Len(Tail(rest)) = Len(rest) - 1
          /\ \A m \in 1 .. Len(Tail(rest)) : Tail(rest)[m] = rest[m + 1]
      BY <1>1, <1>3
    <2>2. <<Torn>> \in Seq(Responses) /\ Len(<<Torn>>) = 1 /\ <<Torn>>[1] = Torn
      BY <2>0
    <2> HIDE DEF rest
    <2>3. /\ s \in Seq(Responses) /\ Len(s) = 1 + Len(Tail(rest))
          /\ \A m \in 1 .. Len(s) : s[m] = IF m = 1 THEN Torn ELSE Tail(rest)[m - 1]
      BY <1>3, <2>1, <2>2
    <2>4. ASSUME NEW m \in 1 .. Len(s), m # 1 PROVE s[m] = in[n + m] /\ n + m \in 1 .. Len(in)
      <3>1. s[m] = Tail(rest)[m - 1] /\ m - 1 \in 1 .. Len(Tail(rest))
        BY <2>1, <2>3, <2>4
      <3>2. Tail(rest)[m - 1] = rest[(m - 1) + 1] /\ m \in 1 .. Len(rest)
        BY <1>1, <2>1, <3>1
      <3> QED BY <1>1, <2>4, <3>1, <3>2
    <2>5. \A m \in 1 .. Len(s) : s[m] = Torn \/ \E j \in 1 .. Len(in) : s[m] = in[j]
      BY <2>3, <2>4
    <2> QED BY <2>3, <2>5
  <1> QED BY <1>2, <1>3 DEF Leaves

\* A step after which the connection and the cache hold nothing new of this
\* client.
NetShrinks ==
    /\ \A m \in 1 .. Len(in') : in'[m] = Torn \/ \E j \in 1 .. Len(in) : in'[m] = in[j]
    /\ out' = out \/ out' = <<>>
    /\ \A k \in DOMAIN stored' : \/ stored'[k].from = "other"
                                 \/ k \in DOMAIN stored /\ stored'[k] = stored[k]

\* Closing a connection, or opening one, is such a step.
LEMMA EmptyShrinks ==
  ASSUME in' = in \/ in' = <<>>, out' = out \/ out' = <<>>, UNCHANGED stored
  PROVE  NetShrinks
  <1>1. ASSUME NEW m \in 1 .. Len(in')
        PROVE  in'[m] = Torn \/ \E j \in 1 .. Len(in) : in'[m] = in[j]
    <2>1. CASE in' = in
      BY <1>1, <2>1
    <2>2. CASE in' = <<>>
      <3>1. Len(in') = 0
        BY <2>2
      <3> QED BY <1>1, <3>1
    <2> QED BY <2>1, <2>2
  <1> QED BY <1>1 DEF NetShrinks

\* It brings back no ID that was not there, and keeps answers their own.
LEMMA ShrinkKeeps ==
  ASSUME TypeOK, NetShrinks, NEW i, i # 0
  PROVE  (Unseen(i) => Unseen(i)') /\ (OwnAnswer(i) => OwnAnswer(i)')
  <1>1. Torn.id = 0
    BY DEF Torn
  <1>2. ASSUME Unseen(i) PROVE Unseen(i)'
    BY <1>1, <1>2 DEF Unseen, NetShrinks, Carries
  <1>3. ASSUME OwnAnswer(i) PROVE OwnAnswer(i)'
    BY <1>1, <1>3 DEF OwnAnswer, NetShrinks, Carries
  <1> QED BY <1>2, <1>3

\* IDs are numbers, 0 for none.
LEMMA IDsNat ==
  ASSUME TypeOK
  PROVE  /\ \A h \in Goroutines : request[h].id \in Nat
         /\ \A n \in 1 .. Len(out) : out[n].id \in Nat
         /\ \A n \in 1 .. Len(in) : in[n].id \in Nat
         /\ \A j \in DOMAIN stored : stored[j].id \in Nat
  <1>1. /\ \A q \in Requests \cup {Garbage} : q.id \in Nat
        /\ \A q \in Responses : q.id \in Nat
    BY ClientConstants DEF Requests, Garbage, IDs, Responses
  <1>2. /\ \A h \in Goroutines : request[h] \in Requests \cup {Garbage}
        /\ \A n \in 1 .. Len(out) : out[n] \in Requests \cup {Garbage}
        /\ \A n \in 1 .. Len(in) : in[n] \in Responses
        /\ \A j \in DOMAIN stored : stored[j] \in Responses
    BY DEF TypeOK
  <1> QED BY <1>1, <1>2

\* So a step of this kind, taken by whoever, keeps the invariant of the IDs.
LEMMA ShrinkStep ==
  ASSUME TypeOK, IDInv, NetShrinks, UNCHANGED request,
         messageID' \in {messageID, messageID + 1},
         \A g \in Goroutines : /\ pc'[g] \in Unsent => pc[g] \in Unsent
                               /\ pc'[g] = "read" => pc[g] = "read"
  PROVE  IDInv'
  <1>1. DrawnIDs'
    <2>1. Torn.id = 0 /\ messageID \in Nat
      BY ClientConstants DEF Torn, TypeOK
    <2>2. \A g \in Goroutines : request[g].id <= messageID'
      BY <2>1, IDsNat DEF IDInv, DrawnIDs
    <2>3. \A n \in 1 .. Len(out') : out'[n].id <= messageID'
      <3>1. CASE out' = out
        BY <2>1, <3>1, IDsNat DEF IDInv, DrawnIDs
      <3>2. CASE out' = <<>>
        BY <3>2, NoLines
      <3> QED BY <3>1, <3>2 DEF NetShrinks
    <2>4. \A n \in 1 .. Len(in') : Drawn(in[n])'
      <3> SUFFICES ASSUME NEW n \in 1 .. Len(in'), in'[n].from = "self"
                   PROVE  in'[n].id <= messageID'
        BY DEF Drawn
      <3>1. CASE in'[n] = Torn
        BY <2>1, <3>1
      <3>2. ASSUME NEW j \in 1 .. Len(in), in'[n] = in[j] PROVE in'[n].id <= messageID'
        BY <2>1, <3>2, IDsNat DEF IDInv, DrawnIDs, Drawn
      <3> QED BY <3>1, <3>2 DEF NetShrinks
    <2>5. \A k \in DOMAIN stored' : Drawn(stored[k])'
      <3> SUFFICES ASSUME NEW k \in DOMAIN stored', stored'[k].from = "self"
                   PROVE  stored'[k].id <= messageID'
        BY DEF Drawn
      <3>1. k \in DOMAIN stored /\ stored'[k] = stored[k]
        BY DEF NetShrinks
      <3> QED BY <2>1, <3>1, IDsNat DEF IDInv, DrawnIDs, Drawn
    <2> QED BY <2>2, <2>3, <2>4, <2>5 DEF IDInv, DrawnIDs
  <1>2. FreshRequest'
    <2> SUFFICES ASSUME NEW g \in Goroutines, pc'[g] \in Unsent
                 PROVE  (request[g].id # 0 /\ Unseen(request[g].id))'
      BY DEF FreshRequest
    <2>1. PICK i : i = request[g].id
      OBVIOUS
    <2>2. i # 0 /\ Unseen(i)
      BY <2>1 DEF IDInv, FreshRequest
    <2>3. Unseen(i)'
      BY <2>2, ShrinkKeeps
    <2> QED BY <2>1, <2>2, <2>3
  <1>3. Awaited'
    <2> SUFFICES ASSUME NEW g \in Goroutines, pc'[g] = "read"
                 PROVE  OwnAnswer(request[g].id)'
      BY DEF Awaited
    <2>1. PICK i : i = request[g].id
      OBVIOUS
    <2>2. OwnAnswer(i) /\ i # 0
      BY <2>1 DEF IDInv, Awaited, OwnAnswer
    <2>3. OwnAnswer(i)'
      BY <2>2, ShrinkKeeps
    <2> QED BY <2>1, <2>3
  <1> QED BY <1>1, <1>2, <1>3 DEF IDInv

\* What Serve answers: a new response to the request, the stored one of its key,
\* or, to a line that is no message, one without an ID.
LEMMA AnswerForms ==
  ASSUME TypeOK, NEW r \in Requests \cup {Garbage}, NEW a \in Answers(r)
  PROVE  /\ a \in Responses
         /\ \/ a.id = 0
            \/ a.id = r.id /\ a.to = r.id
            \/ r.key \in DOMAIN stored /\ a.id = stored[r.key].id /\ a.from = stored[r.key].from
  <1>0. r.id \in IDs \cup {0}
    BY DEF Requests, Garbage
  <1>1. CASE r = Garbage
    <2>1. a = Torn
      BY <1>1 DEF Answers
    <2> QED BY <2>1 DEF Torn, Responses
  <1>2. CASE r # Garbage /\ r.key \in DOMAIN stored
    <2>1. stored[r.key] \in Responses
      BY <1>2 DEF TypeOK
    <2>2. a = [stored[r.key] EXCEPT !.to = r.id]
      BY <1>2 DEF Answers
    <2> QED BY <1>0, <1>2, <2>1, <2>2 DEF Responses
  <1>3. CASE r # Garbage /\ r.key \notin DOMAIN stored
    <2>1. PICK s \in BOOLEAN : a = [id |-> r.id, to |-> r.id, success |-> s, from |-> "self"]
      BY <1>3 DEF Answers
    <2> QED BY <1>0, <2>1 DEF Responses
  <1> QED BY <1>1, <1>2, <1>3

-----------------------------------------------------------------------------
(* Types                                                                   *)

\* The lines and the cache stay well typed when the server answers.
LEMMA ServeType ==
  ASSUME TypeOK, Serve
  PROVE  TypeOK'
  <1>1. PICK r : r = Head(out)
    OBVIOUS
  <1>2. out \in Seq(Requests \cup {Garbage}) /\ out # <<>>
    BY DEF TypeOK, Serve
  <1>3. r \in Requests \cup {Garbage} /\ Tail(out) \in Seq(Requests \cup {Garbage})
    BY <1>1, <1>2
  <1>4. PICK a \in Answers(r) :
          /\ in' = Append(in, a)
          /\ stored' = IF r.key # NoKey /\ r.key \notin DOMAIN stored /\ a.success
                       THEN [k \in DOMAIN stored \cup {r.key} |-> IF k = r.key THEN a ELSE stored[k]]
                       ELSE stored
    BY <1>1 DEF Serve
  <1>5. a \in Responses
    BY <1>3, AnswerForms
  <1>6. in' \in Seq(Responses)
    BY <1>4, <1>5 DEF TypeOK
  <1>7. DOMAIN stored' \subseteq Keys /\ \A k \in DOMAIN stored' : stored'[k] \in Responses
    <2>1. r.key \in Keys \cup {NoKey}
      BY <1>3 DEF Requests, Garbage
    <2> QED BY <1>4, <1>5, <2>1 DEF TypeOK
  <1>8. out' \in Seq(Requests \cup {Garbage})
    BY <1>3 DEF Serve
  <1> QED BY <1>6, <1>7, <1>8 DEF TypeOK, Serve, lockVars

\* A goroutine's steps that read lines, or lose them.
LEMMA ReadType ==
  ASSUME TypeOK, NEW g \in Goroutines, Read(g) \/ ReadTimeout(g)
  PROVE  TypeOK' /\ NetShrinks
  <1>0. in \in Seq(Responses) /\ Len(in) \in Nat
    BY DEF TypeOK
  <1>1. CASE Read(g)
    <2>1. PICK n \in 1 .. Len(in) : in' \in Leaves(n)
      BY <1>1 DEF Read
    <2>2. Head(in) \in Responses
      BY <1>0, <1>1 DEF Read
    <2>3. n \in 0 .. Len(in)
      BY <1>0
    <2>4. PICK s : s = in'
      OBVIOUS
    <2>5. s \in Leaves(n)
      BY <2>1, <2>4
    <2>6. /\ in' \in Seq(Responses)
          /\ \A m \in 1 .. Len(in') : in'[m] = Torn \/ \E j \in 1 .. Len(in) : in'[m] = in[j]
      BY <1>0, <2>3, <2>4, <2>5, LeavesOld
    <2> QED BY <1>1, <2>2, <2>6 DEF Read, TypeOK, NetShrinks, Goto, Places, lockVars
  <1>2. CASE ReadTimeout(g)
    <2>3. 0 \in 0 .. Len(in)
      BY <1>0
    <2>4. PICK s : s = in'
      OBVIOUS
    <2>5. s \in Leaves(0)
      BY <1>2, <2>4 DEF ReadTimeout
    <2>6. /\ in' \in Seq(Responses)
          /\ \A m \in 1 .. Len(in') : in'[m] = Torn \/ \E j \in 1 .. Len(in) : in'[m] = in[j]
      BY <1>0, <2>3, <2>4, <2>5, LeavesOld
    <2> QED BY <1>2, <2>6 DEF ReadTimeout, TypeOK, NetShrinks, Goto, Places, lockVars
  <1> QED BY <1>1, <1>2

\* Every step preserves the type invariant.
LEMMA TypeStep ==
  ASSUME TypeOK, [Next]_vars
  PROVE  TypeOK'
  <1> USE ClientConstants DEF TypeOK, Goto, Places, lockVars, netVars
  <1>1. CASE UNCHANGED vars
    BY <1>1 DEF vars
  <1>2. ASSUME NEW g \in Goroutines, ConnectLock(g) \/ Lock(g) PROVE TypeOK'
    BY <1>2 DEF ConnectLock, Lock
  <1>3. ASSUME NEW g \in Goroutines, NEW k \in Keys \cup {NoKey}, Call(g, k) PROVE TypeOK'
    <2>1. nextID \in IDs
      BY <1>3 DEF Call, nextID, IDs
    <2>2. [id |-> nextID, key |-> k] \in Requests /\ Torn \in Responses
      BY <2>1 DEF Requests, Torn, Responses
    <2> QED BY <1>3, <2>1, <2>2 DEF Call, IDs
  <1>4. ASSUME NEW g \in Goroutines, Check(g) PROVE TypeOK'
    BY <1>4 DEF Check
  <1>5. ASSUME NEW g \in Goroutines, Dial(g) PROVE TypeOK'
    <2>1. out' \in Seq(Requests \cup {Garbage}) /\ in' \in Seq(Responses)
      BY <1>5, NoLines DEF Dial
    <2> QED BY <1>5, <2>1 DEF Dial
  <1>6. ASSUME NEW g \in Goroutines, Write(g) PROVE TypeOK'
    <2>1. out' \in Seq(Requests \cup {Garbage})
      BY <1>6 DEF Write
    <2> QED BY <1>6, <2>1 DEF Write
  <1>7. ASSUME NEW g \in Goroutines, WriteFails(g) \/ ReadEOF(g) PROVE TypeOK'
    BY <1>7 DEF WriteFails, ReadEOF
  <1>8. ASSUME NEW g \in Goroutines, Return(g) PROVE TypeOK'
    BY <1>8 DEF Return
  <1>9. CASE Drop
    <2>1. out' \in Seq(Requests \cup {Garbage}) /\ in' \in Seq(Responses)
      BY <1>9, NoLines DEF Drop
    <2> QED BY <1>9, <2>1 DEF Drop
  <1>10. ASSUME NEW k \in Keys, Forget(k) PROVE TypeOK'
    BY <1>10 DEF Forget
  <1>11. ASSUME NEW g \in Goroutines, Exchange(g) PROVE TypeOK'
    BY <1>5, <1>6, <1>7, <1>8, <1>11, ReadType DEF Exchange
  <1>12. ASSUME NEW g \in Goroutines, DisconnectLock(g) PROVE TypeOK'
    <2>1. messageID' \in 0 .. MaxMessages
      BY <1>12 DEF DisconnectLock, nextID
    <2> QED BY <1>12, <2>1 DEF DisconnectLock
  <1>13. ASSUME NEW k \in Keys, OtherStores(k) PROVE TypeOK'
    <2>1. PICK i \in IDs :
            stored' = [j \in DOMAIN stored \cup {k} |->
                         IF j = k THEN [id |-> i, to |-> 0, success |-> TRUE, from |-> "other"]
                         ELSE stored[j]]
      BY <1>13 DEF OtherStores
    <2>2. [id |-> i, to |-> 0, success |-> TRUE, from |-> "other"] \in Responses
      BY DEF Responses
    <2>3. DOMAIN stored' \subseteq Keys /\ \A j \in DOMAIN stored' : stored'[j] \in Responses
      BY <2>1, <2>2
    <2> QED BY <1>13, <2>3 DEF OtherStores
  <1> QED BY <1>1, <1>2, <1>3, <1>4, <1>9, <1>10, <1>11, <1>12, <1>13, ServeType DEF Next

-----------------------------------------------------------------------------
(* The lock                                                                *)

\* Every step preserves mutual exclusion.
LEMMA LockStep ==
  ASSUME TypeOK, LockHeld, [Next]_vars
  PROVE  LockHeld'
  <1>0. pc \in [Goroutines -> Places] /\ Nobody \notin Goroutines
    BY ClientConstants DEF TypeOK
  <1> USE DEF LockHeld, Goto, lockVars
  <1>1. CASE UNCHANGED vars
    BY <1>1 DEF vars
  <1>2. ASSUME NEW g \in Goroutines, ConnectLock(g) \/ DisconnectLock(g) \/ Dial(g) PROVE LockHeld'
    BY <1>0, <1>2 DEF ConnectLock, DisconnectLock, Dial
  <1>3. ASSUME NEW g \in Goroutines, NEW k \in Keys \cup {NoKey}, Call(g, k) PROVE LockHeld'
    BY <1>0, <1>3 DEF Call
  <1>4. ASSUME NEW g \in Goroutines, Lock(g) PROVE LockHeld'
    BY <1>0, <1>4 DEF Lock
  <1>5. ASSUME NEW g \in Goroutines, Check(g) \/ Write(g) \/ WriteFails(g) PROVE LockHeld'
    BY <1>0, <1>5 DEF Check, Write, WriteFails
  <1>6. ASSUME NEW g \in Goroutines, Read(g) \/ ReadTimeout(g) \/ ReadEOF(g) PROVE LockHeld'
    BY <1>0, <1>6 DEF Read, ReadTimeout, ReadEOF
  <1>7. ASSUME NEW g \in Goroutines, Return(g) PROVE LockHeld'
    BY <1>0, <1>7 DEF Return
  <1>8. ASSUME Serve \/ Drop \/ \E k \in Keys : OtherStores(k) \/ Forget(k) PROVE LockHeld'
    BY <1>8 DEF Serve, Drop, OtherStores, Forget
  <1> QED BY <1>1, <1>2, <1>3, <1>4, <1>5, <1>6, <1>7, <1>8 DEF Next, Exchange

-----------------------------------------------------------------------------
(* The IDs                                                                 *)

\* A new call draws an ID nobody has seen.
LEMMA CallIDs ==
  ASSUME TypeOK, IDInv, NEW g \in Goroutines, NEW k \in Keys \cup {NoKey}, Call(g, k)
  PROVE  IDInv'
  <1>1. /\ messageID \in Nat /\ messageID' = messageID + 1
        /\ UNCHANGED <<conn, cut, out, in, stored>>
    BY ClientConstants DEF TypeOK, Call, nextID, netVars
  <1>2. request'[g].id = messageID + 1
    BY DEF TypeOK, Call, nextID
  <1>3. \A h \in Goroutines : h # g => request'[h] = request[h] /\ pc'[h] = pc[h]
    BY DEF TypeOK, Call, Goto
  <1>4. pc'[g] = "lock"
    BY DEF TypeOK, Call, Goto
  <1>5. \A h \in Goroutines : request[h].id \in Nat
    BY ClientConstants DEF TypeOK, Requests, Garbage, IDs
  <1>6. /\ \A n \in 1 .. Len(out) : out[n].id \in Nat
        /\ \A n \in 1 .. Len(in) : in[n].id \in Nat
        /\ \A j \in DOMAIN stored : stored[j].id \in Nat
    BY IDsNat
  <1>7. DrawnIDs'
    BY <1>1, <1>2, <1>3, <1>5, <1>6 DEF IDInv, DrawnIDs, Drawn
  <1>8. FreshRequest'
    <2> SUFFICES ASSUME NEW h \in Goroutines, pc'[h] \in Unsent
                 PROVE  (request[h].id # 0 /\ Unseen(request[h].id))'
      BY DEF FreshRequest
    <2>1. PICK i : i = request'[h].id
      OBVIOUS
    <2>2. i # 0 /\ Unseen(i)
      <3>1. CASE h = g
        BY <1>1, <1>2, <1>6, <2>1, <3>1 DEF IDInv, DrawnIDs, Drawn, Carries, Unseen
      <3>2. CASE h # g
        BY <1>3, <2>1, <3>2 DEF IDInv, FreshRequest
      <3> QED BY <3>1, <3>2
    <2>3. Unseen(i)'
      BY <1>1, <2>2 DEF Unseen
    <2> QED BY <2>1, <2>2, <2>3
  <1>9. Awaited'
    BY <1>1, <1>3, <1>4 DEF IDInv, Awaited, OwnAnswer
  <1> QED BY <1>7, <1>8, <1>9 DEF IDInv

\* The line of a call is the last one on the connection, and the only one with
\* its ID; another line that it ends has no ID.
LEMMA WriteIDs ==
  ASSUME TypeOK, LockHeld, IDInv, NEW g \in Goroutines, Write(g)
  PROVE  IDInv'
  <1>1. PICK i : i = request[g].id
    OBVIOUS
  <1>2. i # 0 /\ Unseen(i) /\ i <= messageID
    BY <1>1 DEF IDInv, FreshRequest, Unsent, Write, DrawnIDs
  <1>3. UNCHANGED <<request, messageID, in, stored>>
    BY DEF Write, lockVars
  <1>4. PICK x \in {Garbage, request[g]} : out' = out \/ out' = Append(out, x)
    BY DEF Write
  <1>5. x.id = 0 \/ x.id = i
    BY <1>1, <1>4 DEF Garbage
  <1>6. /\ Len(out') \in {Len(out), Len(out) + 1} /\ Len(out) \in Nat
        /\ \A n \in 1 .. Len(out') : out'[n] = IF n <= Len(out) THEN out[n] ELSE x
    BY <1>4 DEF TypeOK
  <1>7. messageID \in Nat
    BY ClientConstants DEF TypeOK
  <1>8. DrawnIDs'
    BY <1>2, <1>3, <1>5, <1>6, <1>7 DEF IDInv, DrawnIDs, Drawn
  <1>9. /\ pc'[g] = "read"
        /\ \A h \in Goroutines : h # g => pc'[h] = pc[h] /\ pc[h] # "read"
    BY DEF TypeOK, LockHeld, Write, Goto
  <1>10. FreshRequest'
    <2> SUFFICES ASSUME NEW h \in Goroutines, pc'[h] \in Unsent
                 PROVE  (request[h].id # 0 /\ Unseen(request[h].id))'
      BY DEF FreshRequest
    <2>1. PICK j : j = request[h].id
      OBVIOUS
    <2>2. h # g /\ j # 0 /\ Unseen(j)
      BY <1>9, <2>1 DEF IDInv, FreshRequest, Unsent
    <2>3. j # i
      BY <1>1, <2>1, <2>2 DEF IDInv, DrawnIDs
    <2>4. Unseen(j)'
      BY <1>3, <1>5, <1>6, <2>2, <2>3 DEF Unseen
    <2> QED BY <1>3, <2>1, <2>2, <2>4
  <1>11. OwnAnswer(i)'
    BY <1>2, <1>3, <1>6 DEF Unseen, OwnAnswer
  <1>12. Awaited'
    BY <1>1, <1>3, <1>9, <1>11 DEF Awaited
  <1> QED BY <1>8, <1>10, <1>12 DEF IDInv

\* The server answers the first line, and only with an ID that the line or the
\* stored response for its key carries.
LEMMA ServeIDs ==
  ASSUME TypeOK, IDInv, Serve
  PROVE  IDInv'
  <1>1. PICK r : r = Head(out)
    OBVIOUS
  <1>2. out \in Seq(Requests \cup {Garbage}) /\ out # <<>> /\ Len(in) \in Nat
    BY DEF TypeOK, Serve
  <1>3. /\ r = out[1] /\ r \in Requests \cup {Garbage}
        /\ Len(out) \in Nat /\ Len(out) >= 1
        /\ Len(out') = Len(out) - 1
        /\ \A n \in 1 .. Len(out') : out'[n] = out[n + 1]
    BY <1>1, <1>2 DEF Serve
  <1>4. PICK a \in Answers(r) :
          /\ in' = Append(in, a)
          /\ stored' = IF r.key # NoKey /\ r.key \notin DOMAIN stored /\ a.success
                       THEN [k \in DOMAIN stored \cup {r.key} |-> IF k = r.key THEN a ELSE stored[k]]
                       ELSE stored
    BY <1>1 DEF Serve
  <1>5. \/ a.id = 0
        \/ a.id = r.id /\ a.to = r.id
        \/ r.key \in DOMAIN stored /\ a.id = stored[r.key].id /\ a.from = stored[r.key].from
    BY <1>3, AnswerForms
  <1>6. /\ Len(in') = Len(in) + 1
        /\ \A n \in 1 .. Len(in') : in'[n] = IF n <= Len(in) THEN in[n] ELSE a
    BY <1>4 DEF TypeOK
  <1>7. \A k \in DOMAIN stored' : stored'[k] = a \/ (k \in DOMAIN stored /\ stored'[k] = stored[k])
    BY <1>4
  <1>8. UNCHANGED <<pc, request, messageID>> /\ messageID \in Nat
    BY ClientConstants DEF TypeOK, Serve, lockVars
  <1>9. DrawnIDs'
    <2>1. Drawn(a)
      BY <1>3, <1>5, <1>8 DEF IDInv, DrawnIDs, Drawn
    <2>2. \A n \in 1 .. Len(out') : out'[n].id <= messageID
      BY <1>3 DEF IDInv, DrawnIDs
    <2>3. \A n \in 1 .. Len(in') : Drawn(in'[n])
      BY <1>2, <1>6, <2>1 DEF IDInv, DrawnIDs
    <2>4. \A k \in DOMAIN stored' : Drawn(stored'[k])
      BY <1>7, <2>1 DEF IDInv, DrawnIDs
    <2> QED BY <1>8, <2>2, <2>3, <2>4 DEF IDInv, DrawnIDs, Drawn
  <1>10. FreshRequest'
    <2> SUFFICES ASSUME NEW h \in Goroutines, pc'[h] \in Unsent
                 PROVE  (request[h].id # 0 /\ Unseen(request[h].id))'
      BY DEF FreshRequest
    <2>1. PICK j : j = request[h].id
      OBVIOUS
    <2>2. j # 0 /\ Unseen(j)
      BY <1>8, <2>1 DEF IDInv, FreshRequest
    <2>3. ~ Carries(a, j)
      BY <1>3, <1>5, <2>2 DEF Unseen, Carries
    <2>4. \A n \in 1 .. Len(out') : out'[n].id # j
      BY <1>3, <2>2 DEF Unseen
    <2>5. \A n \in 1 .. Len(in') : ~ Carries(in'[n], j)
      BY <1>2, <1>6, <2>2, <2>3 DEF Unseen
    <2>6. \A k \in DOMAIN stored' : ~ Carries(stored'[k], j)
      BY <1>7, <2>2, <2>3 DEF Unseen
    <2>7. Unseen(j)'
      BY <2>4, <2>5, <2>6 DEF Unseen, Carries
    <2> QED BY <1>8, <2>1, <2>2, <2>7
  <1>11. Awaited'
    <2> SUFFICES ASSUME NEW h \in Goroutines, pc'[h] = "read"
                 PROVE  OwnAnswer(request[h].id)'
      BY DEF Awaited
    <2>1. PICK i : i = request[h].id
      OBVIOUS
    <2>2. OwnAnswer(i)
      BY <1>8, <2>1 DEF IDInv, Awaited
    <2>3. Carries(a, i) => a.to = i /\ r.id = i
      BY <1>2, <1>5, <2>2 DEF OwnAnswer, Carries
    <2>4. r.id = i => Len(out) = 1
      BY <1>3, <2>2 DEF OwnAnswer
    <2>5. Carries(a, i) => out' = <<>>
      <3>1. out' \in Seq(Requests \cup {Garbage})
        BY <1>2 DEF Serve
      <3> QED BY <1>3, <2>3, <2>4, <3>1
    <2>6. \A n \in 1 .. Len(out') : out'[n].id = i => n = Len(out')
      BY <1>3, <2>2 DEF OwnAnswer
    <2>7. \A n \in 1 .. Len(in') : Carries(in'[n], i) => in'[n].to = i
      BY <1>2, <1>6, <2>2, <2>3 DEF OwnAnswer
    <2>8. \A k \in DOMAIN stored' : Carries(stored'[k], i) => out' = <<>>
      BY <1>2, <1>7, <2>2, <2>5 DEF OwnAnswer
    <2>9. OwnAnswer(i)'
      BY <2>2, <2>6, <2>7, <2>8 DEF OwnAnswer, Carries
    <2> QED BY <1>8, <2>1, <2>9
  <1> QED BY <1>9, <1>10, <1>11 DEF IDInv

\* Every step preserves the invariant of the IDs.
LEMMA IDStep ==
  ASSUME TypeOK, LockHeld, IDInv, [Next]_vars
  PROVE  IDInv'
  <1>0. pc \in [Goroutines -> Places]
    BY DEF TypeOK
  <1>1. CASE UNCHANGED vars
    BY <1>0, <1>1, ShrinkStep DEF vars, netVars, lockVars, NetShrinks
  <1>2. ASSUME NEW g \in Goroutines,
               ConnectLock(g) \/ DisconnectLock(g) \/ Lock(g) \/ Check(g)
        PROVE  IDInv'
    <2>1. /\ NetShrinks /\ UNCHANGED request
          /\ messageID' \in {messageID, messageID + 1}
      BY <1>2 DEF ConnectLock, DisconnectLock, nextID, Lock, Check, netVars, lockVars, NetShrinks
    <2>2. \A h \in Goroutines : /\ pc'[h] \in Unsent => pc[h] \in Unsent
                                /\ pc'[h] = "read" => pc[h] = "read"
      BY <1>0, <1>2 DEF ConnectLock, DisconnectLock, Lock, Check, Goto, Unsent
    <2> QED BY <2>1, <2>2, ShrinkStep
  <1>3. ASSUME NEW g \in Goroutines,
               Dial(g) \/ WriteFails(g) \/ ReadEOF(g) \/ Return(g)
        PROVE  IDInv'
    <2>1. /\ in' = in \/ in' = <<>>
          /\ out' = out \/ out' = <<>>
          /\ UNCHANGED <<request, messageID, stored>>
      BY <1>3 DEF Dial, WriteFails, ReadEOF, Return, netVars, lockVars
    <2>2. \A h \in Goroutines : /\ pc'[h] \in Unsent => pc[h] \in Unsent
                                /\ pc'[h] = "read" => pc[h] = "read"
      BY <1>0, <1>3 DEF Dial, WriteFails, ReadEOF, Return, Goto, Unsent
    <2> QED BY <2>1, <2>2, EmptyShrinks, ShrinkStep
  <1>4. ASSUME NEW g \in Goroutines, Read(g) \/ ReadTimeout(g)
        PROVE  IDInv'
    <2>1. NetShrinks
      BY <1>4, ReadType
    <2>2. UNCHANGED <<request, messageID>>
      BY <1>4 DEF Read, ReadTimeout, lockVars
    <2>3. \A h \in Goroutines : /\ pc'[h] \in Unsent => pc[h] \in Unsent
                                /\ pc'[h] = "read" => pc[h] = "read"
      BY <1>0, <1>4 DEF Read, ReadTimeout, Goto, Unsent
    <2> QED BY <2>1, <2>2, <2>3, ShrinkStep
  <1>5. ASSUME Drop \/ \E k \in Keys : OtherStores(k) \/ Forget(k) PROVE IDInv'
    <2>1. NetShrinks
      <3>1. CASE Drop
        <4>1. (in' = in \/ in' = <<>>) /\ out' = <<>> /\ UNCHANGED stored
          BY <3>1 DEF Drop
        <4> QED BY <4>1, EmptyShrinks
      <3>2. CASE \E k \in Keys : Forget(k)
        BY <3>2 DEF Forget, NetShrinks
      <3>3. ASSUME NEW k \in Keys, OtherStores(k) PROVE NetShrinks
        <4>1. /\ UNCHANGED <<out, in>>
              /\ \A j \in DOMAIN stored' : \/ stored'[j].from = "other"
                                           \/ j \in DOMAIN stored /\ stored'[j] = stored[j]
          BY <3>3 DEF OtherStores
        <4> QED BY <4>1 DEF NetShrinks
      <3> QED BY <1>5, <3>1, <3>2, <3>3
    <2>2. UNCHANGED <<pc, request, messageID>>
      BY <1>5 DEF Drop, OtherStores, Forget, lockVars
    <2> QED BY <2>1, <2>2, ShrinkStep
  <1> QED BY <1>1, <1>2, <1>3, <1>4, <1>5, CallIDs, WriteIDs, ServeIDs DEF Next, Exchange

\* A response that Read accepts was sent for the message of the reader.
LEMMA OwnStep ==
  ASSUME TypeOK, IDInv, AnswersOwn, [Next]_vars
  PROVE  AnswersOwn'
  <1>0. /\ pc \in [Goroutines -> Places]
        /\ DOMAIN got = Goroutines /\ DOMAIN request = Goroutines
    BY DEF TypeOK
  <1> USE DEF AnswersOwn, Goto, lockVars
  <1>1. CASE UNCHANGED vars
    BY <1>1 DEF vars
  <1>2. ASSUME NEW g \in Goroutines,
               ConnectLock(g) \/ DisconnectLock(g) \/ Lock(g) \/ Check(g) \/ Dial(g)
        PROVE  AnswersOwn'
    BY <1>0, <1>2 DEF ConnectLock, DisconnectLock, Lock, Check, Dial
  <1>3. ASSUME NEW g \in Goroutines, NEW k \in Keys \cup {NoKey}, Call(g, k) PROVE AnswersOwn'
    BY <1>0, <1>3 DEF Call
  <1>4. ASSUME NEW g \in Goroutines,
               Write(g) \/ WriteFails(g) \/ ReadTimeout(g) \/ ReadEOF(g) \/ Return(g)
        PROVE  AnswersOwn'
    BY <1>0, <1>4 DEF Write, WriteFails, ReadTimeout, ReadEOF, Return
  <1>5. ASSUME NEW g \in Goroutines, Read(g) PROVE AnswersOwn'
    <2>1. in \in Seq(Responses) /\ in # <<>>
      BY <1>5 DEF TypeOK, Read
    <2>2. Head(in) = in[1] /\ 1 \in 1 .. Len(in)
      BY <2>1
    <2>3. OwnAnswer(request[g].id)
      BY <1>5 DEF Read, IDInv, Awaited
    <2>4. Accepts(g, Head(in)) => Head(in).to = request[g].id \/ Head(in).from = "other"
      <3>0. Head(in) \in Responses
        BY <2>1
      <3>1. Head(in).from \in {"self", "other"}
        BY <3>0 DEF Responses
      <3> QED BY <2>2, <2>3, <3>1 DEF Accepts, OwnAnswer, Carries
    <2>5. got'[g] = Head(in) /\ UNCHANGED request
      BY <1>0, <1>5 DEF Read
    <2>6. pc'[g] = "ok" => Accepts(g, Head(in))
      BY <1>0, <1>5 DEF Read
    <2>7. \A h \in Goroutines : h # g => pc'[h] = pc[h] /\ got'[h] = got[h]
      BY <1>0, <1>5 DEF Read
    <2> QED BY <2>4, <2>5, <2>6, <2>7
  <1>6. ASSUME Serve \/ Drop \/ \E k \in Keys : OtherStores(k) \/ Forget(k) PROVE AnswersOwn'
    BY <1>6 DEF Serve, Drop, OtherStores, Forget
  <1> QED BY <1>1, <1>2, <1>3, <1>4, <1>5, <1>6 DEF Next, Exchange

-----------------------------------------------------------------------------
(* The theorems                                                            *)

\* The invariant holds of a client that was not used yet.
LEMMA InitInv ==
  ASSUME Init
  PROVE  Inv
  <1> USE ClientConstants DEF Init
  <1>1. Garbage.id = 0 /\ Torn \in Responses
    BY DEF Garbage, Torn, Responses
  <1>2. TypeOK
    <2>1. out \in Seq(Requests \cup {Garbage}) /\ in \in Seq(Responses)
      BY NoLines
    <2>2. DOMAIN stored \subseteq Keys /\ \A k \in DOMAIN stored : stored[k] \in Responses
      OBVIOUS
    <2>3. /\ pc \in [Goroutines -> Places]
          /\ request \in [Goroutines -> Requests \cup {Garbage}]
          /\ got \in [Goroutines -> Responses]
      BY <1>1 DEF Places
    <2>4. /\ connMu \in Goroutines \cup {Nobody} /\ mu \in Goroutines \cup {Nobody}
          /\ conn \in {"nil", "open", "closed"}
      OBVIOUS
    <2>5. messageID \in 0 .. MaxMessages
      OBVIOUS
    <2>6. connected \in BOOLEAN /\ cut \in BOOLEAN
      OBVIOUS
    <2> QED BY <2>1, <2>2, <2>3, <2>4, <2>5, <2>6 DEF TypeOK
  <1>3. DrawnIDs
    BY <1>1 DEF DrawnIDs
  <1>4. LockHeld /\ FreshRequest /\ Awaited /\ AnswersOwn
    BY DEF LockHeld, FreshRequest, Unsent, Awaited, AnswersOwn
  <1> QED BY <1>2, <1>3, <1>4 DEF Inv, IDInv

\* Every step preserves it.
LEMMA NextInv ==
  ASSUME Inv, [Next]_vars
  PROVE  Inv'
  BY TypeStep, LockStep, IDStep, OwnStep DEF Inv

\* It holds always.
LEMMA Always == Spec => []Inv
  BY InitInv, NextInv, PTL DEF Spec

\* The locks, the lines on the connection and the server's cache stay well
\* formed through every exchange, timeout, disconnection and reconnection.
THEOREM ClientTypes == Spec => []TypeOK
  <1>1. Inv => TypeOK
    BY DEF Inv
  <1> QED BY <1>1, Always, PTL

\* How far sendAndReceive's ID check reaches: a call that succeeds has the
\* response the server sent for this very request, although a call that timed
\* out leaves its answer on the connection, a new scanner drops or tears lines,
\* and the server answers a known idempotency key with an old ID; unless the
\* answer comes out of the server's cache and another client's request, with an
\* ID of that client, put it there.
THEOREM OwnAnswers == Spec => []AnswersOwn
  <1>1. Inv => AnswersOwn
    BY DEF Inv
  <1> QED BY <1>1, Always, PTL
=============================================================================
