------------------------------ MODULE Idempotency ------------------------------
(***************************************************************************)
(* What the TCP server makes of idempotency keys (tcp_server.go,           *)
(* handleMessage, checkIdempotency, storeIdempotency): the handlers of     *)
(* several connections, each taking one request after the other, share the *)
(* cache of responses.  A handler looks the key up, runs the statement,    *)
(* sends the response and stores it, and holds no lock over these steps.   *)
(*                                                                         *)
(* Running a statement and succeeding with it are two steps.  An Exec may  *)
(* fail after the statement took effect (a timeout, a lost connection) or  *)
(* try it again; handleQuery and handleExec meet errors after the database *)
(* has answered.  All of these are answered with an error and not stored.  *)
(*                                                                         *)
(* A handler is at                                                         *)
(*   check     has a request, before checkIdempotency                      *)
(*   execute   before an attempt at the statement                          *)
(*   ran       the statement has taken effect, the outcome is not known    *)
(*   store     the successful response is sent, before storeIdempotency    *)
(*                                                                         *)
(* The cache is an InMemoryCache; here it only matters that it may forget  *)
(* a key, by its TTL or by eviction.                                       *)
(***************************************************************************)
EXTENDS Integers

CONSTANTS Handlers, Keys,
          NoKey,             \* a request without idempotency key
          MaxEffects         \* bound: times a statement is run, by its key

ASSUME IdempotencyConstants == NoKey \notin Keys /\ MaxEffects \in Nat

VARIABLES
    pc, key,         \* per handler: its place and the key of its request
    stored,          \* keys in the idempotency cache
    answered,        \* history: <<k, h>> if h has sent a success for key k
                     \* since the cache forgot k
    effects          \* history: times the statement of a key took effect
                     \* since the cache forgot the key

vars == <<pc, key, stored, answered, effects>>

TypeOK ==
    /\ pc \in [Handlers -> {"idle", "check", "execute", "ran", "store"}]
    /\ key \in [Handlers -> Keys \cup {NoKey}]
    /\ stored \subseteq Keys
    /\ answered \subseteq Keys \X Handlers
    /\ effects \in [Keys -> 0 .. MaxEffects]

Init ==
    /\ pc = [h \in Handlers |-> "idle"]
    /\ key = [h \in Handlers |-> NoKey]
    /\ stored = {} /\ answered = {}
    /\ effects = [k \in Keys |-> 0]

Goto(h, label) == pc' = [pc EXCEPT ![h] = label]

\* An EXEC or QUERY arrives on the connection of h, for the first time or as
\* a repetition.
Receive(h, k) ==
    /\ pc[h] = "idle"
    /\ key' = [key EXCEPT ![h] = k]
    /\ Goto(h, "check")
    /\ UNCHANGED <<stored, answered, effects>>

\* checkIdempotency; a key that is found is answered with what was stored.
Check(h) ==
    /\ pc[h] = "check"
    /\ Goto(h, IF key[h] # NoKey /\ key[h] \in stored THEN "idle" ELSE "execute")
    /\ UNCHANGED <<key, stored, answered, effects>>

\* The database runs the statement of runtime.Exec or runtime.Query.
Execute(h) ==
    LET k == key[h] IN
    /\ pc[h] = "execute"
    /\ k \in Keys => effects[k] < MaxEffects
    /\ effects' = IF k \in Keys THEN [effects EXCEPT ![k] = @ + 1] ELSE effects
    /\ Goto(h, "ran")
    /\ UNCHANGED <<key, stored, answered>>

\* retryExec or retryQuery: the attempt is reported as failed, whatever it
\* did, and there is another.
Retry(h) ==
    /\ pc[h] = "ran"
    /\ Goto(h, "execute")
    /\ UNCHANGED <<key, stored, answered, effects>>

\* An error, before the statement ran or after: of Exec or Query itself, of
\* Columns, Scan or rows.Err, or of the encoding.  It is sent, nil is returned
\* and storeIdempotency stores nothing.
Fail(h) ==
    /\ pc[h] \in {"execute", "ran"}
    /\ Goto(h, "idle")
    /\ UNCHANGED <<key, stored, answered, effects>>

\* Success: the response is sent before it is stored.
Respond(h) ==
    /\ pc[h] = "ran"
    /\ answered' = IF key[h] # NoKey THEN answered \cup {<<key[h], h>>} ELSE answered
    /\ Goto(h, "store")
    /\ UNCHANGED <<key, stored, effects>>

MutStoreAny(h) ==
    /\ pc[h] = "store"
    /\ stored' = stored \cup {key[h]}
    /\ Goto(h, "idle")
    /\ UNCHANGED <<key, answered, effects>>

MutStoreNone(h) ==
    /\ pc[h] = "store"
    /\ Goto(h, "idle")
    /\ UNCHANGED <<key, stored, answered, effects>>

\* storeIdempotency
Store(h) ==
    /\ pc[h] = "store"
    /\ stored' = IF key[h] # NoKey THEN stored \cup {key[h]} ELSE stored
    /\ Goto(h, "idle")
    /\ UNCHANGED <<key, answered, effects>>

\* Expiry after five minutes, or eviction of the least recently used key.
Forget(k) ==
    /\ k \in stored
    /\ stored' = stored \ {k}
    /\ answered' = {a \in answered : a[1] # k}
    /\ effects' = [effects EXCEPT ![k] = 0]
    /\ UNCHANGED <<pc, key>>

Next ==
    \/ \E h \in Handlers :
         \/ \E k \in Keys \cup {NoKey} : Receive(h, k)
         \/ Check(h) \/ Execute(h) \/ Retry(h) \/ Fail(h) \/ Respond(h) \/ Store(h)
    \/ \E k \in Keys : Forget(k)

Spec == Init /\ [][Next]_vars

-----------------------------------------------------------------------------
(* Properties                                                              *)

\* A request that was answered with success is not executed again when it is
\* repeated on its connection, for as long as the key is remembered, whatever
\* other connections do with the same key in between and although the response
\* is sent before it is stored (handleMessage, storeIdempotency).
AnsweredNotRepeated ==
    \A h \in Handlers :
        pc[h] \in {"execute", "ran"} /\ key[h] # NoKey => <<key[h], h>> \notin answered

\* What examples_security.go says of a statement with an idempotency key:
\* "This will execute only once, even if called multiple times".  It does not
\* hold: a statement that failed after it took effect is executed again, and so
\* is one whose key another connection is executing or has just answered.
ExecutesOnce == \A k \in Keys : effects[k] <= 1
=============================================================================
