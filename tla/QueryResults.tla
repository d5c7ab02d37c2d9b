----------------------------- MODULE QueryResults -----------------------------
(***************************************************************************)
(* Reading the rows of a query, with and without the cache: QueryCached    *)
(* (dbruntime.go), and the callers of Query and QueryRow in tcp_server.go, *)
(* utils.go and blob.go.  Query and QueryRow cancel, on return, the        *)
(* context their rows belong to, so database/sql (external) closes the     *)
(* rows in the background while the caller reads them.  A call is          *)
(*                                                                         *)
(*   "cached"  QueryCached with a key                                      *)
(*   "rows"    handleQuery, Select, or QueryCached without key or cache    *)
(*   "row"     Retrieve and Stats of DatabaseBlobStorage, SelectOne        *)
(*   "list"    DatabaseBlobStorage.List, which passes over a row it cannot *)
(*             scan and does not ask rows.Err                              *)
(*   "exists"  DatabaseBlobStorage.Exists, which takes any error for "no"  *)
(*                                                                         *)
(* and is at "query" before the database has answered, "rows" while it     *)
(* reads, "store" before cache.Set and "done" when it has its result.      *)
(* The table is a set of rows.  The cache is the expiring map of TTLMap    *)
(* restricted to one key, with the time an entry has left in place of a    *)
(* clock; an entry past its time counts as absent.                         *)
(***************************************************************************)
EXTENDS Integers

CONSTANTS Goroutines, Rows,
          TTLs,          \* the ttl arguments of QueryCached, <= 0 for the default
          DefaultTTL,    \* of the cache
          None           \* no entry

\* NewDBRuntime gives its cache a positive default.
ASSUME ResultConstants ==
    /\ DefaultTTL \in Nat \ {0} /\ TTLs \subseteq Int
    /\ None \notin [rows : SUBSET Rows, left : Nat]

VARIABLES table,         \* the rows in the database
          entry,         \* the cached result and the time it has left, or None
          pc, op,
          want,          \* history: the query's result when the database answered
          got,           \* rows read so far
          lost,          \* history: rows that an error kept from it, unreported
          closed         \* the rows were closed before they were read to the end

callVars == <<pc, op, want, got, lost, closed>>
vars == <<table, entry, callVars>>

Ops == {"cached", "rows", "row", "list", "exists"}
SingleRow == {"row", "exists"}
Lifetimes == {ttl \in TTLs : ttl > 0} \cup {DefaultTTL}

TypeOK ==
    /\ table \subseteq Rows
    /\ entry = None \/ \E l \in Lifetimes : entry \in [rows : SUBSET Rows, left : 0 .. l]
    /\ pc \in [Goroutines -> {"idle", "query", "rows", "store", "done"}]
    /\ op \in [Goroutines -> Ops \cup {"none"}]
    /\ want \in [Goroutines -> SUBSET Rows]
    /\ got \in [Goroutines -> SUBSET Rows] /\ \A g \in Goroutines : got[g] \subseteq want[g]
    /\ lost \in [Goroutines -> SUBSET Rows]
    /\ \A g \in Goroutines : lost[g] \subseteq want[g] \ got[g]
    /\ closed \in [Goroutines -> BOOLEAN]

Init ==
    /\ table \in SUBSET Rows
    /\ entry = None
    /\ pc = [g \in Goroutines |-> "idle"]
    /\ op = [g \in Goroutines |-> "none"]
    /\ want = [g \in Goroutines |-> {}]
    /\ got = [g \in Goroutines |-> {}]
    /\ lost = [g \in Goroutines |-> {}]
    /\ closed = [g \in Goroutines |-> FALSE]

Goto(g, label) == pc' = [pc EXCEPT ![g] = label]

Assign(f, g, v) == f' = [f EXCEPT ![g] = v]

-----------------------------------------------------------------------------
(* A call                                                                  *)

\* QueryCached finds the key: the cached slices are its result.
Hit(g) ==
    /\ pc[g] = "idle"
    /\ entry # None
    /\ Assign(op, g, "cached")
    /\ Assign(want, g, entry.rows)
    /\ Assign(got, g, entry.rows)
    /\ Goto(g, "done")
    /\ UNCHANGED <<table, entry, lost, closed>>

\* QueryCached does not find it, or the call uses no cache.
Begin(g, call) ==
    /\ pc[g] = "idle"
    /\ call = "cached" => entry = None
    /\ Assign(op, g, call)
    /\ Goto(g, "query")
    /\ UNCHANGED <<table, entry, want, got, lost, closed>>

\* What the query selects: a single row, looked up by its key, or all.
Selections(call) ==
    IF call \in SingleRow THEN {table \cap {r} : r \in Rows} ELSE {table}

\* Query or QueryRow returns the rows, and its deferred cancel() has run.
QueryOk(g) ==
    /\ pc[g] = "query"
    /\ \E s \in Selections(op[g]) : Assign(want, g, s)
    /\ Goto(g, "rows")
    /\ UNCHANGED <<table, entry, op, got, lost, closed>>

\* Row.Scan of Exists reports that the query failed, and Exists answers "no".
QueryFails(g) ==
    /\ pc[g] = "query"
    /\ op[g] = "exists"
    /\ \E s \in Selections(op[g]) : Assign(want, g, s) /\ Assign(lost, g, s)
    /\ Goto(g, "done")
    /\ UNCHANGED <<table, entry, op, got, closed>>

\* database/sql closes rows whose context is done, or whose driver fails.
CloseRows(g) ==
    /\ pc[g] = "rows"
    /\ ~ closed[g]
    /\ Assign(closed, g, TRUE)
    /\ UNCHANGED <<table, entry, pc, op, want, got, lost>>

Unread(g) == want[g] \ (got[g] \cup lost[g])

\* rows.Next and rows.Scan.
NextRow(g) ==
    /\ pc[g] = "rows"
    /\ ~ closed[g]
    /\ \E r \in Unread(g) : Assign(got, g, got[g] \cup {r})
    /\ UNCHANGED <<table, entry, pc, op, want, lost, closed>>

MutNoticesError(g) == op[g] \in {"rows", "row"}

\* The caller returns the error of rows.Scan, rows.Err or Row.Scan.
NoticesError(g) == op[g] \in {"cached", "rows", "row"}

\* The scan of a row fails, and the caller passes over it.
SkipRow(g) ==
    /\ pc[g] = "rows"
    /\ ~ closed[g]
    /\ ~ NoticesError(g)
    /\ \E r \in Unread(g) : Assign(lost, g, lost[g] \cup {r})
    /\ UNCHANGED <<table, entry, pc, op, want, got, closed>>

\* Where a call goes that has read its rows.
AfterRows(g) == IF op[g] = "cached" THEN "store" ELSE "done"

\* rows.Next reaches the end.
RowsEnd(g) ==
    /\ pc[g] = "rows"
    /\ ~ closed[g]
    /\ Unread(g) = {}
    /\ Goto(g, AfterRows(g))
    /\ UNCHANGED <<table, entry, op, want, got, lost, closed>>

\* rows.Next finds the rows closed, and the call has what it read so far.
RowsClosed(g) ==
    /\ pc[g] = "rows"
    /\ closed[g]
    /\ ~ NoticesError(g)
    /\ Goto(g, AfterRows(g))
    /\ UNCHANGED <<table, entry, op, want, got, lost, closed>>

Forget(g) ==
    /\ Goto(g, "idle")
    /\ Assign(op, g, "none")
    /\ Assign(want, g, {}) /\ Assign(got, g, {}) /\ Assign(lost, g, {})
    /\ Assign(closed, g, FALSE)

\* A call without a result: the query failed, the scan of a row did, or the
\* rows were closed.
ReturnError(g) ==
    /\ \/ pc[g] = "query" /\ op[g] # "exists"
       \/ pc[g] = "rows" /\ (closed[g] \/ Unread(g) # {}) /\ NoticesError(g)
    /\ Forget(g)
    /\ UNCHANGED <<table, entry>>

MutEffectiveTTL(ttl) == DefaultTTL + ttl

\* effectiveExpire.
EffectiveTTL(ttl) == IF ttl > 0 THEN ttl ELSE DefaultTTL

\* QueryCached puts its result into the cache, over any other.
Store(g, ttl) ==
    /\ pc[g] = "store"
    /\ entry' = [rows |-> got[g], left |-> EffectiveTTL(ttl)]
    /\ Goto(g, "done")
    /\ UNCHANGED <<table, op, want, got, lost, closed>>

Return(g) ==
    /\ pc[g] = "done"
    /\ Forget(g)
    /\ UNCHANGED <<table, entry>>

-----------------------------------------------------------------------------
(* The rest of the world                                                   *)

\* A statement inserts or deletes a row: Store and Delete of
\* DatabaseBlobStorage, or any Exec.  The cache is not told.
Write(r) ==
    /\ table' = IF r \in table THEN table \ {r} ELSE table \cup {r}
    /\ UNCHANGED <<entry, callVars>>

MutTick ==
    /\ entry # None
    /\ entry' = [entry EXCEPT !.left = IF @ = 0 THEN 0 ELSE @ - 1]
    /\ UNCHANGED <<table, callVars>>

\* Time passes for the entry, until it is past its deadline.
Tick ==
    /\ entry # None
    /\ entry' = IF entry.left = 0 THEN None ELSE [entry EXCEPT !.left = @ - 1]
    /\ UNCHANGED <<table, callVars>>

\* Another key of the cache needs the room, or somebody deletes the key.
Evict ==
    /\ entry # None
    /\ entry' = None
    /\ UNCHANGED <<table, callVars>>

-----------------------------------------------------------------------------
Proceed(g) ==
    \/ QueryOk(g) \/ QueryFails(g) \/ NextRow(g) \/ SkipRow(g)
    \/ RowsEnd(g) \/ RowsClosed(g) \/ ReturnError(g)
    \/ \E ttl \in TTLs : Store(g, ttl)
    \/ Return(g)

Next ==
    \/ \E g \in Goroutines :
          Hit(g) \/ (\E call \in Ops : Begin(g, call)) \/ Proceed(g) \/ CloseRows(g)
    \/ \E r \in Rows : Write(r)
    \/ Tick \/ Evict

Spec == Init /\ [][Next]_vars

\* Calls proceed (a query ends with its timeout) and time passes.
FairSpec ==
    /\ Spec
    /\ \A g \in Goroutines : WF_vars(Proceed(g))
    /\ WF_vars(Tick)

-----------------------------------------------------------------------------
(* Properties                                                              *)

\* However failing queries, failing scans and the closing of the rows fall into
\* the reading of them, a call that returns a result without an error, or caches
\* one, has the whole result of its query.  The exceptions are List, and only if
\* its rows were closed or a row could not be scanned, and Exists, also if the
\* query failed (QueryCached, handleQuery, Select, Retrieve; List, Exists).
CompleteResults ==
    \A g \in Goroutines :
        pc[g] \in {"store", "done"} /\ got[g] # want[g] =>
            op[g] \in {"list", "exists"} /\ (closed[g] \/ lost[g] = want[g] \ got[g])

\* Writes do not reach the cache, and a slow QueryCached may store a result
\* that is older than the table, or than the entry it replaces.  But once the
\* table stays as it is, stale results die out, although hits and misses go
\* on (QueryCached, effectiveExpire).
CacheConverges ==
    <>[][table' = table]_table => <>[](entry = None \/ entry.rows = table)
=============================================================================
