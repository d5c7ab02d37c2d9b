--------------------------- MODULE StatementCache ---------------------------
(***************************************************************************)
(* PreparedStatementCache (db.go).  A statement is the number of the pool  *)
(* it was prepared on.  Every method holds psc.mu throughout.  A statement *)
(* that is evicted or replaced is dropped without being closed.            *)
(***************************************************************************)
EXTENDS Naturals, FiniteSets

CONSTANTS Queries,
          StmtCacheSize     \* psc.maxSize

ASSUME StatementConstants == StmtCacheSize \in Nat \ {0}

VARIABLE stmts              \* psc.cache: query in the cache -> statement

NoStmts == [q \in {} |-> 0]

StmtTypeOK(statements) ==
    /\ DOMAIN stmts \subseteq Queries
    /\ \A q \in DOMAIN stmts : stmts[q] \in statements
    /\ Cardinality(DOMAIN stmts) <= StmtCacheSize

StmtInit == stmts = NoStmts

\* Get finds the statement.
GetStmt(q) == q \in DOMAIN stmts /\ UNCHANGED stmts

\* Get returns nil.
GetNoStmt(q) == q \notin DOMAIN stmts /\ UNCHANGED stmts

Full == Cardinality(DOMAIN stmts) >= StmtCacheSize

\* Which statement makes room is the first that the iteration over a Go map
\* gives, so any; also when q itself is cached already.
PutStmt(q, s) ==
    \E gone \in IF Full THEN {{k} : k \in DOMAIN stmts} ELSE {{}} :
        stmts' = [k \in (DOMAIN stmts \ gone) \cup {q} |-> IF k = q THEN s ELSE stmts[k]]

\* Clear closes and forgets every statement.
ClearStmts == stmts' = NoStmts
=============================================================================
