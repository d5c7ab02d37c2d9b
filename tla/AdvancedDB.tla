------------------------------ MODULE AdvancedDB ------------------------------
(***************************************************************************)
(* AdvancedDB, AdvancedTx (db.go) and QueryExecutor.Transaction (utils.go) *)
(* on top of the connection gate.  A goroutine repeats two kinds of calls: *)
(*                                                                         *)
(*   "exec"   Exec or Query: gate, then the loop of retryExec, retryQuery  *)
(*   "begin"  Transaction: Begin through the gate, then                    *)
(*   "fn"     the caller's function, "end" the deferred function, and      *)
(*   "ending" the gate's bookkeeping for the failed (or done) Commit.      *)
(*                                                                         *)
(* pc[g] is the goroutine's place in the gate; RecordFailure starts at     *)
(* "failed" and RecordSuccess at "succeeded", whoever calls them.          *)
(* database/sql is external: a transaction whose context is cancelled is   *)
(* rolled back in the background, and Commit on it returns an error.       *)
(* Metrics are left out: no state here depends on them.                    *)
(***************************************************************************)
EXTENDS ConnectionGate

CONSTANT MaxRetries        \* rp.MaxRetries

ASSUME RetryConstants == MaxRetries \in Nat

VARIABLES op,       \* the call a goroutine is in
          attempt,  \* retries made by the call, 0 outside the loop
          started,  \* BeginTx succeeded and Begin has not returned
          tx,       \* state of the sql.Tx of its Transaction
          result    \* what the Transaction returns ("error": or panics with)

dbOnly == <<op, attempt, started, tx, result>>
dbVars == <<vars, dbOnly>>

Ops == {"none", "exec", "begin", "fn", "end", "ending"}
TxStates == {"none", "active", "cancelled", "over", "committed"}

DBTypeOK ==
    /\ TypeOK
    /\ op \in [Goroutines -> Ops]
    /\ attempt \in [Goroutines -> 0 .. MaxRetries]
    /\ started \in [Goroutines -> BOOLEAN]
    /\ tx \in [Goroutines -> TxStates]
    /\ result \in [Goroutines -> {"none", "nil", "error"}]

DBInit ==
    /\ Init
    /\ op = [g \in Goroutines |-> "none"]
    /\ attempt = [g \in Goroutines |-> 0]
    /\ started = [g \in Goroutines |-> FALSE]
    /\ tx = [g \in Goroutines |-> "none"]
    /\ result = [g \in Goroutines |-> "none"]

SetOp(g, call) == op' = [op EXCEPT ![g] = call]

-----------------------------------------------------------------------------
(* Calls through the gate                                                  *)

\* Exec, Query or Begin enters ExecuteWithGate.
Start(g, call) ==
    /\ op[g] = "none"
    /\ AllowLoad(g)
    /\ SetOp(g, call)
    /\ UNCHANGED <<attempt, started, tx, result>>

\* The gate's own steps, of a call or of the end of a transaction.
GateStep(g) ==
    /\ \/ AllowProbe(g) \/ AllowRate(g)
       \/ AcquireDrop(g) \/ AcquireSem(g) \/ WaitSend(g) \/ WaitGiveUp(g)
       \/ AcquireCount(g) \/ Refuse(g)
       \/ SuccessLoad(g) \/ SuccessSettle(g)
       \/ FailureCount(g) \/ FailureRelease(g) \/ FailureUncount(g)
    /\ UNCHANGED dbOnly

\* An attempt of retryExec or retryQuery, or the BeginTx of Begin, succeeds.
AttemptOk(g) ==
    /\ pc[g] = "running"
    /\ Goto(g, "succeeded")
    /\ started' = [started EXCEPT ![g] = op[g] = "begin"]
    /\ tx' = [tx EXCEPT ![g] = IF op[g] = "begin" THEN "active" ELSE "none"]
    /\ attempt' = [attempt EXCEPT ![g] = 0]
    /\ UNCHANGED <<breakerVars, rateVars, limiterVars, seen, kept, op, result>>

MutMayRetry(g) == attempt[g] <= MaxRetries

\* The loop of retryExec has an attempt left.
MayRetry(g) == attempt[g] < MaxRetries

\* The loop has lost its bound (the counter wraps to keep the model finite).
MutRetry(g) ==
    /\ pc[g] = "running"
    /\ op[g] = "exec"
    /\ attempt' = [attempt EXCEPT ![g] = (@ + 1) % (MaxRetries + 1)]
    /\ UNCHANGED <<vars, op, started, tx, result>>

\* An attempt fails with an error that ShouldRetry accepts, and the backoff
\* ends before the context does.
Retry(g) ==
    /\ pc[g] = "running"
    /\ op[g] = "exec"
    /\ MayRetry(g)
    /\ attempt' = [attempt EXCEPT ![g] = @ + 1]
    /\ UNCHANGED <<vars, op, started, tx, result>>

\* The operation ends with an error: not to be retried, the last attempt, or
\* the context ended during the backoff; or BeginTx failed.
GiveUp(g) ==
    /\ pc[g] = "running"
    /\ Goto(g, "failed")
    /\ attempt' = [attempt EXCEPT ![g] = 0]
    /\ UNCHANGED <<breakerVars, rateVars, limiterVars, seen, kept, op, started, tx, result>>

\* Exec, Query, or Transaction as a whole, returns.
Return(g) ==
    /\ pc[g] = "idle"
    /\ op[g] \in {"exec", "ending"}
    /\ SetOp(g, "none")
    /\ tx' = [tx EXCEPT ![g] = "none"]
    /\ result' = [result EXCEPT ![g] = "none"]
    /\ UNCHANGED <<vars, attempt, started>>

-----------------------------------------------------------------------------
(* Transaction                                                             *)

\* Begin returns an error, and so does Transaction.
BeginFailed(g) ==
    /\ pc[g] = "idle"
    /\ op[g] = "begin"
    /\ ~ started[g]
    /\ SetOp(g, "none")
    /\ UNCHANGED <<vars, attempt, started, tx, result>>

\* Begin returns the transaction; its deferred cancel() ends the context the
\* transaction was started with.
BeginReturn(g) ==
    /\ pc[g] = "idle"
    /\ op[g] = "begin"
    /\ started[g]
    /\ tx' = [tx EXCEPT ![g] = "cancelled"]
    /\ started' = [started EXCEPT ![g] = FALSE]
    /\ SetOp(g, "fn")
    /\ UNCHANGED <<vars, attempt, result>>

\* database/sql rolls back a transaction whose context is done.
AwaitDone(g) ==
    /\ tx[g] = "cancelled"
    /\ tx' = [tx EXCEPT ![g] = "over"]
    /\ UNCHANGED <<vars, op, attempt, started, result>>

\* fn returns nil or an error, or panics.  What Transaction returns is fixed
\* here: the deferred function assigns to a variable that is not its result.
FnReturn(g) ==
    /\ op[g] = "fn"
    /\ \E r \in {"nil", "error"} : result' = [result EXCEPT ![g] = r]
    /\ SetOp(g, "end")
    /\ UNCHANGED <<vars, attempt, started, tx>>

\* sql.Tx.Commit: only a transaction whose context lives can be committed.
CommitOutcomes(t) == IF t = "active" THEN {"committed", "over"} ELSE {t}

\* AdvancedTx calls RecordSuccess or RecordFailure for the slot its Begin got.
Settle(g, label) ==
    /\ Goto(g, label)
    /\ kept' = kept - 1
    /\ UNCHANGED <<breakerVars, rateVars, limiterVars, seen>>

MutCommit(g) ==
    /\ pc[g] = "idle"
    /\ op[g] = "end"
    /\ result[g] = "nil"
    /\ \E t \in CommitOutcomes(tx[g]) :
          /\ tx' = [tx EXCEPT ![g] = t]
          /\ Settle(g, IF t = "committed" THEN "succeeded" ELSE "failed")
          /\ SetOp(g, IF t = "committed" THEN "ending" ELSE "end")
    /\ result' = [result EXCEPT ![g] = "error"]
    /\ UNCHANGED <<attempt, started>>

\* The deferred function after fn returned nil: AdvancedTx.Commit.
Commit(g) ==
    /\ pc[g] = "idle"
    /\ op[g] = "end"
    /\ result[g] = "nil"
    /\ \E t \in CommitOutcomes(tx[g]) :
          /\ tx' = [tx EXCEPT ![g] = t]
          /\ Settle(g, IF t = "committed" THEN "succeeded" ELSE "failed")
    /\ SetOp(g, "ending")
    /\ UNCHANGED <<attempt, started, result>>

\* The deferred function otherwise: AdvancedTx.Rollback, which tells the gate
\* nothing if it succeeds.
RollbackOk(g) ==
    /\ pc[g] = "idle"
    /\ op[g] = "end"
    /\ result[g] # "nil"
    /\ tx[g] # "over"
    /\ tx' = [tx EXCEPT ![g] = "over"]
    /\ SetOp(g, "ending")
    /\ UNCHANGED <<vars, attempt, started, result>>

\* The rollback fails in the driver, or the background was faster: ErrTxDone.
RollbackFailed(g) ==
    /\ pc[g] = "idle"
    /\ op[g] = "end"
    /\ result[g] # "nil"
    /\ tx' = [tx EXCEPT ![g] = "over"]
    /\ Settle(g, "failed")
    /\ SetOp(g, "ending")
    /\ UNCHANGED <<attempt, started, result>>

-----------------------------------------------------------------------------
Goroutine(g) ==
    \/ \E call \in {"exec", "begin"} : Start(g, call)
    \/ GateStep(g) \/ AttemptOk(g) \/ Retry(g) \/ GiveUp(g) \/ Return(g)
    \/ BeginFailed(g) \/ BeginReturn(g) \/ FnReturn(g)
    \/ Commit(g) \/ RollbackOk(g) \/ RollbackFailed(g)

DBNext ==
    \/ Tick /\ UNCHANGED dbOnly
    \/ \E g \in Goroutines : Goroutine(g) \/ AwaitDone(g)

DBSpec == DBInit /\ [][DBNext]_dbVars

\* Goroutines run, statements and fn end, contexts expire (Exec, Query and
\* Begin each wrap theirs in a timeout), time passes and calls keep coming.
DBFairSpec ==
    /\ DBSpec
    /\ WF_dbVars(Tick /\ UNCHANGED dbOnly)
    /\ \A g \in Goroutines : WF_dbVars(Goroutine(g))

-----------------------------------------------------------------------------
(* Properties                                                              *)

OpenTransactions == {g \in Goroutines : op[g] \in {"fn", "end"} /\ pc[g] = "idle"}

\* Open transactions and running operations together stay within
\* maxConnections: a transaction keeps the slot of its Begin until its Commit
\* or Rollback, and no way of ending it, racing with the rollback in the
\* background, gives a slot back twice (db.go Begin, Commit, Rollback).
OpenTransactionsBound ==
    Cardinality(OpenTransactions \cup At({"running"})) <= MaxConnections

\* Every Exec and every Transaction returns, whatever fails and however often
\* (retryExec, ExecuteWithGate, Transaction).
OpsReturn == \A g \in Goroutines : op[g] # "none" ~> op[g] = "none"

\* Transaction "executes a function within a transaction": when it returns
\* nil, the transaction has been committed.
TransactionResult ==
    \A g \in Goroutines :
        op[g] = "ending" /\ pc[g] = "idle" /\ result[g] = "nil" => tx[g] = "committed"
=============================================================================
