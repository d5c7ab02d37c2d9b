--------------------------- MODULE IdempotencyProofs ---------------------------
(* AnsweredNotRepeated for any number of connections and keys.             *)
EXTENDS Idempotency, TLAPS

\* A key that a handler has answered with success is stored, unless the
\* handler is just about to store it: the handler takes no other request
\* between the two.
Remembers ==
    \A k \in Keys, h \in Handlers :
        <<k, h>> \in answered => k \in stored \/ (pc[h] = "store" /\ key[h] = k)

IndInv == TypeOK /\ Remembers /\ AnsweredNotRepeated

\* The invariant is inductive: Check needs Remembers, Respond and Store keep it.
LEMMA IndInvStep == IndInv /\ [Next]_vars => IndInv'
<1> SUFFICES ASSUME IndInv, [Next]_vars PROVE IndInv'
  OBVIOUS
<1> USE IdempotencyConstants DEF IndInv, TypeOK, Remembers, AnsweredNotRepeated, Goto
<1>1. ASSUME NEW h \in Handlers, NEW k \in Keys \cup {NoKey}, Receive(h, k) PROVE IndInv'
  BY <1>1 DEF Receive
<1>2. ASSUME NEW h \in Handlers, Check(h) PROVE IndInv'
  BY <1>2 DEF Check
<1>3. ASSUME NEW h \in Handlers, Execute(h) PROVE IndInv'
  <2>1. CASE key[h] \in Keys
    BY <1>3, <2>1 DEF Execute
  <2>2. CASE key[h] \notin Keys
    BY <1>3, <2>2 DEF Execute
  <2> QED BY <2>1, <2>2
<1>4. ASSUME NEW h \in Handlers, Retry(h) \/ Fail(h) PROVE IndInv'
  BY <1>4 DEF Retry, Fail
<1>5. ASSUME NEW h \in Handlers, Respond(h) PROVE IndInv'
  BY <1>5 DEF Respond
<1>6. ASSUME NEW h \in Handlers, Store(h) PROVE IndInv'
  BY <1>6 DEF Store
<1>7. ASSUME NEW k \in Keys, Forget(k) PROVE IndInv'
  BY <1>7 DEF Forget
<1>8. CASE UNCHANGED vars
  BY <1>8 DEF vars
<1> QED
  BY <1>1, <1>2, <1>3, <1>4, <1>5, <1>6, <1>7, <1>8 DEF Next

\* It holds always.
LEMMA IndInvAlways == Spec => []IndInv
<1>1. Init => IndInv
  BY IdempotencyConstants DEF Init, IndInv, TypeOK, Remembers, AnsweredNotRepeated
<1> QED BY <1>1, IndInvStep, PTL DEF Spec

\* The handlers, the stored keys and the history of answers and executions
\* stay well typed.
THEOREM IdempotencyTypes == Spec => []TypeOK
<1>1. IndInv => TypeOK
  BY DEF IndInv
<1> QED BY <1>1, IndInvAlways, PTL

\* A request answered with success is not executed again when it is repeated
\* on its connection while its key is remembered, although errors after an
\* execution store nothing (handleMessage, checkIdempotency, storeIdempotency).
THEOREM SuccessExecutesNoMore == Spec => []AnsweredNotRepeated
<1>1. IndInv => AnsweredNotRepeated
  BY DEF IndInv
<1> QED BY <1>1, IndInvAlways, PTL
=============================================================================
