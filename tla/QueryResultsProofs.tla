-------------------------- MODULE QueryResultsProofs --------------------------
(***************************************************************************)
(* Results are complete for any number of callers, any table and any TTLs. *)
(***************************************************************************)
EXTENDS QueryResults, TLAPS

\* A call that has not read anything has got and lost nothing; one that is under
\* way has an operation, and loses rows only where it ignores errors; only
\* QueryCached stores.
PlaceAt(g) ==
    /\ pc[g] \in {"idle", "query"} => got[g] = {} /\ lost[g] = {}
    /\ lost[g] # {} => op[g] \in {"list", "exists"}
    /\ pc[g] # "idle" => op[g] \in Ops
    /\ pc[g] = "store" => op[g] = "cached"

CompleteAt(g) ==
    pc[g] \in {"store", "done"} /\ got[g] # want[g] =>
        op[g] \in {"list", "exists"} /\ (closed[g] \/ lost[g] = want[g] \ got[g])

ResultInv == TypeOK /\ \A g \in Goroutines : PlaceAt(g) /\ CompleteAt(g)

\* What a step of g makes of its call.
Becomes(g, label, o, w, r, l, c) ==
    /\ Goto(g, label)
    /\ Assign(op, g, o) /\ Assign(want, g, w) /\ Assign(got, g, r) /\ Assign(lost, g, l)
    /\ Assign(closed, g, c)

\* What a call may become.
Sound(label, o, w, r, l, c) ==
    /\ label \in {"idle", "query", "rows", "store", "done"}
    /\ o \in Ops \cup {"none"} /\ w \subseteq Rows /\ r \subseteq w /\ l \subseteq w \ r
    /\ c \in BOOLEAN
    /\ label \in {"idle", "query"} => r = {} /\ l = {}
    /\ l # {} => o \in {"list", "exists"}
    /\ label # "idle" => o \in Ops
    /\ label = "store" => o = "cached"
    /\ label \in {"store", "done"} /\ r # w => o \in {"list", "exists"} /\ (c \/ l = w \ r)

EntryOK == entry = None \/ \E l \in Lifetimes : entry \in [rows : SUBSET Rows, left : 0 .. l]

LEMMA CallStep ==
  ASSUME ResultInv, NEW g \in Goroutines, NEW label, NEW o, NEW w, NEW r, NEW l, NEW c,
         Becomes(g, label, o, w, r, l, c), Sound(label, o, w, r, l, c), UNCHANGED table, EntryOK'
  PROVE  ResultInv'
<1>1. TypeOK
  BY DEF ResultInv
<1>2. /\ pc'[g] = label /\ op'[g] = o /\ want'[g] = w /\ got'[g] = r /\ lost'[g] = l
      /\ closed'[g] = c
      /\ \A h \in Goroutines \ {g} :
            /\ pc'[h] = pc[h] /\ op'[h] = op[h] /\ want'[h] = want[h]
            /\ got'[h] = got[h] /\ lost'[h] = lost[h] /\ closed'[h] = closed[h]
  BY <1>1 DEF TypeOK, Becomes, Goto, Assign
<1>3. TypeOK'
  <2>1. \A h \in Goroutines : got'[h] \subseteq want'[h] /\ lost'[h] \subseteq want'[h] \ got'[h]
    BY <1>1, <1>2 DEF TypeOK, Sound
  <2>2. got' \in [Goroutines -> SUBSET Rows] /\ lost' \in [Goroutines -> SUBSET Rows]
    BY <1>1 DEF TypeOK, Becomes, Assign, Sound
  <2> QED BY <1>1, <2>1, <2>2 DEF TypeOK, Becomes, Goto, Assign, Sound, EntryOK
<1>4. PlaceAt(g)' /\ CompleteAt(g)'
  BY <1>2 DEF PlaceAt, CompleteAt, Sound
<1>5. \A h \in Goroutines \ {g} : PlaceAt(h)' /\ CompleteAt(h)'
  BY <1>2 DEF ResultInv, PlaceAt, CompleteAt
<1> QED BY <1>3, <1>4, <1>5 DEF ResultInv

\* A step of the rest of the world.
LEMMA WorldStep ==
  ASSUME ResultInv, UNCHANGED callVars, table' \subseteq Rows, EntryOK'
  PROVE  ResultInv'
<1>1. UNCHANGED <<pc, op, want, got, lost, closed>>
  BY DEF callVars
<1>2. TypeOK'
  BY <1>1 DEF ResultInv, TypeOK, EntryOK
<1>3. \A g \in Goroutines : PlaceAt(g)' /\ CompleteAt(g)'
  BY <1>1 DEF ResultInv, PlaceAt, CompleteAt
<1> QED BY <1>2, <1>3 DEF ResultInv

LEMMA CallInv ==
  ASSUME ResultInv, NEW g \in Goroutines,
         NEW o, o = op[g], NEW w, w = want[g], NEW r, r = got[g],
         NEW l, l = lost[g], NEW c, c = closed[g],
         Hit(g) \/ (\E call \in Ops : Begin(g, call)) \/ Proceed(g) \/ CloseRows(g)
  PROVE  ResultInv'
<1>1. /\ TypeOK /\ PlaceAt(g) /\ CompleteAt(g) /\ EntryOK
      /\ op[g] \in Ops \cup {"none"} /\ want[g] \subseteq Rows /\ got[g] \subseteq want[g]
      /\ lost[g] \subseteq want[g] \ got[g] /\ closed[g] \in BOOLEAN
  BY DEF ResultInv, TypeOK, EntryOK
<1>2. /\ UNCHANGED op => Assign(op, g, o)
      /\ UNCHANGED want => Assign(want, g, w)
      /\ UNCHANGED got => Assign(got, g, r)
      /\ UNCHANGED lost => Assign(lost, g, l)
      /\ UNCHANGED closed => Assign(closed, g, c)
      /\ UNCHANGED pc /\ pc[g] = "rows" => Goto(g, "rows")
  BY <1>1 DEF TypeOK, Assign, Goto
<1>3. UNCHANGED entry => EntryOK'
  BY <1>1 DEF EntryOK
<1>4. CASE Hit(g)
  <2>1. PICK e : e = entry.rows
    OBVIOUS
  <2>2. e \subseteq Rows
    BY <1>1, <1>4, <2>1 DEF Hit, EntryOK
  <2>3. Becomes(g, "done", "cached", e, e, l, c)
    BY <1>2, <1>4, <2>1 DEF Hit, Becomes
  <2>4. Sound("done", "cached", e, e, l, c)
    BY <1>1, <1>4, <2>2 DEF Sound, Ops, Hit, PlaceAt
  <2> QED BY <1>3, <1>4, <2>3, <2>4, CallStep DEF Hit
<1>5. ASSUME NEW call \in Ops, Begin(g, call) PROVE ResultInv'
  <2>1. Becomes(g, "query", call, w, r, l, c)
    BY <1>2, <1>5 DEF Begin, Becomes
  <2>2. Sound("query", call, w, r, l, c)
    BY <1>1, <1>5 DEF Sound, Begin, PlaceAt
  <2> QED BY <1>3, <1>5, <2>1, <2>2, CallStep DEF Begin
<1>6. CASE QueryOk(g)
  <2>1. PICK s \in Selections(op[g]) : Assign(want, g, s)
    BY <1>6 DEF QueryOk
  <2>2. s \subseteq Rows
    BY <1>1, <2>1 DEF Selections, TypeOK
  <2>3. Becomes(g, "rows", o, s, r, l, c)
    BY <1>2, <1>6, <2>1 DEF QueryOk, Becomes
  <2>4. Sound("rows", o, s, r, l, c)
    BY <1>1, <1>6, <2>2 DEF QueryOk, Sound, PlaceAt
  <2> QED BY <1>3, <1>6, <2>3, <2>4, CallStep DEF QueryOk
<1>7. CASE NextRow(g)
  <2>1. PICK x \in w \ (r \cup l) : Assign(got, g, r \cup {x})
    BY <1>7 DEF NextRow, Unread
  <2>2. Becomes(g, "rows", o, w, r \cup {x}, l, c)
    BY <1>2, <1>7, <2>1 DEF NextRow, Becomes
  <2>3. Sound("rows", o, w, r \cup {x}, l, c)
    BY <1>1, <1>7, <2>1 DEF NextRow, Sound, PlaceAt
  <2> QED BY <1>3, <1>7, <2>2, <2>3, CallStep DEF NextRow
<1>8. CASE RowsEnd(g) \/ RowsClosed(g)
  <2>1. /\ pc[g] = "rows" /\ op[g] \in Ops /\ UNCHANGED <<table, entry>>
        /\ Becomes(g, IF o = "cached" THEN "store" ELSE "done", o, w, r, l, c)
    BY <1>1, <1>2, <1>8 DEF RowsEnd, RowsClosed, AfterRows, PlaceAt, Becomes
  <2>2. got[g] # want[g] =>
           op[g] \in {"list", "exists"} /\ (closed[g] \/ lost[g] = want[g] \ got[g])
    <3>1. CASE RowsEnd(g)
      BY <1>1, <3>1 DEF RowsEnd, Unread, PlaceAt
    <3>2. CASE RowsClosed(g)
      BY <2>1, <3>2 DEF RowsClosed, NoticesError, Ops
    <3> QED BY <1>8, <3>1, <3>2
  <2>3. Sound(IF o = "cached" THEN "store" ELSE "done", o, w, r, l, c)
    BY <1>1, <2>1, <2>2 DEF Sound, PlaceAt
  <2> QED BY <1>3, <2>1, <2>3, CallStep
<1>9. CASE ReturnError(g) \/ Return(g)
  <2>1. Becomes(g, "idle", "none", {}, {}, {}, FALSE) /\ UNCHANGED <<table, entry>>
    BY <1>9 DEF ReturnError, Return, Forget, Becomes
  <2>2. Sound("idle", "none", {}, {}, {}, FALSE)
    BY DEF Sound
  <2> QED BY <1>3, <2>1, <2>2, CallStep
<1>10. ASSUME NEW ttl \in TTLs, Store(g, ttl) PROVE ResultInv'
  <2>1. EffectiveTTL(ttl) \in Lifetimes /\ EffectiveTTL(ttl) \in Nat
    BY ResultConstants DEF EffectiveTTL, Lifetimes
  <2>2. entry' \in [rows : SUBSET Rows, left : 0 .. EffectiveTTL(ttl)]
    BY <1>1, <1>10, <2>1 DEF Store
  <2>3. EntryOK'
    BY <2>1, <2>2 DEF EntryOK
  <2>4. Becomes(g, "done", o, w, r, l, c) /\ UNCHANGED table
    BY <1>2, <1>10 DEF Store, Becomes
  <2>5. Sound("done", o, w, r, l, c)
    BY <1>1, <1>10 DEF Store, Sound, PlaceAt, CompleteAt
  <2> QED BY <2>3, <2>4, <2>5, CallStep
<1>11. CASE CloseRows(g)
  <2>1. Becomes(g, "rows", o, w, r, l, TRUE)
    BY <1>2, <1>11 DEF CloseRows, Becomes
  <2>2. Sound("rows", o, w, r, l, TRUE)
    BY <1>1, <1>11 DEF CloseRows, Sound, PlaceAt
  <2> QED BY <1>3, <1>11, <2>1, <2>2, CallStep DEF CloseRows
<1>12. CASE QueryFails(g)
  <2>1. PICK s \in Selections(op[g]) : Assign(want, g, s) /\ Assign(lost, g, s)
    BY <1>12 DEF QueryFails
  <2>2. s \subseteq Rows
    BY <1>1, <2>1 DEF Selections, TypeOK
  <2>3. r = {} /\ o = "exists"
    BY <1>1, <1>12 DEF QueryFails, PlaceAt
  <2>4. Becomes(g, "done", o, s, r, s, c)
    BY <1>2, <1>12, <2>1 DEF QueryFails, Becomes
  <2>5. Sound("done", o, s, r, s, c)
    BY <1>1, <2>2, <2>3 DEF Sound, Ops
  <2> QED BY <1>3, <1>12, <2>4, <2>5, CallStep DEF QueryFails
<1>13. CASE SkipRow(g)
  <2>1. PICK x \in w \ (r \cup l) : Assign(lost, g, l \cup {x})
    BY <1>13 DEF SkipRow, Unread
  <2>2. Becomes(g, "rows", o, w, r, l \cup {x}, c)
    BY <1>2, <1>13, <2>1 DEF SkipRow, Becomes
  <2>3. o \in {"list", "exists"}
    BY <1>1, <1>13 DEF SkipRow, NoticesError, PlaceAt, Ops
  <2>4. Sound("rows", o, w, r, l \cup {x}, c)
    BY <1>1, <2>1, <2>3 DEF Sound, Ops
  <2> QED BY <1>3, <1>13, <2>2, <2>4, CallStep DEF SkipRow
<1> QED
  BY <1>4, <1>5, <1>6, <1>7, <1>8, <1>9, <1>10, <1>11, <1>12, <1>13 DEF Proceed

LEMMA ResultStep == ResultInv /\ [Next]_vars => ResultInv'
<1> SUFFICES ASSUME ResultInv, [Next]_vars PROVE ResultInv'
  OBVIOUS
<1>1. table \subseteq Rows /\ EntryOK
  BY DEF ResultInv, TypeOK, EntryOK
<1>2. CASE UNCHANGED vars
  BY <1>1, <1>2, WorldStep DEF vars, EntryOK
<1>3. CASE \E r \in Rows : Write(r)
  BY <1>1, <1>3, WorldStep DEF Write, EntryOK
<1>4. CASE Evict
  BY <1>1, <1>4, WorldStep DEF Evict, EntryOK
<1>5. CASE Tick
  <2>1. CASE entry.left = 0
    BY <1>1, <1>5, <2>1, WorldStep DEF Tick, EntryOK
  <2>2. CASE entry.left # 0
    <3>1. PICK l \in Lifetimes : entry \in [rows : SUBSET Rows, left : 0 .. l]
      BY <1>1, <1>5 DEF Tick, EntryOK
    <3>2. l \in Nat
      BY ResultConstants DEF Lifetimes
    <3>3. entry' = [entry EXCEPT !.left = entry.left - 1]
      BY <1>5, <2>2 DEF Tick
    <3>4. entry.left - 1 \in 0 .. l
      BY <3>1, <3>2, <2>2
    <3>5. entry' \in [rows : SUBSET Rows, left : 0 .. l]
      BY <3>1, <3>3, <3>4
    <3> QED BY <1>1, <1>5, <3>5, WorldStep DEF Tick, EntryOK
  <2> QED BY <2>1, <2>2
<1> QED BY <1>2, <1>3, <1>4, <1>5, CallInv DEF Next

\* It holds at the start.
LEMMA ResultInit == Init => ResultInv
<1> SUFFICES ASSUME Init PROVE ResultInv
  OBVIOUS
<1>1. TypeOK
  BY DEF Init, TypeOK
<1>2. \A g \in Goroutines : PlaceAt(g) /\ CompleteAt(g)
  BY DEF Init, PlaceAt, CompleteAt
<1> QED BY <1>1, <1>2 DEF ResultInv

\* It holds always.
LEMMA ResultAlways == Spec => []ResultInv
BY ResultInit, ResultStep, PTL DEF Spec

\* The calls, their results and the cache entry stay well formed.
THEOREM ResultTypes == Spec => []TypeOK
<1>1. ResultInv => TypeOK
  BY DEF ResultInv
<1> QED BY <1>1, ResultAlways, PTL

\* Whatever queries and scans fail, whatever rows are closed while they are read
\* and whatever the cache holds, a call that returns or caches a result has the
\* whole result of its query.  List and Exists of the blob store in the database
\* are the exceptions: what they lack was lost to an error that they ignored.
THEOREM ResultsComplete == Spec => []CompleteResults
<1>1. ResultInv => CompleteResults
  BY DEF ResultInv, CompleteAt, CompleteResults
<1> QED BY <1>1, ResultAlways, PTL
=============================================================================
