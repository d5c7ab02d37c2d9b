---------------------------- MODULE InMemoryCache ----------------------------
(***************************************************************************)
(* InMemoryCache (cache.go): a map from keys to list elements and a list   *)
(* of items ordered by recency.  Every method holds c.mu throughout, so    *)
(* each is one action.                                                     *)
(*                                                                         *)
(* container/list is outside the repository.  It is modelled by its        *)
(* elements, each with its item, and by the order of the elements.         *)
(***************************************************************************)
EXTENDS Integers, FiniteSets

CONSTANTS Keys, Values,
          TTLs,            \* the ttl arguments callers pass, <= 0 for the default
          DefaultTTL,      \* c.defaultTTL
          Capacity,        \* c.capacity
          Elements,        \* identities of list elements
          CounterRange,    \* the counters are unsigned and wrap (2^64)
          MaxTime,         \* bound: the clock stops here
          Nil              \* a nil *list.Element, and a reply without a value

ASSUME CacheConstants ==
    /\ DefaultTTL \in Int /\ TTLs \subseteq Int
    /\ Capacity \in Nat \ {0}
    /\ CounterRange \in Nat \ {0}
    /\ MaxTime \in Nat \ {0}
    /\ Nil \notin Elements /\ Nil \notin Values
    /\ Nil \notin [value : Values, expireAt : Nat]

VARIABLES items,           \* c.items: key -> element, Nil where absent
          ll,              \* c.ll: element in the list -> its cacheItem
          before,          \* the order of c.ll: pairs, the first nearer the front
          evictions,       \* c.stats.Evictions
          expiredCount,    \* c.stats.ExpiredCount
          now,             \* time.Now()
          call,            \* history: the last call with its arguments
          reply,           \* the value that call returned, or Nil
          newer,           \* history: pairs of keys, the first used more recently
          inserted         \* history: keys added less keys deleted, wrapped

vars == <<items, ll, before, evictions, expiredCount, now, call, reply,
          newer, inserted>>

Item == [key : Keys, value : Values, expireAt : Nat]

Calls ==
    ({"get", "delete"} \X Keys) \cup ({"set"} \X Keys \X Values \X TTLs)
      \cup {<<"purge">>, <<>>}

Len == Cardinality(DOMAIN ll)
Wrap(n) == n % CounterRange

TypeOK ==
    /\ items \in [Keys -> Elements \cup {Nil}]
    /\ DOMAIN ll \subseteq Elements
    /\ \A e \in DOMAIN ll : ll[e] \in Item
    /\ before \subseteq (DOMAIN ll) \X (DOMAIN ll)
    /\ evictions \in 0 .. CounterRange - 1
    /\ expiredCount \in 0 .. CounterRange - 1
    /\ now \in 1 .. MaxTime
    /\ call \in Calls
    /\ reply \in Values \cup {Nil}
    /\ newer \subseteq Keys \X Keys
    /\ inserted \in 0 .. CounterRange - 1

Init ==
    /\ items = [k \in Keys |-> Nil]
    /\ ll = [e \in {} |-> Nil]
    /\ before = {}
    /\ evictions = 0 /\ expiredCount = 0
    /\ now = 1
    /\ call = <<>> /\ reply = Nil
    /\ newer = {} /\ inserted = 0

-----------------------------------------------------------------------------
(* container/list                                                          *)

\* The list without the elements of gone.
Without(gone) == [e \in DOMAIN ll \ gone |-> ll[e]]
OrderWithout(gone) == {p \in before : p[1] \notin gone /\ p[2] \notin gone}

\* The order with e at the front of the elements of others.
FrontOf(e, others) == {<<e, x>> : x \in others}

IsBack(e) == e \in DOMAIN ll /\ \A x \in DOMAIN ll \ {e} : <<x, e>> \in before

-----------------------------------------------------------------------------
(* The methods                                                             *)

MutEffectiveExpire(ttl) == now + ttl

\* effectiveExpire; 0 stands for the zero time.
EffectiveExpire(ttl) ==
    IF ttl > 0 THEN now + ttl
    ELSE IF DefaultTTL > 0 THEN now + DefaultTTL ELSE 0

MutExpired(e) == ll[e].expireAt # 0 /\ now >= ll[e].expireAt

Expired(e) == ll[e].expireAt # 0 /\ now > ll[e].expireAt

\* History: key k has just been used.
Touch(k) ==
    newer' = {p \in newer : p[1] # k /\ p[2] # k} \cup {<<k, x>> : x \in Keys \ {k}}

GetAbsent(k) ==
    /\ items[k] = Nil
    /\ call' = <<"get", k>> /\ reply' = Nil
    /\ UNCHANGED <<items, ll, before, evictions, expiredCount, now, newer, inserted>>

MutGetExpired(k) ==
    LET e == items[k] IN
    /\ e # Nil /\ Expired(e)
    /\ ll' = Without({e})
    /\ before' = OrderWithout({e})
    /\ expiredCount' = Wrap(expiredCount + 1)
    /\ call' = <<"get", k>> /\ reply' = Nil
    /\ UNCHANGED <<items, evictions, now, newer, inserted>>

GetExpired(k) ==
    LET e == items[k] IN
    /\ e # Nil /\ Expired(e)
    /\ ll' = Without({e})
    /\ before' = OrderWithout({e})
    /\ items' = [items EXCEPT ![k] = Nil]
    /\ expiredCount' = Wrap(expiredCount + 1)
    /\ call' = <<"get", k>> /\ reply' = Nil
    /\ UNCHANGED <<evictions, now, newer, inserted>>

MutGetHit(k) ==
    LET e == items[k] IN
    /\ e # Nil /\ ~ Expired(e)
    /\ call' = <<"get", k>> /\ reply' = ll[e].value
    /\ Touch(k)
    /\ UNCHANGED <<items, ll, before, evictions, expiredCount, now, inserted>>

GetHit(k) ==
    LET e == items[k] IN
    /\ e # Nil /\ ~ Expired(e)
    /\ before' = OrderWithout({e}) \cup FrontOf(e, DOMAIN ll \ {e})
    /\ call' = <<"get", k>> /\ reply' = ll[e].value
    /\ Touch(k)
    /\ UNCHANGED <<items, ll, evictions, expiredCount, now, inserted>>

\* Set on a key that is present, expired or not.
SetUpdate(k, v, ttl) ==
    LET e == items[k] IN
    /\ e # Nil
    /\ ll' = [ll EXCEPT ![e].value = v, ![e].expireAt = EffectiveExpire(ttl)]
    /\ before' = OrderWithout({e}) \cup FrontOf(e, DOMAIN ll \ {e})
    /\ call' = <<"set", k, v, ttl>> /\ reply' = Nil
    /\ Touch(k)
    /\ UNCHANGED <<items, evictions, expiredCount, now, inserted>>

\* PushFront of a new element e for key k, after the elements of gone were
\* removed together with their keys.
Insert(k, v, ttl, gone) ==
    \E e \in Elements \ (DOMAIN ll \ gone) :
      /\ ll' = [x \in (DOMAIN ll \ gone) \cup {e} |->
                  IF x = e THEN [key |-> k, value |-> v, expireAt |-> EffectiveExpire(ttl)]
                  ELSE ll[x]]
      /\ before' = OrderWithout(gone) \cup FrontOf(e, DOMAIN ll \ gone)
      /\ items' = [x \in Keys |-> IF x = k THEN e
                                  ELSE IF x \in {ll[g].key : g \in gone} THEN Nil
                                  ELSE items[x]]
      /\ inserted' = Wrap(inserted + 1)
      /\ call' = <<"set", k, v, ttl>> /\ reply' = Nil
      /\ Touch(k)

SetNew(k, v, ttl) ==
    /\ items[k] = Nil
    /\ Len < Capacity
    /\ Insert(k, v, ttl, {})
    /\ UNCHANGED <<evictions, expiredCount, now>>

MutSetEvict(k, v, ttl) ==
    /\ items[k] = Nil
    /\ Len >= Capacity
    /\ \E front \in DOMAIN ll :
          /\ \A x \in DOMAIN ll \ {front} : <<front, x>> \in before
          /\ Insert(k, v, ttl, {front})
    /\ evictions' = Wrap(evictions + 1)
    /\ UNCHANGED <<expiredCount, now>>

\* Set on a new key when the list is full: the back of the list goes first.
SetEvict(k, v, ttl) ==
    /\ items[k] = Nil
    /\ Len >= Capacity
    /\ \E tail \in DOMAIN ll : IsBack(tail) /\ Insert(k, v, ttl, {tail})
    /\ evictions' = Wrap(evictions + 1)
    /\ UNCHANGED <<expiredCount, now>>

Delete(k) ==
    LET e == items[k] IN
    /\ IF e = Nil
          THEN UNCHANGED <<items, ll, before, inserted>>
          ELSE /\ ll' = Without({e})
               /\ before' = OrderWithout({e})
               /\ items' = [items EXCEPT ![k] = Nil]
               /\ inserted' = Wrap(inserted - 1)
    /\ call' = <<"delete", k>> /\ reply' = Nil
    /\ UNCHANGED <<evictions, expiredCount, now, newer>>

MutPurgeExpired ==
    LET gone == {e \in DOMAIN ll : Expired(e)} IN
    /\ ll' = Without(gone)
    /\ before' = OrderWithout(gone)
    /\ items' = [k \in Keys |-> IF k \in {ll[e].key : e \in gone} THEN Nil ELSE items[k]]
    /\ call' = <<"purge">> /\ reply' = Nil
    /\ UNCHANGED <<evictions, expiredCount, now, newer, inserted>>

\* The loop from the back to the front removes exactly the expired elements.
PurgeExpired ==
    LET gone == {e \in DOMAIN ll : Expired(e)} IN
    /\ ll' = Without(gone)
    /\ before' = OrderWithout(gone)
    /\ items' = [k \in Keys |-> IF k \in {ll[e].key : e \in gone} THEN Nil ELSE items[k]]
    /\ expiredCount' = Wrap(expiredCount + Cardinality(gone))
    /\ call' = <<"purge">> /\ reply' = Nil
    /\ UNCHANGED <<evictions, now, newer, inserted>>

Tick ==
    /\ now < MaxTime
    /\ now' = now + 1
    /\ call' = <<>> /\ reply' = Nil
    /\ UNCHANGED <<items, ll, before, evictions, expiredCount, newer, inserted>>

Next ==
    \/ \E k \in Keys : GetAbsent(k) \/ GetExpired(k) \/ GetHit(k) \/ Delete(k)
    \/ \E k \in Keys, v \in Values, ttl \in TTLs :
          SetUpdate(k, v, ttl) \/ SetNew(k, v, ttl) \/ SetEvict(k, v, ttl)
    \/ PurgeExpired
    \/ Tick

Spec == Init /\ [][Next]_vars

-----------------------------------------------------------------------------
(* Properties                                                              *)

\* The map and the list describe the same items (every delete of c.items has
\* its ll.Remove, every PushFront its map entry), no more than capacity.
IndexAgrees ==
    /\ \A k \in Keys : items[k] # Nil => items[k] \in DOMAIN ll /\ ll[items[k]].key = k
    /\ \A e \in DOMAIN ll : items[ll[e].key] = e
    /\ Len <= Capacity

\* The list is ordered by last use (MoveToFront in Get and Set, PushFront):
\* of two items in it, the one nearer the front was used more recently.
RecencyOrder ==
    \A e, f \in DOMAIN ll : e # f =>
        (<<e, f>> \in before <=> <<ll[e].key, ll[f].key>> \in newer)

\* An eviction takes the least recently used key, and only that one.
EvictsLeastRecent ==
    [][\A k \in Keys :
         evictions' # evictions /\ items[k] # Nil /\ items'[k] = Nil
         => \A x \in Keys \ {k} : items[x] # Nil => items'[x] # Nil /\ <<x, k>> \in newer]_vars

\* Every key that was added is still listed, was deleted, was evicted or has
\* been counted as expired: the statistics lose no entry (modulo their width).
StatsBalance == Wrap(Len + evictions + expiredCount) = inserted

\* The map a caller sees.
Visible == [k \in Keys |-> IF items[k] = Nil THEN Nil
                           ELSE [value |-> ll[items[k]].value,
                                 expireAt |-> ll[items[k]].expireAt]]

Map == INSTANCE TTLMap WITH store <- Visible

\* The cache is a TTLMap, call by call: Get of a key returns the value last
\* set for that key unless this expired, was deleted or made room for another
\* key, and then it finds nothing (Get, Set, Delete, PurgeExpired).
ImplementsTTLMap == Map!Spec
=============================================================================
