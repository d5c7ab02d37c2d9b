------------------------- MODULE InMemoryCacheProofs -------------------------
(***************************************************************************)
(* The cache's index, capacity, recency order and statistics, and that it  *)
(* implements TTLMap, for any keys, values, capacity and lifetimes.        *)
(***************************************************************************)
EXTENDS InMemoryCache, FiniteSetTheorems, TLAPS

Structure == TypeOK /\ IsFiniteSet(DOMAIN ll) /\ IndexAgrees /\ RecencyOrder

\* The counters wrap within their range.
LEMMA WrapType == \A n \in Int : Wrap(n) \in 0 .. CounterRange - 1
  <1>1. \A n \in Int, m \in Nat \ {0} : n % m \in 0 .. m - 1
    BY Z3
  <1> QED BY <1>1, CacheConstants DEF Wrap

\* The expiry computed from any ttl is a time.
LEMMA ExpireType ==
  ASSUME TypeOK, NEW ttl \in TTLs PROVE EffectiveExpire(ttl) \in Nat
  BY CacheConstants DEF EffectiveExpire, TypeOK

\* Removing a set of elements and their keys (Get on an expired item, Delete,
\* PurgeExpired) keeps the structure.
LEMMA RemoveStep ==
  ASSUME Structure, NEW gone \in SUBSET DOMAIN ll,
         ll' = Without(gone), before' = OrderWithout(gone),
         items' = [k \in Keys |-> IF k \in {ll[e].key : e \in gone} THEN Nil ELSE items[k]],
         UNCHANGED newer
  PROVE  /\ items' \in [Keys -> Elements \cup {Nil}]
         /\ DOMAIN ll' \subseteq Elements /\ \A e \in DOMAIN ll' : ll'[e] \in Item
         /\ before' \subseteq (DOMAIN ll') \X (DOMAIN ll')
         /\ IsFiniteSet(DOMAIN ll') /\ IndexAgrees' /\ RecencyOrder'
  <1> USE DEF Structure, TypeOK
  <1>1. DOMAIN ll' = DOMAIN ll \ gone /\ \A e \in DOMAIN ll' : ll'[e] = ll[e]
    BY DEF Without
  <1>2. IsFiniteSet(DOMAIN ll') /\ Cardinality(DOMAIN ll') <= Cardinality(DOMAIN ll)
    BY <1>1, FS_Subset
  <1>3. Cardinality(DOMAIN ll') <= Capacity
    BY <1>2, FS_CardinalityType, CacheConstants DEF IndexAgrees, Len
  <1>4. /\ items' \in [Keys -> Elements \cup {Nil}]
        /\ DOMAIN ll' \subseteq Elements /\ \A e \in DOMAIN ll' : ll'[e] \in Item
    BY <1>1
  <1>5. before' \subseteq (DOMAIN ll') \X (DOMAIN ll')
    BY <1>1 DEF OrderWithout
  <1>6. \A e \in DOMAIN ll : ll[e].key \in Keys
    BY DEF Item
  <1>7. \A k \in Keys : items'[k] # Nil => items'[k] \in DOMAIN ll' /\ ll'[items'[k]].key = k
    BY <1>1, <1>6 DEF IndexAgrees
  <1>8. \A e \in DOMAIN ll' : items'[ll'[e].key] = e
    BY <1>1, <1>6 DEF IndexAgrees
  <1>9. RecencyOrder'
    BY <1>1 DEF RecencyOrder, OrderWithout
  <1> QED BY <1>2, <1>3, <1>4, <1>5, <1>7, <1>8, <1>9 DEF IndexAgrees, Len

\* Moving the element of key k to the front (Get on a live item, Set on a
\* present key) keeps the structure.
LEMMA FrontStep ==
  ASSUME Structure, NEW k \in Keys, items[k] # Nil,
         DOMAIN ll' = DOMAIN ll, \A e \in DOMAIN ll : ll'[e].key = ll[e].key,
         before' = OrderWithout({items[k]}) \cup FrontOf(items[k], DOMAIN ll \ {items[k]}),
         UNCHANGED items, Touch(k)
  PROVE  /\ before' \subseteq (DOMAIN ll') \X (DOMAIN ll') /\ newer' \subseteq Keys \X Keys
         /\ IsFiniteSet(DOMAIN ll') /\ IndexAgrees' /\ RecencyOrder'
  <1> USE DEF Structure, TypeOK
  <1> DEFINE e == items[k]
  <1>1. e \in DOMAIN ll /\ ll[e].key = k
    BY DEF IndexAgrees
  <1>2. \A f \in DOMAIN ll : ll[f].key \in Keys /\ (f # e => ll[f].key # k)
    BY DEF IndexAgrees, Item
  <1>3. before' \subseteq (DOMAIN ll') \X (DOMAIN ll')
    BY <1>1 DEF OrderWithout, FrontOf
  <1>4. newer' \subseteq Keys \X Keys
    BY DEF Touch
  <1>5. IndexAgrees' /\ IsFiniteSet(DOMAIN ll')
    BY DEF IndexAgrees, Len
  <1>6. RecencyOrder'
    <2> SUFFICES ASSUME NEW f \in DOMAIN ll', NEW h \in DOMAIN ll', f # h
                 PROVE  <<f, h>> \in before' <=> <<ll'[f].key, ll'[h].key>> \in newer'
      BY DEF RecencyOrder
    <2>0. f \in DOMAIN ll /\ h \in DOMAIN ll /\ ll'[f].key = ll[f].key /\ ll'[h].key = ll[h].key
      OBVIOUS
    <2>1. CASE f = e
      BY <1>1, <1>2, <2>0, <2>1 DEF FrontOf, Touch
    <2>2. CASE h = e
      BY <1>1, <1>2, <2>0, <2>2 DEF OrderWithout, FrontOf, Touch
    <2>3. CASE f # e /\ h # e
      BY <1>1, <1>2, <2>0, <2>3 DEF OrderWithout, FrontOf, Touch, RecencyOrder
    <2> QED BY <2>1, <2>2, <2>3
  <1> QED BY <1>3, <1>4, <1>5, <1>6

\* Adding an element for a key that is absent (Set), after the removal of the
\* elements of gone, keeps the structure if there is room.
LEMMA InsertStep ==
  ASSUME Structure, NEW k \in Keys, NEW v \in Values, NEW ttl \in TTLs,
         NEW gone \in SUBSET DOMAIN ll, items[k] = Nil, Insert(k, v, ttl, gone),
         Cardinality(DOMAIN ll \ gone) < Capacity
  PROVE  /\ items' \in [Keys -> Elements \cup {Nil}]
         /\ DOMAIN ll' \subseteq Elements /\ \A e \in DOMAIN ll' : ll'[e] \in Item
         /\ before' \subseteq (DOMAIN ll') \X (DOMAIN ll') /\ newer' \subseteq Keys \X Keys
         /\ IsFiniteSet(DOMAIN ll') /\ IndexAgrees' /\ RecencyOrder'
         /\ reply' = Nil /\ inserted' = Wrap(inserted + 1)
  <1> USE DEF Structure, TypeOK
  <1> DEFINE new == [key |-> k, value |-> v, expireAt |-> EffectiveExpire(ttl)]
             old == DOMAIN ll \ gone
  <1>1. PICK e \in Elements \ old :
          /\ ll' = [x \in old \cup {e} |-> IF x = e THEN new ELSE ll[x]]
          /\ before' = OrderWithout(gone) \cup FrontOf(e, old)
          /\ items' = [x \in Keys |-> IF x = k THEN e
                                      ELSE IF x \in {ll[g].key : g \in gone} THEN Nil
                                      ELSE items[x]]
    BY DEF Insert
  <1>2. Touch(k) /\ reply' = Nil /\ inserted' = Wrap(inserted + 1)
    BY DEF Insert
  <1>3. /\ DOMAIN ll' = old \cup {e} /\ e \notin old
        /\ ll'[e] = new /\ \A x \in old : ll'[x] = ll[x] /\ x # e
    BY <1>1
  <1>4. new \in Item /\ new.key = k
    BY ExpireType DEF Item
  <1>5. \A x \in DOMAIN ll : ll[x].key \in Keys /\ ll[x].key # k
    BY CacheConstants DEF IndexAgrees, Item
  <1> HIDE DEF new
  <1>6. /\ items' \in [Keys -> Elements \cup {Nil}]
        /\ DOMAIN ll' \subseteq Elements /\ \A x \in DOMAIN ll' : ll'[x] \in Item
    BY <1>1, <1>3, <1>4
  <1>7. before' \subseteq (DOMAIN ll') \X (DOMAIN ll')
    BY <1>1, <1>3 DEF OrderWithout, FrontOf
  <1>8. newer' \subseteq Keys \X Keys
    BY <1>2 DEF Touch
  <1>9. IsFiniteSet(DOMAIN ll') /\ Cardinality(DOMAIN ll') <= Capacity
    <2>1. IsFiniteSet(old) /\ Cardinality(old) \in Nat
      BY FS_Subset, FS_CardinalityType
    <2>2. IsFiniteSet(old \cup {e}) /\ Cardinality(old \cup {e}) = Cardinality(old) + 1
      <3> HIDE DEF old
      <3> QED BY <1>3, <2>1, FS_AddElement
    <2> QED BY <1>3, <2>1, <2>2, CacheConstants
  <1>10. \A x \in Keys : items'[x] # Nil => items'[x] \in DOMAIN ll' /\ ll'[items'[x]].key = x
    BY <1>1, <1>3, <1>4, <1>5 DEF IndexAgrees
  <1>11. \A x \in DOMAIN ll' : items'[ll'[x].key] = x
    BY <1>1, <1>3, <1>4, <1>5 DEF IndexAgrees
  <1>12. RecencyOrder'
    <2> SUFFICES ASSUME NEW f \in DOMAIN ll', NEW h \in DOMAIN ll', f # h
                 PROVE  <<f, h>> \in before' <=> <<ll'[f].key, ll'[h].key>> \in newer'
      BY DEF RecencyOrder
    <2>1. CASE f = e
      <3>1. h \in old /\ ll'[f].key = k /\ ll'[h].key \in Keys \ {k}
        BY <1>3, <1>4, <1>5, <2>1
      <3> QED BY <1>1, <1>2, <2>1, <3>1 DEF FrontOf, Touch
    <2>2. CASE h = e
      <3>1. f \in old /\ ll'[h].key = k /\ ll'[f].key # k
        BY <1>3, <1>4, <1>5, <2>2
      <3>2. <<f, h>> \notin FrontOf(e, old)
        BY <2>2 DEF FrontOf
      <3>3. <<f, h>> \notin OrderWithout(gone)
        BY <1>3, <2>2 DEF OrderWithout
      <3>4. <<ll'[f].key, ll'[h].key>> \notin newer'
        BY <1>2, <3>1 DEF Touch
      <3> QED BY <1>1, <3>2, <3>3, <3>4
    <2>3. CASE f # e /\ h # e
      <3>1. f \in old /\ h \in old /\ ll'[f] = ll[f] /\ ll'[h] = ll[h]
        BY <1>3, <2>3
      <3>2. <<f, h>> \in before' <=> <<f, h>> \in before
        BY <1>1, <2>3, <3>1 DEF OrderWithout, FrontOf
      <3>3. <<ll[f].key, ll[h].key>> \in newer' <=> <<ll[f].key, ll[h].key>> \in newer
        BY <1>2, <1>5, <3>1 DEF Touch
      <3> QED BY <3>1, <3>2, <3>3 DEF RecencyOrder
    <2> QED BY <2>1, <2>2, <2>3
  <1> QED BY <1>2, <1>6, <1>7, <1>8, <1>9, <1>10, <1>11, <1>12 DEF IndexAgrees, Len

\* Every step records the call it is.
LEMMA CallStep == TypeOK /\ [Next]_vars => call' \in Calls
  <1> SUFFICES ASSUME TypeOK, [Next]_vars PROVE call' \in Calls
    OBVIOUS
  <1>1. ASSUME NEW k \in Keys, GetAbsent(k) \/ GetExpired(k) \/ GetHit(k) PROVE call' \in Calls
    <2>1. call' = <<"get", k>>
      BY <1>1 DEF GetAbsent, GetExpired, GetHit
    <2> QED BY <2>1 DEF Calls
  <1>2. ASSUME NEW k \in Keys, Delete(k) PROVE call' \in Calls
    <2>1. call' = <<"delete", k>>
      BY <1>2 DEF Delete
    <2> QED BY <2>1 DEF Calls
  <1>3. ASSUME NEW k \in Keys, NEW v \in Values, NEW ttl \in TTLs,
               SetUpdate(k, v, ttl) \/ SetNew(k, v, ttl) \/ SetEvict(k, v, ttl)
        PROVE  call' \in Calls
    <2>1. call' = <<"set", k, v, ttl>>
      BY <1>3 DEF SetUpdate, SetNew, SetEvict, Insert
    <2> QED BY <2>1 DEF Calls
  <1>4. CASE PurgeExpired
    BY <1>4 DEF PurgeExpired, Calls
  <1>5. CASE Tick
    BY <1>5 DEF Tick, Calls
  <1>6. CASE UNCHANGED vars
    BY <1>6 DEF vars, TypeOK
  <1> QED BY <1>1, <1>2, <1>3, <1>4, <1>5, <1>6 DEF Next

\* Every step keeps the structure.
LEMMA StructureStep == Structure /\ [Next]_vars => Structure'
  <1> SUFFICES ASSUME Structure, [Next]_vars PROVE Structure'
    OBVIOUS
  <1>0. /\ TypeOK /\ IndexAgrees /\ RecencyOrder /\ IsFiniteSet(DOMAIN ll)
        /\ call' \in Calls
    BY CallStep DEF Structure
  <1>1. ASSUME NEW k \in Keys, GetAbsent(k) PROVE Structure'
    BY <1>0, <1>1 DEF GetAbsent, Structure, TypeOK, IndexAgrees, RecencyOrder, Len
  <1>2. ASSUME NEW k \in Keys, items[k] # Nil
        PROVE  /\ items[k] \in DOMAIN ll /\ ll[items[k]].key = k
               /\ [items EXCEPT ![k] = Nil]
                    = [x \in Keys |-> IF x \in {ll[e].key : e \in {items[k]}} THEN Nil ELSE items[x]]
    <2>1. items[k] \in DOMAIN ll /\ ll[items[k]].key = k
      BY <1>0, <1>2 DEF IndexAgrees
    <2>2. {ll[e].key : e \in {items[k]}} = {k}
      BY <2>1
    <2>3. [items EXCEPT ![k] = Nil] = [x \in Keys |-> IF x \in {k} THEN Nil ELSE items[x]]
      BY <1>0 DEF TypeOK
    <2> QED BY <2>1, <2>2, <2>3
  <1>3. ASSUME NEW k \in Keys, GetExpired(k) PROVE Structure'
    <2>1. /\ items[k] # Nil /\ ll' = Without({items[k]}) /\ before' = OrderWithout({items[k]})
          /\ items' = [items EXCEPT ![k] = Nil] /\ UNCHANGED newer
      BY <1>3 DEF GetExpired
    <2>2. /\ items' \in [Keys -> Elements \cup {Nil}]
          /\ DOMAIN ll' \subseteq Elements /\ \A e \in DOMAIN ll' : ll'[e] \in Item
          /\ before' \subseteq (DOMAIN ll') \X (DOMAIN ll')
          /\ IsFiniteSet(DOMAIN ll') /\ IndexAgrees' /\ RecencyOrder'
      BY <1>2, <2>1, RemoveStep
    <2>3. /\ expiredCount' = Wrap(expiredCount + 1) /\ reply' = Nil
          /\ UNCHANGED <<evictions, now, newer, inserted>>
      BY <1>3 DEF GetExpired
    <2>4. expiredCount' \in 0 .. CounterRange - 1
      BY <1>0, <2>3, WrapType, CacheConstants DEF TypeOK
    <2> QED BY <1>0, <2>2, <2>3, <2>4 DEF Structure, TypeOK
  <1>4. ASSUME NEW k \in Keys, GetHit(k) PROVE Structure'
    <2>1. /\ items[k] # Nil /\ ll' = ll
          /\ before' = OrderWithout({items[k]}) \cup FrontOf(items[k], DOMAIN ll \ {items[k]})
          /\ UNCHANGED items /\ Touch(k)
      BY <1>4 DEF GetHit
    <2>2. /\ before' \subseteq (DOMAIN ll') \X (DOMAIN ll') /\ newer' \subseteq Keys \X Keys
          /\ IsFiniteSet(DOMAIN ll') /\ IndexAgrees' /\ RecencyOrder'
      BY <2>1, FrontStep
    <2>3. /\ reply' = ll[items[k]].value /\ UNCHANGED <<evictions, expiredCount, now, inserted>>
      BY <1>4 DEF GetHit
    <2>4. reply' \in Values
      BY <1>0, <1>2, <2>1, <2>3 DEF TypeOK, Item
    <2> QED BY <1>0, <2>1, <2>2, <2>3, <2>4 DEF Structure, TypeOK
  <1>5. ASSUME NEW k \in Keys, Delete(k) PROVE Structure'
    <2>1. CASE items[k] = Nil
      BY <1>0, <1>5, <2>1 DEF Delete, Structure, TypeOK, IndexAgrees, RecencyOrder, Len
    <2>2. CASE items[k] # Nil
      <3>1. /\ ll' = Without({items[k]}) /\ before' = OrderWithout({items[k]})
            /\ items' = [items EXCEPT ![k] = Nil] /\ inserted' = Wrap(inserted - 1)
            /\ reply' = Nil /\ UNCHANGED <<evictions, expiredCount, now, newer>>
        BY <1>5, <2>2 DEF Delete
      <3>2. /\ items' \in [Keys -> Elements \cup {Nil}]
            /\ DOMAIN ll' \subseteq Elements /\ \A e \in DOMAIN ll' : ll'[e] \in Item
            /\ before' \subseteq (DOMAIN ll') \X (DOMAIN ll')
            /\ IsFiniteSet(DOMAIN ll') /\ IndexAgrees' /\ RecencyOrder'
        BY <1>2, <2>2, <3>1, RemoveStep
      <3>3. inserted' \in 0 .. CounterRange - 1
        BY <1>0, <3>1, WrapType, CacheConstants DEF TypeOK
      <3> QED BY <1>0, <3>1, <3>2, <3>3 DEF Structure, TypeOK
    <2> QED BY <2>1, <2>2
  <1>6. ASSUME NEW k \in Keys, NEW v \in Values, NEW ttl \in TTLs, SetUpdate(k, v, ttl)
        PROVE  Structure'
    <2>1. /\ items[k] # Nil
          /\ ll' = [ll EXCEPT ![items[k]].value = v, ![items[k]].expireAt = EffectiveExpire(ttl)]
          /\ before' = OrderWithout({items[k]}) \cup FrontOf(items[k], DOMAIN ll \ {items[k]})
          /\ UNCHANGED items /\ Touch(k)
          /\ reply' = Nil /\ UNCHANGED <<evictions, expiredCount, now, inserted>>
      BY <1>6 DEF SetUpdate
    <2>2. EffectiveExpire(ttl) \in Nat
      BY <1>0, ExpireType
    <2>3. /\ DOMAIN ll' = DOMAIN ll /\ \A e \in DOMAIN ll : ll'[e].key = ll[e].key
          /\ \A e \in DOMAIN ll : ll'[e] \in Item
      BY <1>0, <1>2, <2>1, <2>2 DEF TypeOK, Item
    <2>4. /\ before' \subseteq (DOMAIN ll') \X (DOMAIN ll') /\ newer' \subseteq Keys \X Keys
          /\ IsFiniteSet(DOMAIN ll') /\ IndexAgrees' /\ RecencyOrder'
      BY <2>1, <2>3, FrontStep
    <2> QED BY <1>0, <2>1, <2>3, <2>4 DEF Structure, TypeOK
  <1>7. ASSUME NEW k \in Keys, NEW v \in Values, NEW ttl \in TTLs,
               SetNew(k, v, ttl) \/ SetEvict(k, v, ttl)
        PROVE  Structure'
    <2>1. \E gone \in SUBSET DOMAIN ll : items[k] = Nil /\ Insert(k, v, ttl, gone)
                                         /\ Cardinality(DOMAIN ll \ gone) < Capacity
      <3>1. CASE SetNew(k, v, ttl)
        <4>1. DOMAIN ll \ {} = DOMAIN ll
          OBVIOUS
        <4> QED BY <3>1, <4>1 DEF SetNew, Len
      <3>2. CASE SetEvict(k, v, ttl)
        <4>1. PICK tail \in DOMAIN ll : Insert(k, v, ttl, {tail})
          BY <3>2 DEF SetEvict
        <4>2. Cardinality(DOMAIN ll \ {tail}) = Cardinality(DOMAIN ll) - 1
          BY <1>0, <4>1, FS_RemoveElement
        <4>3. Cardinality(DOMAIN ll) <= Capacity /\ Cardinality(DOMAIN ll) \in Nat
          BY <1>0, FS_CardinalityType DEF IndexAgrees, Len
        <4>4. Cardinality(DOMAIN ll \ {tail}) < Capacity
          BY <4>2, <4>3, CacheConstants
        <4> QED BY <3>2, <4>1, <4>4 DEF SetEvict
      <3> QED BY <1>7, <3>1, <3>2
    <2>2. /\ items' \in [Keys -> Elements \cup {Nil}]
          /\ DOMAIN ll' \subseteq Elements /\ \A e \in DOMAIN ll' : ll'[e] \in Item
          /\ before' \subseteq (DOMAIN ll') \X (DOMAIN ll') /\ newer' \subseteq Keys \X Keys
          /\ IsFiniteSet(DOMAIN ll') /\ IndexAgrees' /\ RecencyOrder'
          /\ reply' = Nil /\ inserted' = Wrap(inserted + 1)
      BY <2>1, InsertStep
    <2>3. evictions' \in {evictions, Wrap(evictions + 1)} /\ UNCHANGED <<expiredCount, now>>
      BY <1>7 DEF SetNew, SetEvict
    <2>4. evictions' \in 0 .. CounterRange - 1 /\ inserted' \in 0 .. CounterRange - 1
      BY <1>0, <2>2, <2>3, WrapType, CacheConstants DEF TypeOK
    <2> QED BY <1>0, <2>2, <2>3, <2>4 DEF Structure, TypeOK
  <1>8. CASE PurgeExpired
    <2> DEFINE gone == {e \in DOMAIN ll : Expired(e)}
    <2>1. /\ ll' = Without(gone) /\ before' = OrderWithout(gone)
          /\ items' = [k \in Keys |-> IF k \in {ll[e].key : e \in gone} THEN Nil ELSE items[k]]
          /\ expiredCount' = Wrap(expiredCount + Cardinality(gone))
          /\ reply' = Nil /\ UNCHANGED <<evictions, now, newer, inserted>>
      BY <1>8 DEF PurgeExpired
    <2>2. gone \in SUBSET DOMAIN ll
      OBVIOUS
    <2>3. Cardinality(gone) \in Nat
      BY <1>0, <2>2, FS_Subset, FS_CardinalityType
    <2> HIDE DEF gone
    <2>4. /\ items' \in [Keys -> Elements \cup {Nil}]
          /\ DOMAIN ll' \subseteq Elements /\ \A e \in DOMAIN ll' : ll'[e] \in Item
          /\ before' \subseteq (DOMAIN ll') \X (DOMAIN ll')
          /\ IsFiniteSet(DOMAIN ll') /\ IndexAgrees' /\ RecencyOrder'
      BY <2>1, <2>2, RemoveStep
    <2>5. expiredCount' \in 0 .. CounterRange - 1
      BY <1>0, <2>1, <2>3, WrapType, CacheConstants DEF TypeOK
    <2> QED BY <1>0, <2>1, <2>4, <2>5 DEF Structure, TypeOK
  <1>9. CASE Tick
    BY <1>0, <1>9, CacheConstants DEF Tick, Structure, TypeOK, IndexAgrees, RecencyOrder, Len
  <1>10. CASE UNCHANGED vars
    BY <1>0, <1>10 DEF vars, Structure, TypeOK, IndexAgrees, RecencyOrder, Len
  <1> QED BY <1>1, <1>3, <1>4, <1>5, <1>6, <1>7, <1>8, <1>9, <1>10 DEF Next

\* The empty cache of NewInMemoryCache has the structure.
LEMMA StructureInit == Init => Structure
  <1> SUFFICES ASSUME Init PROVE Structure
    OBVIOUS
  <1>1. DOMAIN ll = {}
    BY DEF Init
  <1>2. Cardinality(DOMAIN ll) = 0 /\ IsFiniteSet(DOMAIN ll)
    BY <1>1, FS_EmptySet
  <1>3. IndexAgrees /\ RecencyOrder
    BY <1>1, <1>2, CacheConstants DEF Init, IndexAgrees, RecencyOrder, Len
  <1>4. call \in Calls
    BY DEF Init, Calls
  <1> QED BY <1>1, <1>2, <1>3, <1>4, CacheConstants DEF Init, Structure, TypeOK

\* It holds always.
LEMMA StructureAlways == Spec => []Structure
  BY StructureInit, StructureStep, PTL DEF Spec

\* For any keys, values, lifetimes and capacity: the map, the list and the
\* statistics of the cache keep their shape, and the counters their width.
THEOREM CacheTypes == Spec => []TypeOK
  <1>1. Structure => TypeOK
    BY DEF Structure
  <1> QED BY <1>1, StructureAlways, PTL

\* The map and the list of InMemoryCache describe the same items, at most
\* capacity of them.
THEOREM CacheIndex == Spec => []IndexAgrees
  <1>1. Structure => IndexAgrees
    BY DEF Structure
  <1> QED BY <1>1, StructureAlways, PTL

\* The list is ordered by last use, whatever Get, Set, Delete, PurgeExpired and
\* evictions did to it.
THEOREM CacheRecency == Spec => []RecencyOrder
  <1>1. Structure => RecencyOrder
    BY DEF Structure
  <1> QED BY <1>1, StructureAlways, PTL

\* For any capacity: the key an eviction takes was used less recently than
\* every other key in the cache, and no other key goes with it.
THEOREM EvictionIsLRU == Spec => EvictsLeastRecent
  <1> DEFINE LRU == \A k \in Keys :
                evictions' # evictions /\ items[k] # Nil /\ items'[k] = Nil
                => \A x \in Keys \ {k} : items[x] # Nil => items'[x] # Nil /\ <<x, k>> \in newer
  <1>1. Structure /\ [Next]_vars => [LRU]_vars
    <2> SUFFICES ASSUME Structure, Next, NEW k \in Keys,
                        evictions' # evictions, items[k] # Nil, items'[k] = Nil,
                        NEW x \in Keys \ {k}, items[x] # Nil
                 PROVE  items'[x] # Nil /\ <<x, k>> \in newer
      OBVIOUS
    <2>1. PICK y \in Keys, v \in Values, ttl \in TTLs : SetEvict(y, v, ttl)
      BY DEF Next, GetAbsent, GetExpired, GetHit, Delete, SetUpdate, SetNew, PurgeExpired, Tick
    <2>2. PICK tail \in DOMAIN ll : IsBack(tail) /\ Insert(y, v, ttl, {tail})
      BY <2>1 DEF SetEvict
    <2>3. PICK e \in Elements :
            items' = [z \in Keys |-> IF z = y THEN e
                                     ELSE IF z \in {ll[g].key : g \in {tail}} THEN Nil
                                     ELSE items[z]]
      BY <2>2 DEF Insert
    <2>4. IndexAgrees /\ RecencyOrder /\ items[y] = Nil /\ Nil \notin Elements
      BY <2>1, CacheConstants DEF Structure, SetEvict
    <2>5. k = ll[tail].key /\ k # y
      BY <2>3, <2>4
    <2>6. items'[x] # Nil
      BY <2>3, <2>4, <2>5
    <2>7. items[x] \in DOMAIN ll /\ ll[items[x]].key = x /\ items[x] # tail
      BY <2>4, <2>5 DEF IndexAgrees
    <2>8. <<items[x], tail>> \in before
      BY <2>2, <2>7 DEF IsBack
    <2>9. <<x, k>> \in newer
      BY <2>2, <2>4, <2>5, <2>7, <2>8 DEF RecencyOrder
    <2> QED BY <2>6, <2>9
  <1> QED BY StructureAlways, <1>1, PTL DEF Spec, EvictsLeastRecent

-----------------------------------------------------------------------------
(* The statistics.  A counter that wrapped still counts modulo its range.  *)

\* Division with remainder.
LEMMA Divides ==
  ASSUME NEW m \in Nat \ {0}, NEW a \in Int
  PROVE  \E q \in Int, r \in 0 .. m - 1 : a = m * q + r /\ r = a % m
  <1>1. a = m * (a \div m) + (a % m)
    BY Z3
  <1>2. a \div m \in Int
    BY Z3
  <1>3. a % m \in 0 .. m - 1
    BY Z3
  <1>4. a % m = a % m
    OBVIOUS
  <1> QED BY <1>1, <1>2, <1>3, <1>4, Zenon

\* The remainder is unique.
LEMMA SameRest ==
  ASSUME NEW m \in Nat \ {0}, NEW p \in Int, NEW q \in Int,
         NEW r \in 0 .. m - 1, NEW s \in 0 .. m - 1, m * p + r = m * q + s
  PROVE  r = s
  <1>1. \A d \in Int : m * d < m /\ -m < m * d => d = 0
    BY Z3
  <1>2. m * (p - q) = s - r
    BY Z3
  <1>3. p - q = 0
    BY <1>1, <1>2
  <1> QED BY <1>2, <1>3

\* Wrapping a summand first makes no difference.
LEMMA WrapSum ==
  ASSUME NEW a \in Int, NEW b \in Int
  PROVE  Wrap(Wrap(a) + b) = Wrap(a + b)
  <1>0. PICK m \in Nat \ {0} : m = CounterRange
    BY CacheConstants
  <1>1. PICK p \in Int, r \in 0 .. m - 1 : a = m * p + r /\ r = a % m
    BY Divides
  <1>2. r + b \in Int /\ a + b \in Int
    OBVIOUS
  <1>3. PICK q \in Int, s \in 0 .. m - 1 : r + b = m * q + s /\ s = (r + b) % m
    BY <1>2, Divides
  <1>4. PICK u \in Int, t \in 0 .. m - 1 : a + b = m * u + t /\ t = (a + b) % m
    BY <1>2, Divides
  <1>5. m * (p + q) + s = m * u + t
    <2>1. m * (p + q) = m * p + m * q
      BY Z3
    <2> QED BY <1>1, <1>2, <1>3, <1>4, <2>1
  <1>6. s = t
    BY <1>5, SameRest
  <1> QED BY <1>0, <1>1, <1>3, <1>4, <1>6 DEF Wrap

\* Counting what is taken off the list as expired keeps the balance.
LEMMA RemovalCounted ==
  ASSUME Structure, StatsBalance, NEW gone \in SUBSET DOMAIN ll, ll' = Without(gone),
         expiredCount' = Wrap(expiredCount + Cardinality(gone)),
         UNCHANGED <<evictions, inserted>>
  PROVE  StatsBalance'
  <1>1. IsFiniteSet(DOMAIN ll) /\ DOMAIN ll' = DOMAIN ll \ gone
    BY DEF Structure, Without
  <1>2. /\ IsFiniteSet(gone) /\ Cardinality(gone) \in Nat
        /\ Cardinality(DOMAIN ll) \in Nat /\ Cardinality(DOMAIN ll') \in Nat
    BY <1>1, FS_Subset, FS_CardinalityType
  <1>3. Cardinality(DOMAIN ll') = Cardinality(DOMAIN ll) - Cardinality(gone)
    <2>1. DOMAIN ll \cap gone = gone
      OBVIOUS
    <2>2. Cardinality(DOMAIN ll \ gone) = Cardinality(DOMAIN ll) - Cardinality(DOMAIN ll \cap gone)
      BY <1>1, FS_Difference
    <2> QED BY <1>1, <2>1, <2>2
  <1>4. evictions \in Nat /\ expiredCount \in Nat
    BY CacheConstants DEF Structure, TypeOK
  <1>5. PICK x \in Int, y \in Int : x = expiredCount + Cardinality(gone) /\ y = Len' + evictions
    BY <1>2, <1>4 DEF Len
  <1>6. Wrap(Wrap(x) + y) = Wrap(x + y)
    BY WrapSum
  <1>7. Wrap(x) \in Int
    BY WrapType
  <1>8. /\ Wrap(x) + y = Len' + evictions + Wrap(x)
        /\ x + y = Len + evictions + expiredCount
    BY <1>2, <1>3, <1>4, <1>5, <1>7 DEF Len
  <1> QED BY <1>5, <1>6, <1>8 DEF StatsBalance

\* A key that is added (d = 1) or deleted (d = -1) changes the list's length, or
\* the evictions, by as much as inserted.
LEMMA InsertionCounted ==
  ASSUME Structure, StatsBalance, NEW d \in {-1, 1},
         inserted' = Wrap(inserted + d), UNCHANGED expiredCount,
         \/ Len' = Len + d /\ evictions' = evictions
         \/ Len' = Len /\ evictions' = Wrap(evictions + d)
  PROVE  StatsBalance'
  <1>1. Len \in Nat /\ evictions \in Nat /\ expiredCount \in Nat
    BY FS_CardinalityType, CacheConstants DEF Structure, TypeOK, Len
  <1>2. PICK x \in Int : x = Len + evictions + expiredCount
    BY <1>1
  <1>3. inserted' = Wrap(x + d)
    BY <1>2, WrapSum DEF StatsBalance
  <1>4. CASE Len' = Len + d /\ evictions' = evictions
    <2>1. Len' + evictions' + expiredCount' = x + d
      BY <1>1, <1>2, <1>4
    <2> QED BY <1>3, <2>1 DEF StatsBalance
  <1>5. CASE Len' = Len /\ evictions' = Wrap(evictions + d)
    <2>1. PICK y \in Int, z \in Int : y = evictions + d /\ z = Len + expiredCount
      BY <1>1
    <2>2. Wrap(Wrap(y) + z) = Wrap(y + z)
      BY WrapSum
    <2>3. Wrap(y) \in Int
      BY WrapType
    <2>4. y + z = x + d /\ Wrap(y) + z = Len' + evictions' + expiredCount'
      BY <1>1, <1>2, <1>5, <2>1, <2>3
    <2> QED BY <1>3, <2>2, <2>4 DEF StatsBalance
  <1> QED BY <1>4, <1>5

\* Every step keeps the balance.
LEMMA BalanceStep == Structure /\ StatsBalance /\ [Next]_vars => StatsBalance'
  <1> SUFFICES ASSUME Structure, StatsBalance, [Next]_vars PROVE StatsBalance'
    OBVIOUS
  <1>0. TypeOK /\ IndexAgrees /\ IsFiniteSet(DOMAIN ll)
    BY DEF Structure
  <1>1. CASE UNCHANGED vars
    BY <1>1 DEF vars, StatsBalance, Len
  <1>2. ASSUME NEW k \in Keys, GetAbsent(k) \/ GetHit(k) PROVE StatsBalance'
    BY <1>2 DEF GetAbsent, GetHit, StatsBalance, Len
  <1>3. ASSUME NEW k \in Keys, GetExpired(k) PROVE StatsBalance'
    <2>1. items[k] \in DOMAIN ll
      BY <1>0, <1>3 DEF GetExpired, IndexAgrees
    <2>2. PICK e \in DOMAIN ll : e = items[k]
      BY <2>1
    <2>3. Cardinality({e}) = 1
      BY FS_Singleton
    <2>4. /\ ll' = Without({e}) /\ expiredCount' = Wrap(expiredCount + Cardinality({e}))
          /\ UNCHANGED <<evictions, inserted>>
      BY <1>3, <2>2, <2>3 DEF GetExpired
    <2> QED BY <2>2, <2>4, RemovalCounted
  <1>4. ASSUME NEW k \in Keys, Delete(k) PROVE StatsBalance'
    <2>1. CASE items[k] = Nil
      BY <1>4, <2>1 DEF Delete, StatsBalance, Len
    <2>2. CASE items[k] # Nil
      <3>1. items[k] \in DOMAIN ll
        BY <1>0, <2>2 DEF IndexAgrees
      <3>2. DOMAIN ll' = DOMAIN ll \ {items[k]}
        BY <1>4, <2>2 DEF Delete, Without
      <3>3. Len' = Len - 1 /\ Len \in Nat
        BY <1>0, <3>1, <3>2, FS_RemoveElement, FS_CardinalityType DEF Len
      <3>4. inserted' = Wrap(inserted - 1) /\ UNCHANGED <<evictions, expiredCount>>
        BY <1>4, <2>2 DEF Delete
      <3>5. inserted - 1 = inserted + (-1) /\ Len' = Len + (-1)
        BY <1>0, <3>3, CacheConstants DEF TypeOK
      <3> QED BY <3>4, <3>5, InsertionCounted
    <2> QED BY <2>1, <2>2
  <1>5. ASSUME NEW k \in Keys, NEW v \in Values, NEW ttl \in TTLs, SetUpdate(k, v, ttl)
        PROVE  StatsBalance'
    <2>1. DOMAIN ll' = DOMAIN ll /\ UNCHANGED <<evictions, expiredCount, inserted>>
      BY <1>5 DEF SetUpdate
    <2> QED BY <2>1 DEF StatsBalance, Len
  <1>6. ASSUME NEW k \in Keys, NEW v \in Values, NEW ttl \in TTLs, SetNew(k, v, ttl)
        PROVE  StatsBalance'
    <2>1. PICK e \in Elements \ DOMAIN ll : DOMAIN ll' = DOMAIN ll \cup {e}
      BY <1>6 DEF SetNew, Insert
    <2>2. Len' = Len + 1
      BY <1>0, <2>1, FS_AddElement DEF Len
    <2>3. inserted' = Wrap(inserted + 1) /\ UNCHANGED <<evictions, expiredCount>>
      BY <1>6 DEF SetNew, Insert
    <2> QED BY <2>2, <2>3, InsertionCounted
  <1>7. ASSUME NEW k \in Keys, NEW v \in Values, NEW ttl \in TTLs, SetEvict(k, v, ttl)
        PROVE  StatsBalance'
    <2>1. PICK tail \in DOMAIN ll : Insert(k, v, ttl, {tail})
      BY <1>7 DEF SetEvict
    <2>2. PICK e \in Elements \ (DOMAIN ll \ {tail}) : DOMAIN ll' = (DOMAIN ll \ {tail}) \cup {e}
      BY <2>1 DEF Insert
    <2>3. /\ IsFiniteSet(DOMAIN ll \ {tail})
          /\ Cardinality(DOMAIN ll \ {tail}) = Cardinality(DOMAIN ll) - 1
          /\ Cardinality(DOMAIN ll) \in Nat
      BY <1>0, <2>1, FS_RemoveElement, FS_CardinalityType
    <2>4. Cardinality(DOMAIN ll') = Cardinality(DOMAIN ll \ {tail}) + 1
      BY <2>2, <2>3, FS_AddElement
    <2>5. Len' = Len
      BY <2>3, <2>4 DEF Len
    <2>6. inserted' = Wrap(inserted + 1)
      BY <2>1 DEF Insert
    <2>7. evictions' = Wrap(evictions + 1) /\ UNCHANGED expiredCount
      BY <1>7 DEF SetEvict
    <2> QED BY <2>5, <2>6, <2>7, InsertionCounted
  <1>8. CASE PurgeExpired
    <2>1. PICK gone \in SUBSET DOMAIN ll : gone = {e \in DOMAIN ll : Expired(e)}
      OBVIOUS
    <2>2. /\ ll' = Without(gone) /\ expiredCount' = Wrap(expiredCount + Cardinality(gone))
          /\ UNCHANGED <<evictions, inserted>>
      BY <1>8, <2>1 DEF PurgeExpired
    <2> QED BY <2>2, RemovalCounted
  <1>9. CASE Tick
    BY <1>9 DEF Tick, StatsBalance, Len
  <1> QED BY <1>1, <1>2, <1>3, <1>4, <1>5, <1>6, <1>7, <1>8, <1>9 DEF Next

\* For any width of the counters: every key that was added is still in the
\* list, was deleted, was evicted or has been counted as expired.
THEOREM StatisticsBalance == Spec => []StatsBalance
  <1>1. Init => StatsBalance
    <2> SUFFICES ASSUME Init PROVE StatsBalance
      OBVIOUS
    <2>1. Len = 0
      BY FS_EmptySet DEF Init, Len
    <2>2. \A m \in Nat \ {0} : 0 % m = 0
      BY Z3
    <2> QED BY <2>1, <2>2, CacheConstants DEF Init, StatsBalance, Wrap
  <1> QED BY <1>1, StructureAlways, BalanceStep, PTL DEF Spec

-----------------------------------------------------------------------------
(* The cache implements TTLMap.                                            *)

\* What the visible map shows of a key.
LEMMA VisibleEntry ==
  ASSUME Structure, NEW k \in Keys
  PROVE  /\ Visible[k] = Nil <=> items[k] = Nil
         /\ items[k] # Nil => /\ items[k] \in DOMAIN ll
                              /\ Visible[k] = [value |-> ll[items[k]].value,
                                               expireAt |-> ll[items[k]].expireAt]
                              /\ Map!Dead(k) <=> Expired(items[k])
  <1>1. items[k] # Nil => items[k] \in DOMAIN ll /\ ll[items[k]] \in Item
    BY DEF Structure, IndexAgrees, TypeOK
  <1>2. items[k] # Nil => [value |-> ll[items[k]].value, expireAt |-> ll[items[k]].expireAt]
                            \in [value : Values, expireAt : Nat]
    BY <1>1 DEF Item
  <1> QED BY <1>1, <1>2, CacheConstants DEF Visible, Map!Dead, Expired

\* As many keys are present as elements are in the list.
LEMMA PresentCount ==
  ASSUME Structure
  PROVE  /\ Cardinality({k \in Keys : Visible[k] # Nil}) = Len
         /\ Len \in Nat /\ Len <= Capacity
  <1> DEFINE P == {k \in Keys : Visible[k] # Nil}
             f == [e \in DOMAIN ll |-> ll[e].key]
  <1>0. IsFiniteSet(DOMAIN ll) /\ IndexAgrees /\ TypeOK
    BY DEF Structure
  <1>1. P = {k \in Keys : items[k] # Nil}
    BY VisibleEntry
  <1>2. \A e \in DOMAIN ll : ll[e].key \in P /\ items[ll[e].key] = e
    BY <1>0, <1>1, CacheConstants DEF IndexAgrees, TypeOK, Item
  <1>3. \A k \in P : items[k] \in DOMAIN ll /\ ll[items[k]].key = k
    BY <1>0, <1>1 DEF IndexAgrees
  <1> HIDE DEF P
  <1>4. f \in Bijection(DOMAIN ll, P)
    BY <1>2, <1>3 DEF Bijection, Injection, Surjection, IsInjective
  <1>5. Cardinality(P) = Cardinality(DOMAIN ll)
    BY <1>0, <1>4, FS_Bijection DEF ExistsBijection
  <1>6. Cardinality(DOMAIN ll) \in Nat
    BY <1>0, FS_CardinalityType
  <1> QED BY <1>0, <1>5, <1>6 DEF P, Len, IndexAgrees

\* Removing elements and their keys removes these keys from the visible map.
LEMMA VisibleRemove ==
  ASSUME Structure, NEW gone \in SUBSET DOMAIN ll, ll' = Without(gone),
         items' = [k \in Keys |-> IF k \in {ll[e].key : e \in gone} THEN Nil ELSE items[k]]
  PROVE  Visible' = [k \in Keys |-> IF items[k] # Nil /\ items[k] \in gone THEN Nil ELSE Visible[k]]
  <1> SUFFICES ASSUME NEW k \in Keys
               PROVE  Visible'[k] = IF items[k] # Nil /\ items[k] \in gone THEN Nil ELSE Visible[k]
    BY DEF Visible
  <1>1. items[k] # Nil => items[k] \in DOMAIN ll /\ ll[items[k]].key = k
    BY DEF Structure, IndexAgrees
  <1>2. \A e \in gone : ll[e].key = k => items[k] = e
    BY DEF Structure, IndexAgrees
  <1>3. CASE items[k] # Nil /\ items[k] \in gone
    BY <1>1, <1>3 DEF Visible
  <1>4. CASE items[k] = Nil
    BY <1>4 DEF Visible
  <1>5. CASE items[k] # Nil /\ items[k] \notin gone
    <2>1. items'[k] = items[k]
      BY <1>2, <1>5
    <2>2. ll'[items[k]] = ll[items[k]]
      BY <1>1, <1>5 DEF Without
    <2> QED BY <1>5, <2>1, <2>2 DEF Visible
  <1> QED BY <1>3, <1>4, <1>5

\* A new element for an absent key, after the removal of the elements of gone:
\* the visible map gains the key and loses the keys of gone.
LEMMA VisibleInsert ==
  ASSUME Structure, NEW k \in Keys, NEW v \in Values, NEW ttl \in TTLs,
         NEW gone \in SUBSET DOMAIN ll, items[k] = Nil, Insert(k, v, ttl, gone)
  PROVE  Visible' = [x \in Keys |->
            IF x = k THEN [value |-> v, expireAt |-> EffectiveExpire(ttl)]
            ELSE IF x \in {ll[g].key : g \in gone} THEN Nil ELSE Visible[x]]
  <1> DEFINE lost == {ll[g].key : g \in gone}
  <1>1. PICK e \in Elements \ (DOMAIN ll \ gone) :
          /\ ll' = [x \in (DOMAIN ll \ gone) \cup {e} |->
                      IF x = e THEN [key |-> k, value |-> v, expireAt |-> EffectiveExpire(ttl)]
                      ELSE ll[x]]
          /\ items' = [x \in Keys |-> IF x = k THEN e ELSE IF x \in lost THEN Nil ELSE items[x]]
    BY DEF Insert
  <1>2. e # Nil
    BY <1>1, CacheConstants
  <1> SUFFICES ASSUME NEW x \in Keys
               PROVE  Visible'[x] = IF x = k THEN [value |-> v, expireAt |-> EffectiveExpire(ttl)]
                                    ELSE IF x \in lost THEN Nil ELSE Visible[x]
    BY DEF Visible
  <1>3. CASE x = k
    <2>1. items'[x] = e /\ ll'[e] = [key |-> k, value |-> v, expireAt |-> EffectiveExpire(ttl)]
      BY <1>1, <1>3
    <2> QED BY <1>2, <1>3, <2>1 DEF Visible
  <1>4. CASE x # k /\ x \in lost
    BY <1>1, <1>4 DEF Visible
  <1>5. CASE x # k /\ x \notin lost /\ items[x] = Nil
    BY <1>1, <1>5 DEF Visible
  <1>6. CASE x # k /\ x \notin lost /\ items[x] # Nil
    <2>1. items[x] \in DOMAIN ll \ gone /\ items'[x] = items[x]
      BY <1>1, <1>6 DEF Structure, IndexAgrees
    <2>2. ll'[items[x]] = ll[items[x]]
      BY <1>1, <2>1
    <2> QED BY <1>6, <2>1, <2>2 DEF Visible
  <1> QED BY <1>3, <1>4, <1>5, <1>6

\* The instance of FiniteSets inside TTLMap counts like the one used here.
LEMMA SameCardinality == \A S : Map!Cardinality(S) = Cardinality(S)
  BY Zenon DEF Cardinality, Map!Cardinality

Fits == Cardinality({k \in Keys : Visible[k] # Nil}) <= Capacity

\* Every step of the cache is a step of TTLMap or leaves it unchanged.
LEMMA MapStep ==
  ASSUME Structure, Fits', [Next]_vars
  PROVE  [Map!Next]_(Map!vars)
  <1>0. TypeOK
    BY DEF Structure
  <1>1. ASSUME NEW k \in Keys, GetAbsent(k) PROVE Map!GetMiss(k)
    <2>1. /\ Visible' = Visible /\ Visible[k] = Nil /\ call' = <<"get", k>>
          /\ reply' = Nil /\ now' = now
      BY <1>1, VisibleEntry DEF GetAbsent, Visible
    <2>2. Visible' = [Visible EXCEPT ![k] = Nil]
      BY <2>1 DEF Visible
    <2> QED BY <2>1, <2>2 DEF Map!GetMiss
  <1>2. ASSUME NEW k \in Keys, items[k] # Nil, ll' = Without({items[k]}),
               items' = [items EXCEPT ![k] = Nil]
        PROVE  Visible' = [Visible EXCEPT ![k] = Nil]
    <2>1. items[k] \in DOMAIN ll /\ ll[items[k]].key = k
      BY <1>2 DEF Structure, IndexAgrees
    <2>2. items' = [x \in Keys |-> IF x \in {ll[e].key : e \in {items[k]}} THEN Nil ELSE items[x]]
      <3>1. {ll[e].key : e \in {items[k]}} = {k}
        BY <2>1
      <3>2. items' = [x \in Keys |-> IF x \in {k} THEN Nil ELSE items[x]]
        BY <1>0, <1>2 DEF TypeOK
      <3> QED BY <3>1, <3>2
    <2>3. Visible' = [x \in Keys |-> IF items[x] # Nil /\ items[x] \in {items[k]} THEN Nil
                                     ELSE Visible[x]]
      BY <1>2, <2>1, <2>2, VisibleRemove
    <2>4. \A x \in Keys : items[x] # Nil /\ items[x] \in {items[k]} <=> x = k
      BY <1>2 DEF Structure, IndexAgrees
    <2> QED BY <2>3, <2>4 DEF Visible
  <1>3. ASSUME NEW k \in Keys, GetExpired(k) PROVE Map!GetMiss(k)
    <2>1. /\ items[k] # Nil /\ Expired(items[k]) /\ ll' = Without({items[k]})
          /\ items' = [items EXCEPT ![k] = Nil] /\ call' = <<"get", k>>
          /\ reply' = Nil /\ now' = now
      BY <1>3 DEF GetExpired
    <2> QED BY <1>2, <2>1, VisibleEntry DEF Map!GetMiss
  <1>4. ASSUME NEW k \in Keys, GetHit(k) PROVE Map!GetHit(k)
    <2>1. /\ items[k] # Nil /\ ~ Expired(items[k]) /\ reply' = ll[items[k]].value
          /\ call' = <<"get", k>> /\ items' = items /\ ll' = ll /\ now' = now
      BY <1>4 DEF GetHit
    <2>2. Visible' = Visible /\ Visible[k].value = ll[items[k]].value
      BY <2>1, VisibleEntry DEF Visible
    <2> QED BY <2>1, <2>2, VisibleEntry DEF Map!GetHit
  <1>5. ASSUME NEW k \in Keys, Delete(k) PROVE Map!Delete(k)
    <2>1. call' = <<"delete", k>> /\ reply' = Nil /\ now' = now
      BY <1>5 DEF Delete
    <2>2. CASE items[k] = Nil
      <3>1. Visible' = Visible /\ Visible[k] = Nil
        BY <1>5, <2>2, VisibleEntry DEF Delete, Visible
      <3>2. Visible' = [Visible EXCEPT ![k] = Nil]
        BY <3>1 DEF Visible
      <3> QED BY <2>1, <3>2 DEF Map!Delete
    <2>3. CASE items[k] # Nil
      <3>1. ll' = Without({items[k]}) /\ items' = [items EXCEPT ![k] = Nil]
        BY <1>5, <2>3 DEF Delete
      <3> QED BY <1>2, <2>1, <2>3, <3>1 DEF Map!Delete
    <2> QED BY <2>2, <2>3
  <1>6. /\ Map!Cardinality({k \in Keys : Visible'[k] # Nil}) <= Capacity
        /\ Map!Cardinality(Map!Present) = Len
    BY PresentCount, SameCardinality DEF Fits, Map!Present
  <1>7. \A ttl \in TTLs : Map!Deadline(ttl) = EffectiveExpire(ttl)
    BY DEF Map!Deadline, EffectiveExpire
  <1>8. ASSUME NEW k \in Keys, NEW v \in Values, NEW ttl \in TTLs, SetUpdate(k, v, ttl)
        PROVE  Map!Put(k, v, ttl, {})
    <2> DEFINE e == items[k]
    <2>1. /\ e # Nil /\ items' = items /\ call' = <<"set", k, v, ttl>>
          /\ reply' = Nil /\ now' = now
          /\ ll' = [ll EXCEPT ![e].value = v, ![e].expireAt = EffectiveExpire(ttl)]
      BY <1>8 DEF SetUpdate
    <2>2. e \in DOMAIN ll /\ ll[e] \in Item
      BY <1>0, <2>1, VisibleEntry DEF TypeOK
    <2>3. /\ ll'[e].value = v /\ ll'[e].expireAt = EffectiveExpire(ttl)
          /\ \A x \in DOMAIN ll \ {e} : ll'[x] = ll[x]
      BY <2>1, <2>2 DEF Item
    <2>4. \A x \in Keys : x # k /\ items[x] # Nil => items[x] \in DOMAIN ll \ {e}
      BY <2>1 DEF Structure, IndexAgrees
    <2>5. Visible' = [x \in Keys |-> IF x = k THEN [value |-> v, expireAt |-> EffectiveExpire(ttl)]
                                     ELSE IF x \in {} THEN Nil ELSE Visible[x]]
      <3> SUFFICES ASSUME NEW x \in Keys
                   PROVE  Visible'[x] = IF x = k THEN [value |-> v, expireAt |-> EffectiveExpire(ttl)]
                                        ELSE Visible[x]
        BY DEF Visible
      <3>1. CASE x = k
        BY <2>1, <2>3, <3>1 DEF Visible
      <3>2. CASE x # k
        BY <2>1, <2>3, <2>4, <3>2 DEF Visible
      <3> QED BY <3>1, <3>2
    <2> QED BY <1>6, <1>7, <2>1, <2>5 DEF Map!Put
  <1>9. ASSUME NEW k \in Keys, NEW v \in Values, NEW ttl \in TTLs, SetNew(k, v, ttl)
        PROVE  Map!Put(k, v, ttl, {})
    <2>1. /\ items[k] = Nil /\ Insert(k, v, ttl, {}) /\ now' = now
          /\ call' = <<"set", k, v, ttl>> /\ reply' = Nil
      BY <1>9 DEF SetNew, Insert
    <2>2. {ll[g].key : g \in {}} = {}
      OBVIOUS
    <2>3. Visible' = [x \in Keys |-> IF x = k THEN [value |-> v, expireAt |-> EffectiveExpire(ttl)]
                                     ELSE IF x \in {ll[g].key : g \in {}} THEN Nil ELSE Visible[x]]
      BY <2>1, VisibleInsert
    <2> QED BY <1>6, <1>7, <2>1, <2>2, <2>3 DEF Map!Put
  <1>10. ASSUME NEW k \in Keys, NEW v \in Values, NEW ttl \in TTLs, SetEvict(k, v, ttl)
         PROVE  \E x \in Keys : Map!Put(k, v, ttl, {x})
    <2>1. items[k] = Nil /\ Len >= Capacity /\ now' = now /\ Visible[k] = Nil
      BY <1>10, VisibleEntry DEF SetEvict
    <2>2. PICK tail \in DOMAIN ll : Insert(k, v, ttl, {tail})
      BY <1>10 DEF SetEvict
    <2>3. {ll[g].key : g \in {tail}} = {ll[tail].key} /\ ll[tail].key \in Keys
      BY <1>0, <2>2 DEF TypeOK, Item
    <2>4. call' = <<"set", k, v, ttl>> /\ reply' = Nil
      BY <2>2 DEF Insert
    <2>5. Visible' = [x \in Keys |-> IF x = k THEN [value |-> v, expireAt |-> EffectiveExpire(ttl)]
                                     ELSE IF x \in {ll[g].key : g \in {tail}} THEN Nil ELSE Visible[x]]
      BY <2>1, <2>2, VisibleInsert
    <2>6. Map!Put(k, v, ttl, {ll[tail].key})
      BY <1>6, <1>7, <2>1, <2>3, <2>4, <2>5 DEF Map!Put
    <2> QED BY <2>3, <2>6
  <1>11. CASE PurgeExpired
    <2> DEFINE gone == {e \in DOMAIN ll : Expired(e)}
    <2>1. /\ ll' = Without(gone) /\ call' = <<"purge">> /\ reply' = Nil /\ now' = now
          /\ items' = [k \in Keys |-> IF k \in {ll[e].key : e \in gone} THEN Nil ELSE items[k]]
      BY <1>11 DEF PurgeExpired
    <2>2. gone \in SUBSET DOMAIN ll
      OBVIOUS
    <2>3. \A k \in Keys : (items[k] # Nil /\ items[k] \in gone) <=> (Visible[k] # Nil /\ Map!Dead(k))
      BY VisibleEntry
    <2> HIDE DEF gone
    <2>4. Visible' = [k \in Keys |-> IF items[k] # Nil /\ items[k] \in gone THEN Nil ELSE Visible[k]]
      BY <2>1, <2>2, VisibleRemove
    <2>5. Map!Purge
      BY <2>1, <2>3, <2>4 DEF Map!Purge
    <2> QED BY <2>5 DEF Map!Next
  <1>12. CASE Tick
    <2>1. Map!Tick
      BY <1>12 DEF Tick, Map!Tick, Visible
    <2> QED BY <2>1 DEF Map!Next
  <1>13. CASE UNCHANGED vars
    BY <1>13 DEF vars, Map!vars, Visible
  <1> QED BY <1>1, <1>3, <1>4, <1>5, <1>8, <1>9, <1>10, <1>11, <1>12, <1>13 DEF Next, Map!Next

\* The cache of cache.go implements the abstract map with expiry and a bound on
\* its size: what Get returns, and what Set, Delete and PurgeExpired forget, is
\* what TTLMap allows, for any keys, values, lifetimes and capacity.
THEOREM CacheIsTTLMap == Spec => ImplementsTTLMap
  <1>1. Init => Map!Init
    BY DEF Init, Map!Init, Visible
  <1>2. Structure /\ Fits' /\ [Next]_vars => [Map!Next]_(Map!vars)
    BY MapStep
  <1>3. Structure => Fits
    BY PresentCount, CacheConstants DEF Fits
  <1> QED BY StructureAlways, <1>1, <1>2, <1>3, PTL DEF Spec, ImplementsTTLMap, Map!Spec
=============================================================================
