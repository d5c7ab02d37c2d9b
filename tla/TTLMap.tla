-------------------------------- MODULE TTLMap --------------------------------
(***************************************************************************)
(* What the Cache interface of cache.go promises its callers: a map whose  *)
(* entries expire, which may drop an entry only to make room for a new key.*)
(* How entries are indexed and which one is dropped is not said here.      *)
(***************************************************************************)
EXTENDS Integers, FiniteSets

CONSTANTS Keys, Values, TTLs, DefaultTTL, Capacity, MaxTime,
          Nil          \* no entry, no reply

VARIABLES store,       \* key -> [value, expireAt], or Nil
          now,         \* the clock, from 1 to MaxTime
          call,        \* the last call with its arguments, <<>> once time passed
          reply        \* the value that call returned, or Nil

vars == <<store, now, call, reply>>

Present == {k \in Keys : store[k] # Nil}

\* The time a TTL leads to; 0 is the zero time, never reached.
Deadline(ttl) ==
    IF ttl > 0 THEN now + ttl
    ELSE IF DefaultTTL > 0 THEN now + DefaultTTL ELSE 0

Dead(k) == store[k].expireAt # 0 /\ now > store[k].expireAt

Init == store = [k \in Keys |-> Nil] /\ now = 1 /\ call = <<>> /\ reply = Nil

GetHit(k) ==
    /\ store[k] # Nil /\ ~ Dead(k)
    /\ call' = <<"get", k>> /\ reply' = store[k].value
    /\ UNCHANGED <<store, now>>

\* A miss may forget an expired entry, and nothing else.
GetMiss(k) ==
    /\ store[k] = Nil \/ Dead(k)
    /\ store' = [store EXCEPT ![k] = Nil]
    /\ call' = <<"get", k>> /\ reply' = Nil
    /\ UNCHANGED now

Put(k, v, ttl, lost) ==
    /\ lost # {} => store[k] = Nil /\ Cardinality(Present) >= Capacity
    /\ store' = [x \in Keys |-> IF x = k THEN [value |-> v, expireAt |-> Deadline(ttl)]
                                ELSE IF x \in lost THEN Nil ELSE store[x]]
    /\ Cardinality({x \in Keys : store'[x] # Nil}) <= Capacity
    /\ call' = <<"set", k, v, ttl>> /\ reply' = Nil
    /\ UNCHANGED now

Delete(k) ==
    /\ store' = [store EXCEPT ![k] = Nil]
    /\ call' = <<"delete", k>> /\ reply' = Nil
    /\ UNCHANGED now

Purge ==
    /\ store' = [k \in Keys |-> IF store[k] # Nil /\ Dead(k) THEN Nil ELSE store[k]]
    /\ call' = <<"purge">> /\ reply' = Nil
    /\ UNCHANGED now

Tick ==
    /\ now < MaxTime /\ now' = now + 1
    /\ call' = <<>> /\ reply' = Nil
    /\ UNCHANGED store

Next ==
    \/ \E k \in Keys : GetHit(k) \/ GetMiss(k) \/ Delete(k)
    \/ \E k \in Keys, v \in Values, ttl \in TTLs :
          \E x \in Keys : Put(k, v, ttl, {x}) \/ Put(k, v, ttl, {})
    \/ Purge
    \/ Tick

Spec == Init /\ [][Next]_vars
=============================================================================
