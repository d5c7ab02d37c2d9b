--------------------------- MODULE MCInMemoryCache ---------------------------
(* Instances of InMemoryCache for TLC. *)
EXTENDS InMemoryCache, TLC

\* Elements, keys and values are interchangeable.
Symmetry == Permutations(Elements) \cup Permutations(Keys) \cup Permutations(Values)

\* The default lifetime (any ttl <= 0), and a short one.
MCTTLs == {-2, 1}
=============================================================================
