----------------------------- MODULE MCIdempotency -----------------------------
(* Idempotency for TLC: handlers are interchangeable, and so are keys.      *)
EXTENDS Idempotency, TLC

Symmetry == Permutations(Handlers) \cup Permutations(Keys)
=============================================================================
