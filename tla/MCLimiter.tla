------------------------------ MODULE MCLimiter ------------------------------
(* Limiter for TLC, with interchangeable callers and keys.                 *)
EXTENDS Limiter, TLC

Symmetry == Permutations(Callers) \cup Permutations(Keys)
=============================================================================
