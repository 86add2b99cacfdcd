----------------------------- MODULE MCWebshare -----------------------------
(***************************************************************************)
(* Webshare for TLC.  Triggered refreshes are interchangeable, and so are  *)
(* the callers of Close, in every property that is not a liveness one.     *)
(***************************************************************************)
EXTENDS Webshare, TLC

Symmetry == Permutations(Triggered) \cup Permutations(Closers)
=============================================================================
