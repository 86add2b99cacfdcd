------------------------------ MODULE MCClient ------------------------------
(***************************************************************************)
(* Client for TLC: a client without a pool, one with an empty pool, and    *)
(* one with two proxies of which the backend may refuse the second.        *)
(***************************************************************************)
EXTENDS Client, TLC

CONSTANTS p1, p2

EveryPool == {NoPool, << >>, <<p1, p2>>}

Symmetry == Permutations(Calls)
=============================================================================
