---------------------------- MODULE MCHealthyPool ----------------------------
(***************************************************************************)
(* HealthyPool for TLC: two proxies, and for the pools that are refreshed  *)
(* a third that replaces one of them.                                      *)
(***************************************************************************)
EXTENDS HealthyPool, TLC

CONSTANTS p1, p2, p3

OneList == {<<p1, p2>>}
TwoLists == {<<p1, p2>>, <<p2, p3>>}

Symmetry == Permutations(Callers)
=============================================================================
