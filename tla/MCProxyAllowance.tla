-------------------------- MODULE MCProxyAllowance --------------------------
(***************************************************************************)
(* ProxyAllowance for TLC: callers, endpoints and the proxies that the     *)
(* backend always takes are interchangeable.                               *)
(***************************************************************************)
EXTENDS ProxyAllowance, TLC

Symmetry == Permutations(Callers) \cup Permutations(Endpoints)
            \cup Permutations(URLs \ ({Direct} \cup Rejected \cup Flaky))
=============================================================================
