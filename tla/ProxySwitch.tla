------------------------------ MODULE ProxySwitch ------------------------------
(***************************************************************************)
(* What switching a backend to a proxy promises, whatever calls of         *)
(* SetProxy overlap: they follow each other, each tries its proxy and      *)
(* either switches to it or leaves the backend and what was guarded        *)
(* before the call as they were, but for the one proxy that has to make    *)
(* room when the guard is full.                                            *)
(***************************************************************************)
EXTENDS Integers, FiniteSets

CONSTANTS URLs, Endpoints, None, MaxRemembered

VARIABLES
    guard,     \* the endpoint the dial guard lets through for each proxy, or None
    backend,   \* the proxy the backend is on
    trying,    \* the proxy that is being tried, if any
    familiar   \* it was guarded before the call

switchVars == <<guard, backend, trying, familiar>>

Guarded == {u \in URLs : guard[u] # None}

SwitchInit ==
    /\ backend \in URLs
    /\ \E e \in Endpoints \cup {None} :
          guard = [u \in URLs |-> IF u = backend THEN e ELSE None]
    /\ trying = {} /\ familiar = FALSE

\* There is room for one more, or the proxy has its place.
Admit(u) ==
    /\ u \in Guarded \/ Cardinality(Guarded) < MaxRemembered
    /\ \E e \in Endpoints : guard' = [guard EXCEPT ![u] = e]

\* One other proxy makes room.
Replace(u) ==
    /\ u \notin Guarded /\ Cardinality(Guarded) = MaxRemembered
    /\ \E e \in Endpoints, v \in Guarded : guard' = [guard EXCEPT ![u] = e, ![v] = None]

\* Nothing is guarded in addition for a proxy that has no endpoint.
Try(u) ==
    /\ trying = {}
    /\ trying' = {u} /\ familiar' = (u \in Guarded)
    /\ Admit(u) \/ Replace(u) \/ UNCHANGED guard
    /\ UNCHANGED backend

Over == trying' = {} /\ familiar' = FALSE

Switch(u) ==
    /\ trying = {u}
    /\ backend' = u
    /\ Over /\ UNCHANGED guard

GiveUp(u) ==
    /\ trying = {u}
    /\ guard' = IF familiar THEN guard ELSE [guard EXCEPT ![u] = None]
    /\ Over /\ UNCHANGED backend

SwitchNext == \E u \in URLs : Try(u) \/ Switch(u) \/ GiveUp(u)

SwitchSpec == SwitchInit /\ [][SwitchNext]_switchVars
================================================================================
