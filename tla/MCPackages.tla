------------------------------ MODULE MCPackages ------------------------------
(***************************************************************************)
(* The components that share no state with each other, for TLC, in one     *)
(* run: `part' says which of them the behaviour is of, and the others stay *)
(* in an initial state.  Their state spaces are added, not multiplied.     *)
(***************************************************************************)
EXTENDS MCCloudflare, SiteIntel, ItemPool, HealthTracker, RetryTracker, RetryPipeline,
        Session, Construction, TLC

VARIABLE part    \* the component this behaviour is of

vars == <<part, cfVars, intelVars, poolVars, healthVars, trackerVars, pipeVars,
          sessionVars, buildVars>>

Parts == {"cloudflare", "site intel", "item pool", "health tracker", "retry tracker",
          "retry pipeline", "session", "construction"}

\* A component that stays where it begins needs one initial state only, and two
\* cookie middlewares are used on a client without options.
Init ==
    /\ part \in Parts
    /\ CfInit /\ IntelInit /\ PoolInit /\ HealthInit /\ TrackerInit /\ PipeInit
    /\ SessionInit /\ BuildInit
    /\ part # "cloudflare" => config = {} /\ added = << >>
    /\ added = <<"cookie", "cookie">> => config = {}
    /\ part # "item pool" => \A w \in Waiters : waiter[w].filter = Items
    /\ part # "retry pipeline" => retryCtx
    /\ part # "session" => session[CHOOSE o \in Objects : TRUE].alive

Next ==
    \/ /\ part = "cloudflare" /\ CfNext
       /\ UNCHANGED <<part, intelVars, poolVars, healthVars, trackerVars, pipeVars,
                      sessionVars, buildVars>>
    \/ /\ part = "site intel" /\ IntelNext
       /\ UNCHANGED <<part, cfVars, poolVars, healthVars, trackerVars, pipeVars,
                      sessionVars, buildVars>>
    \/ /\ part = "item pool" /\ PoolNext
       /\ UNCHANGED <<part, cfVars, intelVars, healthVars, trackerVars, pipeVars,
                      sessionVars, buildVars>>
    \/ /\ part = "health tracker" /\ HealthNext
       /\ UNCHANGED <<part, cfVars, intelVars, poolVars, trackerVars, pipeVars,
                      sessionVars, buildVars>>
    \/ /\ part = "retry tracker" /\ TrackerNext
       /\ UNCHANGED <<part, cfVars, intelVars, poolVars, healthVars, pipeVars,
                      sessionVars, buildVars>>
    \/ /\ part = "retry pipeline" /\ PipeNext
       /\ UNCHANGED <<part, cfVars, intelVars, poolVars, healthVars, trackerVars,
                      sessionVars, buildVars>>
    \/ /\ part = "session" /\ SessionNext
       /\ UNCHANGED <<part, cfVars, intelVars, poolVars, healthVars, trackerVars,
                      pipeVars, buildVars>>
    \/ /\ part = "construction" /\ BuildNext
       /\ UNCHANGED <<part, cfVars, intelVars, poolVars, healthVars, trackerVars,
                      pipeVars, sessionVars>>

Spec == Init /\ [][Next]_vars

\* The type invariants of the components.
TypeOK ==
    /\ part \in Parts
    /\ CfTypeOK /\ IntelTypeOK /\ PoolTypeOK /\ HealthTypeOK /\ TrackerTypeOK
    /\ PipeTypeOK /\ SessionTypeOK /\ BuildTypeOK

-----------------------------------------------------------------------------
\* A filter that lets every item through, and one that lets one through.
AllOrOne == {Items, {1}}

Symmetry == Permutations(CfCalls)
===============================================================================
