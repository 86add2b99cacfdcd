----------------------------- MODULE MCCloudflare -----------------------------
(***************************************************************************)
(* Pages, configurations and middlewares for model-checking Cloudflare.    *)
(***************************************************************************)
EXTENDS Cloudflare

OnePage(mitigated, body, status) ==
    [cf |-> TRUE, mitigated |-> mitigated, body |-> body, status |-> status]

\* A page of the site, a block, and a challenge with and without the header.
FourPages ==
    {OnePage(FALSE, {}, 200), OnePage(TRUE, {"block", "platform"}, 403),
     OnePage(TRUE, {}, 403), OnePage(FALSE, {"platform"}, 200)}

\* Without options, with a solver and logging, with ox-browser.
ThreeConfigs == {{}, {"debug", "solver"}, {"ox"}}

\* One option alone.
WithSolver == {{"solver"}}
WithOxBrowser == {{"ox"}}

NoneAdded == {<< >>}

\* Nothing, the detect middleware outside of the cookie middleware, and one cookie
\* middleware right outside of another.
DetectOrCookies == {<< >>, <<"detect", "cookie">>, <<"cookie", "cookie">>}
===============================================================================
