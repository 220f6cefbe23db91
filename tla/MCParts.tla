------------------------------ MODULE MCParts ------------------------------
(* Parts on small instances of its components.  Constants only. *)
EXTENDS Parts

\* A name that comes back with another length.
BrowserPeriods == {<<1, 1>>, <<1, 2>>}

\* Two builds of one commit, and one of another.
CommitOfBuild == [b \in {1, 2, 3} |-> IF b = 3 THEN 2 ELSE 1]

\* A link that is up, one whose carrier is gone, and one that was revoked.
LinkFacts == {Up, [Up EXCEPT !.carrier = FALSE, !.registered = FALSE],
              [Up EXCEPT !.carrier = FALSE, !.troubles = {"revoked"}]}

\* Everything allowed, a hidden app, nothing, and no titles but of one app.
OwnerPolicies == {Everything, [Everything EXCEPT !.hidden = {"two"}], [Everything EXCEPT !.source = FALSE],
                  [Everything EXCEPT !.titles = FALSE, !.through = FALSE, !.apps = {"editor"}]}
=============================================================================
