------------------------------- MODULE MCWatch -------------------------------
(* Watch with two pools of one kind.                                       *)
EXTENDS Watch

CONSTANTS blue, green

MCPools == {blue, green}

Disturbances(st, ra, wa, un, from) ==
    [stop |-> st, race |-> ra, watch |-> wa, uninstall |-> un, served |-> from]

\* An informer stops; the cluster takes the kind away and watches fail.
MCScenarios ==
    { Disturbances(1, 1, 0, 0, TRUE),
      Disturbances(0, 0, 1, 1, TRUE), Disturbances(0, 0, 1, 1, FALSE) }
=============================================================================
