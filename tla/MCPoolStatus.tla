---------------------------- MODULE MCPoolStatus ----------------------------
(* PoolStatus with one group, and the faults of each run.                  *)
EXTENDS PoolStatus

Capped(pct) == [min |-> Nil, max |-> 2, target |-> pct, opportunistic |-> FALSE]

MCOneGroup == << Capped(60) >>

MCFaults  == {"replicas", "template", "pause", "watch", "group", "patch", "pod"}
MCFailure == {"group"}
=============================================================================
