------------------------------ MODULE MCRecords ------------------------------
(* Records with two groups, one of them opportunistic and erratic.         *)
EXTENDS Records

MCScenario(what, n) == [of |-> what, left |-> n]

\* A pool edited, paused, deleted and replaced under every fault; one whose
\* passes read what the passes before them wrote; one whose status others
\* write to.
MCScenarios ==
    { MCScenario({"edit", "pause", "delete", "create", "lag", "patch", "restart", "halt"}, 4),
      MCScenario({"edit", "pause", "delete", "restart", "halt"}, 5),
      MCScenario({"edit", "condition", "restart"}, 3) }
=============================================================================
