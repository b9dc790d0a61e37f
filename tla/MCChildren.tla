----------------------------- MODULE MCChildren -----------------------------
(* Children with two kinds, two groups, and the disturbances of each run.  *)
EXTENDS Children

MCKinds  == {"Deployment", "StatefulSet"}
MCGroups == {"base", "burst"}

\* The pool's owner edits it while the controller's own work goes wrong, or
\* while other people work on the same objects.
MCScenarios ==
    { [of |-> {"kind", "groups", "apply", "sweep", "status", "crash"},
       left |-> 3, at |-> {}],
      [of |-> {"groups", "delete", "release", "labels", "create"},
       left |-> 3, at |-> {"Deployment"}] }

MCKindEdits == { [of |-> {"kind"}, left |-> 1, at |-> {}] }
=============================================================================
