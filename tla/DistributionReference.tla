----------------------- MODULE DistributionReference -----------------------
(***************************************************************************)
(* A closed form for the distribution, independent of the loops: when      *)
(* group k asks for more[k] and groups are served in list order from a     *)
(* stock, k receives what the requests before it leave, up to more[k].     *)
(* Four such servings in a row are the whole algorithm.                    *)
(***************************************************************************)
EXTENDS Distributor, Sums

Served(stock, more) ==
    [k \in Group |->
        Lesser(more[k], Greater(0, stock - RunningSum(more, N)[k - 1]))]

\* Serve "more" on top of what is already held.
Topped(held, more) ==
    LET given == Served(total - RunningSum(held, N)[N], more)
    IN  [k \in Group |-> held[k] + given[k]]

AfterFloors == Served(total, [k \in Group |-> GroupFloor(groups[k])])

AfterTargets ==
    Topped(AfterFloors,
           [k \in Group |-> IF Declares(k)
                            THEN Greater(0, Want(k) - AfterFloors[k]) ELSE 0])

AfterOpportunistic ==
    Topped(AfterTargets,
           [k \in Group |->
               IF ~IsOpportunistic(groups[k]) THEN 0
               ELSE IF observed[k] = Nil THEN total
               ELSE Greater(0, observed[k] - AfterTargets[k])])

AfterOverflow ==
    Topped(AfterOpportunistic,
           [k \in Group |->
               IF IsOpportunistic(groups[k]) THEN 0
               ELSE IF ~hasStaticCeiling(groups[k]) THEN total
               ELSE Greater(0, GroupCeiling(total, groups[k])
                               - AfterOpportunistic[k])])

ColdAndEmpty(k) ==
    IsOpportunistic(groups[k]) /\ observed[k] = Nil => AfterTargets[k] = 0

\* What the four loops return is the function the other modules call, and
\* it is the closed form whenever each group that has never been sized is
\* still empty when phase 3 reaches it.
MatchesClosedForm ==
    /\ ComputesTheFunction
    /\ phase = "done" /\ (\A k \in Group : ColdAndEmpty(k)) => targets = AfterOverflow

\* "Absent from the map means never sized. Offer everything left": when the
\* distribution starts cold, a never-sized opportunistic group is handed all
\* that the floors and the targets leave (algorithm.go, phase 3).
ColdStartOffersEverythingLeft ==
    phase = "done" =>
        \A k \in Group :
            /\ IsOpportunistic(groups[k])
            /\ observed[k] = Nil
            /\ \A j \in Group \ {k} : ~IsOpportunistic(groups[j])
            => targets[k] = AfterOpportunistic[k]
=============================================================================
