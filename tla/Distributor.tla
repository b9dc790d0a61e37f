----------------------------- MODULE Distributor -----------------------------
(***************************************************************************)
(* ComputeGroupTargets (internal/workload/algorithm.go), one action per    *)
(* loop iteration, so that what each phase has established when the next   *)
(* one starts can be stated as an invariant.  The call's arguments are the *)
(* variables total, groups and observed; they never change.                *)
(***************************************************************************)
EXTENDS Distribution, FiniteSets

CONSTANTS
    N,           \* how many groups the pool lists
    Scalings,    \* the scaling constraints a group may be stored with
    Totals,      \* the values of spec.replicas
    Capacities   \* the capacities an opportunistic group may be observed at

\* The schema requires at least one group (MinItems=1).
ASSUME NAssumption        == N \in Nat \ {0}
ASSUME ScalingsAssumption == Scalings \subseteq Scaling
ASSUME TotalsAssumption   == Totals \subseteq Nat
ASSUME CapacityAssumption == Capacities \subseteq Nat

VARIABLES
    total, groups, observed,   \* arguments
    phase, i,                  \* program counter
    targets, remaining,        \* locals of the Go function
    degraded                   \* result.TargetDegraded

args == <<total, groups, observed>>
vars == <<total, groups, observed, phase, i, targets, remaining, degraded>>

Group  == 1 .. N
Phases == {"call", "floors", "targets", "opportunistic", "overflow", "done"}

-----------------------------------------------------------------------------
(* The four loops.                                                         *)

\* The capacity map names opportunistic groups only; Nil means "not in it".
Init ==
    /\ total \in Totals
    /\ groups \in [Group -> Scalings]
    /\ observed \in [Group -> Capacities \cup {Nil}]
    /\ \A k \in Group : ~IsOpportunistic(groups[k]) => observed[k] = Nil
    /\ phase = "call"
    /\ i = 1
    /\ targets = [k \in Group |-> 0]
    /\ remaining = total
    /\ degraded = FALSE

\* Mutants of Place: the remainder does not cap the grant; the group is set to
\* what it asks for instead of topped up.
PlaceUncapped(k, want) ==
    LET give == Greater(0, want - targets[k]) IN
    /\ targets' = [targets EXCEPT ![k] = targets[k] + give]
    /\ remaining' = remaining - give

PlaceOverwrites(k, want) ==
    LET give == Lesser(want, remaining) IN
    /\ targets' = [targets EXCEPT ![k] = give]
    /\ remaining' = remaining - give

\* targets[k] += give; remaining -= give
Place(k, want) ==
    LET give == Share(want - targets[k], remaining) IN
    /\ targets' = [targets EXCEPT ![k] = targets[k] + give]
    /\ remaining' = remaining - give

Enter(p) ==
    /\ phase' = p
    /\ i' = 1
    /\ UNCHANGED <<args, targets, remaining, degraded>>

Return ==
    /\ phase' = "done"
    /\ i' = 1
    /\ degraded' = checkTargetDegraded(total, targets, groups)
    /\ UNCHANGED <<args, targets, remaining>>

\* Nothing to place: zero targets, not degraded, none unplaced.
Call ==
    /\ phase = "call"
    /\ IF total <= 0 THEN Enter("done") ELSE Enter("floors")

\* Mutant of FloorStep: the list is walked from its end.
FloorStepReversed ==
    /\ phase = "floors" /\ i <= N
    /\ Place(N + 1 - i, GroupFloor(groups[N + 1 - i]))
    /\ i' = i + 1
    /\ UNCHANGED <<args, phase, degraded>>

\* Phase 1: cascade thresholds, in list order.
FloorStep ==
    /\ phase = "floors" /\ i <= N
    /\ Place(i, GroupFloor(groups[i]))
    /\ i' = i + 1
    /\ UNCHANGED <<args, phase, degraded>>

\* Mutant of FloorsDone: phase 2 is left out.
FloorsDoneSkipsTargets ==
    /\ phase = "floors" /\ i > N
    /\ IF remaining <= 0 THEN Return ELSE Enter("opportunistic")

FloorsDone ==
    /\ phase = "floors" /\ i > N
    /\ IF remaining <= 0 THEN Return ELSE Enter("targets")

\* Phase 2: percentage targets; breaks out once nothing remains.
TargetStep ==
    /\ phase = "targets" /\ i <= N
    /\ IF TargetReadable(groups[i])
       THEN /\ Place(i, GroupTarget(total, groups[i]))
            /\ i' = IF remaining' <= 0 THEN N + 1 ELSE i + 1
       ELSE /\ i' = i + 1
            /\ UNCHANGED <<targets, remaining>>
    /\ UNCHANGED <<args, phase, degraded>>

\* Mutant of TargetsDone: phase 3 is left out.
TargetsDoneSkipsOpportunistic ==
    /\ phase = "targets" /\ i > N
    /\ Enter("overflow")

TargetsDone ==
    /\ phase = "targets" /\ i > N
    /\ Enter("opportunistic")

\* Mutant of OpportunisticStep: capacity comes on top of what the group holds.
OpportunisticStepAdds ==
    /\ phase = "opportunistic" /\ i <= N /\ remaining > 0
    /\ IF IsOpportunistic(groups[i])
       THEN Place(i, targets[i] + (IF observed[i] = Nil THEN remaining ELSE observed[i]))
       ELSE UNCHANGED <<targets, remaining>>
    /\ i' = i + 1
    /\ UNCHANGED <<args, phase, degraded>>

\* Phase 3: observed capacity; a group never sized asks for what is left.
OpportunisticStep ==
    /\ phase = "opportunistic" /\ i <= N /\ remaining > 0
    /\ IF IsOpportunistic(groups[i])
       THEN Place(i, IF observed[i] = Nil THEN remaining ELSE observed[i])
       ELSE UNCHANGED <<targets, remaining>>
    /\ i' = i + 1
    /\ UNCHANGED <<args, phase, degraded>>

OpportunisticDone ==
    /\ phase = "opportunistic" /\ (i > N \/ remaining <= 0)
    /\ Enter("overflow")

\* Mutants of OverflowStep: an unbounded group takes half of what is left;
\* what the group already holds is not deducted from its ceiling.
OverflowStepHalves ==
    /\ phase = "overflow" /\ i <= N /\ remaining > 0
    /\ IF IsOpportunistic(groups[i]) THEN UNCHANGED <<targets, remaining>>
       ELSE Place(i, IF hasStaticCeiling(groups[i]) THEN GroupCeiling(total, groups[i])
                     ELSE targets[i] + ((remaining + 1) \div 2))
    /\ i' = i + 1
    /\ UNCHANGED <<args, phase, degraded>>

OverflowStepIgnoresHeld ==
    /\ phase = "overflow" /\ i <= N /\ remaining > 0
    /\ IF IsOpportunistic(groups[i]) THEN UNCHANGED <<targets, remaining>>
       ELSE Place(i, targets[i] + (IF hasStaticCeiling(groups[i])
                                   THEN GroupCeiling(total, groups[i]) ELSE remaining))
    /\ i' = i + 1
    /\ UNCHANGED <<args, phase, degraded>>

\* Phase 4: the remainder, in list order, up to each ceiling.
OverflowStep ==
    /\ phase = "overflow" /\ i <= N /\ remaining > 0
    /\ CASE IsOpportunistic(groups[i]) ->
              UNCHANGED <<targets, remaining>>
         [] ~IsOpportunistic(groups[i]) /\ ~hasStaticCeiling(groups[i]) ->
              /\ targets' = [targets EXCEPT ![i] = targets[i] + remaining]
              /\ remaining' = 0
         [] ~IsOpportunistic(groups[i]) /\ hasStaticCeiling(groups[i]) ->
              Place(i, GroupCeiling(total, groups[i]))
    /\ i' = i + 1
    /\ UNCHANGED <<args, phase, degraded>>

\* Mutant of OverflowDone: the last group is never offered the remainder.
OverflowDoneEarly ==
    /\ phase = "overflow" /\ (i >= N \/ remaining <= 0)
    /\ Return

OverflowDone ==
    /\ phase = "overflow" /\ (i > N \/ remaining <= 0)
    /\ Return

Next ==
    \/ Call
    \/ FloorStep \/ FloorsDone
    \/ TargetStep \/ TargetsDone
    \/ OpportunisticStep \/ OpportunisticDone
    \/ OverflowStep \/ OverflowDone

Spec == Init /\ [][Next]_vars /\ WF_vars(Next)

-----------------------------------------------------------------------------
(* What the distribution promises.                                         *)

\* The types of the variables.  The remainder never goes negative.
TypeOK ==
    /\ total \in Nat
    /\ groups \in [Group -> Scaling]
    /\ observed \in [Group -> Nat \cup {Nil}]
    /\ phase \in Phases
    /\ i \in 1 .. N + 1
    /\ targets \in [Group -> Nat]
    /\ remaining \in Nat
    /\ degraded \in BOOLEAN

\* The replicas the distribution hands out, one slot each: <<group, ordinal>>.
Placed == {slot \in Group \X (1 .. total) : slot[2] <= targets[slot[1]]}

Declares(k) == TargetReadable(groups[k])

Want(k) == GroupTarget(total, groups[k])

\* The most a group may be handed: a floor or a declared share is honoured
\* even above observed capacity, a floor even above the ceiling.
Bound(k) ==
    Greater(GroupFloor(groups[k]),
            IF IsOpportunistic(groups[k])
            THEN Greater(IF Declares(k) THEN Want(k) ELSE 0, observed[k])
            ELSE GroupCeiling(total, groups[k]))

\* Between them the groups and result.Unplaced account for every replica of
\* spec.replicas: no phase loses one or hands one out twice.
EveryReplicaAccountedFor ==
    IsFiniteSet(Placed) /\ Cardinality(Placed) + remaining = total

\* Ceilings are honoured absolutely: no phase, and no sequence of phases,
\* pushes a bounded group past its ceiling (only its own min may), and an
\* opportunistic group already sized never absorbs the overflow.
CeilingHonoured ==
    \A k \in Group :
        \/ ~IsBounded(groups[k])
        \/ IsOpportunistic(groups[k]) /\ observed[k] = Nil
        \/ targets[k] <= Bound(k)

\* The cascade: while a group is short of its min, no later group holds any
\* replica at all.
CascadeOrder ==
    \A a, b \in Group :
        a < b /\ targets[b] > 0 => targets[a] >= GroupFloor(groups[a])

\* A declared share is served before free capacity and before the overflow:
\* a group without a percentage rises above its min only when every
\* percentage in the pool has been met.
DeclaredShareFirst ==
    \A a, b \in Group :
        /\ Declares(a)
        /\ ~Declares(b)
        /\ targets[b] > GroupFloor(groups[b])
        => targets[a] >= Want(a)

\* Free before paid: a group that is not opportunistic grows past its min
\* and its percentage only when every opportunistic group that has been
\* sized already holds all of its observed capacity.
FreeCapacityFirst ==
    \A a, b \in Group :
        /\ IsOpportunistic(groups[a])
        /\ ~IsOpportunistic(groups[b])
        /\ targets[b] > GroupFloor(groups[b])
        /\ Declares(b) => targets[b] > Want(b)
        => targets[a] >= observed[a]

\* "The first unbounded group absorbs the entire remainder; any later
\* unbounded group receives zero overflow at every scale": what admission
\* says when it refuses a second one (validateOverflowSink).
SecondSinkIdle ==
    \A a, b \in Group :
        a < b /\ ~IsBounded(groups[a]) /\ ~IsBounded(groups[b])
            => targets[b] <= GroupFloor(groups[b])

\* A replica is left unplaced only when nothing may take it: every group is
\* bounded and stands at (or above) its bound.
UnplacedOnlyAtCeilings ==
    phase = "done" /\ remaining > 0 =>
        \A k \in Group :
            /\ IsBounded(groups[k])
            /\ ~IsOpportunistic(groups[k]) =>
                  targets[k] >= GroupCeiling(total, groups[k])
            /\ IsOpportunistic(groups[k]) => targets[k] >= observed[k]

\* What the four loops return is the function the other modules call.
ComputesTheFunction ==
    phase = "done" =>
        ComputeGroupTargets(total, groups, observed) =
            [Targets |-> targets, Unplaced |-> remaining, TargetDegraded |-> degraded]

-----------------------------------------------------------------------------
(* The loops as an allocation by priority.                                 *)

\* Claimed without a limit: more than total is never there.
Claimed(c, k) ==
    CASE c = 1 -> GroupFloor(groups[k])
      [] c = 2 -> IF Declares(k) THEN Want(k) ELSE 0
      [] c = 3 -> IF ~IsOpportunistic(groups[k]) THEN 0
                  ELSE IF observed[k] = Nil THEN total ELSE observed[k]
      [] c = 4 -> IF IsOpportunistic(groups[k]) THEN 0
                  ELSE IF hasStaticCeiling(groups[k]) THEN GroupCeiling(total, groups[k])
                  ELSE total

A == INSTANCE Allocation WITH
        claim   <- [c \in 1 .. 4 |-> [k \in Group |-> Claimed(c, k)]],
        unsized <- {k \in Group : IsOpportunistic(groups[k]) /\ observed[k] = Nil},
        held    <- targets,
        stock   <- remaining,
        settled <- (phase = "done")

\* The four loops are an allocation in strict priority: whatever the
\* combination of floors, percentages, capacities and ceilings, no group is
\* given a replica that an earlier claim is still waiting for, and none of
\* them stops short.
ImplementsAllocation == A!AllocationSpec

-----------------------------------------------------------------------------
(* Loop invariants: what the part of a phase already run has established.  *)

\* Group k has been through loop p: its index is past k, or a later loop runs.
Through(p, later, k) == phase \in later \/ (phase = p /\ k < i)

\* While replicas remain, a loop leaves behind it only satisfied groups.
FloorLoop ==
    remaining > 0 => \A k \in Group :
        Through("floors", {"targets", "opportunistic", "overflow", "done"}, k)
            => targets[k] >= GroupFloor(groups[k])

TargetLoop ==
    remaining > 0 => \A k \in Group :
        Through("targets", {"opportunistic", "overflow", "done"}, k) /\ Declares(k)
            => targets[k] >= Want(k)

OpportunisticLoop ==
    remaining > 0 => \A k \in Group :
        /\ Through("opportunistic", {"overflow", "done"}, k)
        /\ IsOpportunistic(groups[k])
        => targets[k] >= observed[k]

OverflowLoop ==
    remaining > 0 => \A k \in Group :
        Through("overflow", {"done"}, k) /\ ~IsOpportunistic(groups[k]) =>
            /\ hasStaticCeiling(groups[k])
            /\ targets[k] >= GroupCeiling(total, groups[k])

\* Nothing is handed out ahead of the phase that hands it out.
NotYet ==
    \A k \in Group :
        /\ phase = "call" \/ (phase = "floors" /\ k >= i) => targets[k] = 0
        /\ phase \in {"call", "floors"} => targets[k] <= GroupFloor(groups[k])
        /\ \/ phase = "targets"
           \/ phase = "opportunistic" /\ ~IsOpportunistic(groups[k])
           => \/ targets[k] <= GroupFloor(groups[k])
              \/ Declares(k) /\ targets[k] <= Want(k)

Room == \A k \in Group : targets[k] + remaining <= total

Inv ==
    /\ TypeOK
    /\ FloorLoop /\ TargetLoop /\ OpportunisticLoop /\ OverflowLoop
    /\ NotYet /\ Room
    /\ EveryReplicaAccountedFor
    /\ CeilingHonoured
    /\ CascadeOrder /\ DeclaredShareFirst /\ FreeCapacityFirst

=============================================================================
