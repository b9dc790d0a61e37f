----------------------------- MODULE PoolStatus -----------------------------
(***************************************************************************)
(* What a pool's status says: observedGeneration, the group rows with      *)
(* their progress clocks, and the conditions (internal/controller:         *)
(* conditions.go, and the parts of podpool_controller.go and               *)
(* opportunistic.go that fill and judge the rows).  A pass reads the pool  *)
(* from a cache that may lag, sizes the children, and sends what changed   *)
(* in the status as a merge patch, while the user edits and pauses.        *)
(***************************************************************************)
EXTENDS Distribution, FiniteSetsExt

CONSTANTS
    Scalings,   \* spec.groups: the scaling of each group, in list order
    Totals,     \* values of spec.replicas
    Deadline,   \* progressDeadlineSeconds, in ticks
    Faults,     \* what may go wrong, and what the user may do
    Budget      \* how often, in all

ASSUME ScalingsAssumption == Scalings \in Seq(Scaling)
ASSUME TotalsAssumption   == Totals \subseteq Nat
ASSUME DeadlineAssumption == Deadline \in Nat \ {0}
ASSUME BudgetAssumption   == Budget \in Nat

VARIABLES
    pool,     \* the pool in the API server: spec, metadata, status
    cache,    \* the informer's copy of it
    queued,   \* the workqueue is bound to hand out the pool's name
    asked,    \* spec.replicas of each group's child, Nil without a child
    ready,    \* status.readyReplicas of each group's child
    pass,     \* the pool as the pass in progress read it, or NoPass
    budget,   \* disturbances left
    acted     \* history: the last generation acted on, the time since it
              \* was first acted on, the groups that failed since then, and
              \* whether a pass since then had read rows older than the server's

vars == <<pool, cache, queued, asked, ready, pass, budget, acted>>

-----------------------------------------------------------------------------
Group == DOMAIN Scalings

Outcomes == {"Applied", "WorkloadNotOwned", "GroupSpecInvalid", "GroupReconcileFailed"}

Conditions == {"Available", "Progressing", "TargetDegraded", "GroupsReady", "Ready"}

\* LastProgressTime is kept as its age, up to the deadline; Nil is nil.
NoRow  == [target |-> Nil, ready |-> 0, age |-> Nil, reason |-> "none"]
NoCond == [status |-> FALSE, reason |-> "none", gen |-> 0]
NoPass == [gen |-> 0]

Shortfall(row) == Greater(0, row.target - row.ready)

Disturb(what) ==
    /\ what \in Faults
    /\ budget > 0
    /\ budget' = budget - 1

Init ==
    /\ pool \in [gen : {1}, replicas : Totals, valid : {TRUE}, paused : {FALSE},
                 observed : {0}, rows : {[g \in Group |-> NoRow]},
                 conds : {[c \in Conditions |-> NoCond]}]
    /\ cache = pool /\ queued = TRUE
    /\ asked = [g \in Group |-> Nil]
    /\ ready = [g \in Group |-> 0]
    /\ pass = NoPass
    /\ budget = Budget
    /\ acted = [gen |-> 0, age |-> 0, failed |-> {}, behind |-> FALSE]

\* What the distribution makes of each spec.replicas.  No group here is
\* opportunistic, so the capacity map is empty.
Distribute ==
    [total \in Totals |-> ComputeGroupTargets(total, Scalings, [g \in Group |-> Nil])]

-----------------------------------------------------------------------------
(* The rows.                                                               *)

\* A failed group carries its last row forward under the new reason; without
\* one it starts from its target.
FailedRow(prev, target, reason) ==
    IF prev = NoRow THEN [NoRow EXCEPT !.target = target, !.reason = reason]
    ELSE [prev EXCEPT !.reason = reason]

\* Mutant of Stamps: an unchanged shortfall counts as progress.
StampsUnchanged(row, prev, changed) ==
    /\ Shortfall(row) > 0
    /\ \/ prev = NoRow \/ changed
       \/ Shortfall(row) <= Shortfall(prev) \/ row.target > prev.target

\* Stamped when the shortfall appears or shrinks, the target rises or the
\* generation changed; otherwise the clock runs on.
Stamps(row, prev, changed) ==
    /\ Shortfall(row) > 0
    /\ \/ prev = NoRow \/ changed
       \/ Shortfall(prev) = 0
       \/ Shortfall(row) < Shortfall(prev)
       \/ row.target > prev.target

stampGroupProgress(row, prev, changed) ==
    [row EXCEPT !.age = IF Shortfall(row) = 0 THEN Nil
                        ELSE IF Stamps(row, prev, changed) THEN 0
                        ELSE prev.age]

\* evaluateStalled, for one row.
Stalled(row) == Shortfall(row) > 0 /\ row.age # Nil /\ row.age >= Deadline

\* The reason of a row the pass reconciled (assignGroupReasons).  A child
\* whose controller has not observed its spec yet is not told apart here from
\* one that is still updating.
Judged(row) ==
    [row EXCEPT !.reason =
        IF Stalled(row) THEN "ProgressDeadlineExceeded"
        ELSE IF row.ready < row.target THEN "ReplicasUpdating"
        ELSE IF row.target = 0 THEN "ScaledToZero" ELSE "AllReplicasReady"]

genChanged == pass.observed # pass.gen

\* A child as the pass observed it: its counts before it is resized.
Observed(g) ==
    [NoRow EXCEPT !.target = Distribute[pass.replicas].Targets[g], !.ready = ready[g]]

\* status.groups after a pass whose groups ended as "outcome" says.
Rows(outcome) ==
    [g \in Group |->
        IF outcome[g] # "Applied"
        THEN FailedRow(pass.rows[g], Observed(g).target, outcome[g])
        ELSE Judged(stampGroupProgress(Observed(g), pass.rows[g], genChanged))]

\* A fresh stamp differs from every earlier one.
Stamped(outcome) ==
    \E g \in Group : outcome[g] = "Applied" /\ Stamps(Observed(g), pass.rows[g], genChanged)

-----------------------------------------------------------------------------
(* The conditions.                                                         *)

Cond(status, reason, gen) == [status |-> status, reason |-> reason, gen |-> gen]

\* Mutant of haltedConditions: the generation is stamped.
haltedConditionsStamp(reason) ==
    [pass EXCEPT !.observed = pass.gen, !.conds =
        [c \in Conditions |-> IF c \in {"Progressing", "Ready"}
                              THEN Cond(FALSE, reason, pass.gen) ELSE @[c]]]

\* A pass that stopped early touches two conditions and stamps nothing.
haltedConditions(reason) ==
    [pass EXCEPT !.conds =
        [c \in Conditions |-> IF c \in {"Progressing", "Ready"}
                              THEN Cond(FALSE, reason, pass.observed) ELSE @[c]]]

\* The precedence table of the summary condition.
summaryReady(in) ==
    IF in.desired = 0 THEN <<TRUE, "ScaledToZero">>
    ELSE IF in.terminal # {} THEN <<FALSE, "GroupSpecInvalid">>
    ELSE IF in.failed # {} THEN <<FALSE, "GroupReconcileFailed">>
    ELSE IF in.unplaced > 0 THEN <<FALSE, "CeilingsBelowDesired">>
    ELSE IF in.ready = 0 THEN <<FALSE, "NoReplicasAvailable">>
    ELSE IF in.stalled # {} THEN <<FALSE, "ProgressDeadlineExceeded">>
    ELSE IF in.ready < in.desired THEN <<FALSE, "ReplicasUpdating">>
    ELSE <<TRUE, "PoolReady">>

available(in) ==
    IF in.desired = 0 THEN <<TRUE, "ScaledToZero">>
    ELSE IF in.ready > 0 THEN <<TRUE, "MinimumReplicasAvailable">>
    ELSE <<FALSE, "NoReplicasAvailable">>

progressing(in) ==
    IF in.unplaced > 0 THEN <<FALSE, "CeilingsBelowDesired">>
    ELSE IF in.stalled # {} THEN <<FALSE, "ProgressDeadlineExceeded">>
    ELSE IF in.ready < in.desired THEN <<TRUE, "ReplicasUpdating">>
    ELSE <<FALSE, "AllReplicasReady">>

degraded(in) ==
    IF in.unplaced > 0 THEN <<TRUE, "CeilingsBelowDesired">>
    ELSE IF in.targetDegraded THEN <<TRUE, "AbsoluteConstraintOverride">>
    ELSE <<FALSE, "TargetsSatisfied">>

groupsReady(in) ==
    IF in.poolInvalid THEN <<FALSE, "GroupSpecInvalid">>
    ELSE IF in.failed = {} THEN <<TRUE, "AllGroupsReconciled">>
    ELSE IF in.notOwned # {} THEN <<FALSE, "WorkloadNotOwned">>
    ELSE IF in.terminal = in.failed THEN <<FALSE, "GroupSpecInvalid">>
    ELSE <<FALSE, "GroupReconcileFailed">>

\* Mutant of setConditions: the generation is taken from the pool as it is
\* now, not as it was read.
setConditionsLive(in) ==
    LET at(verdict) == Cond(verdict[1], verdict[2], pool.gen)
    IN  [pass EXCEPT
            !.observed = pool.gen,
            !.conds = [Available      |-> at(available(in)),
                       Progressing    |-> at(progressing(in)),
                       TargetDegraded |-> at(degraded(in)),
                       GroupsReady    |-> at(groupsReady(in)),
                       Ready          |-> at(summaryReady(in))]]

\* All five conditions and observedGeneration, from one generation.
setConditions(in) ==
    LET at(verdict) == Cond(verdict[1], verdict[2], pass.gen)
    IN  [pass EXCEPT
            !.observed = pass.gen,
            !.conds = [Available      |-> at(available(in)),
                       Progressing    |-> at(progressing(in)),
                       TargetDegraded |-> at(degraded(in)),
                       GroupsReady    |-> at(groupsReady(in)),
                       Ready          |-> at(summaryReady(in))]]

\* conditionInputs of an unreadable template: only spec.replicas is known.
InvalidInputs ==
    [desired |-> pass.replicas, ready |-> 0, unplaced |-> 0, targetDegraded |-> FALSE,
     failed |-> {}, terminal |-> {}, notOwned |-> {}, stalled |-> {}, poolInvalid |-> TRUE]

TotalReady(rows) == MapThenSumSet(LAMBDA g : rows[g].ready, Group)

\* conditionInputs of a pass that went all the way.
Inputs(rows, outcome) ==
    LET Ended(how) == {g \in Group : outcome[g] = how} IN
    [desired        |-> pass.replicas,
     ready          |-> TotalReady(rows),
     unplaced       |-> Distribute[pass.replicas].Unplaced,
     targetDegraded |-> Distribute[pass.replicas].TargetDegraded,
     failed         |-> Group \ Ended("Applied"),
     terminal       |-> Ended("GroupSpecInvalid"),
     notOwned       |-> Ended("WorkloadNotOwned"),
     stalled        |-> {g \in Group : Stalled(rows[g])},
     poolInvalid    |-> FALSE]

-----------------------------------------------------------------------------
(* The pass.                                                               *)

\* Taken from the queue, or woken by what the model leaves out: a delayed
\* entry of an earlier pass, a resync, a restart.
Read ==
    /\ pass = NoPass
    /\ queued' = FALSE
    /\ pass' = cache
    /\ UNCHANGED <<pool, cache, asked, ready, budget, acted>>

\* The merge patch sends each field that differs from what was read, lists
\* whole, and overwrites what is there now.
Merge(field, after, differs) ==
    IF after[field] # pass[field] \/ differs THEN after[field] ELSE pool[field]

patchStatus(after, stamped) ==
    /\ pool' = [pool EXCEPT !.observed = Merge("observed", after, FALSE),
                            !.rows = Merge("rows", after, stamped),
                            !.conds = Merge("conds", after, FALSE)]
    /\ pass' = NoPass

\* The exits before any child is touched: paused, the template unreadable, no
\* informer for the kind.  Only a paused pool is not requeued.
exitPaused ==
    /\ pass # NoPass /\ pass.paused
    /\ patchStatus(haltedConditions("Paused"), FALSE)
    /\ UNCHANGED <<cache, queued, asked, ready, budget, acted>>

exitInvalid ==
    /\ pass # NoPass /\ ~pass.paused /\ ~pass.valid
    /\ patchStatus(setConditions(InvalidInputs), FALSE)
    /\ queued' = TRUE
    /\ UNCHANGED <<cache, asked, ready, budget, acted>>

exitWatchFailed ==
    /\ pass # NoPass /\ ~pass.paused /\ pass.valid
    /\ Disturb("watch")
    /\ patchStatus(haltedConditions("WatchSetupFailed"), FALSE)
    /\ queued' = TRUE
    /\ UNCHANGED <<cache, asked, ready, acted>>

\* An exit that leaves no trace: the informer is still filling, a child
\* cannot be read, or an early exit's status write fails.
exitSilent ==
    /\ pass # NoPass
    /\ Disturb("watch")
    /\ pass' = NoPass
    /\ queued' = TRUE
    /\ UNCHANGED <<pool, cache, asked, ready, acted>>

\* The whole pass, its groups ending as "outcome" says: a group that is
\* applied has its child resized.  The pool is requeued.
Complete(outcome) ==
    LET failed == {g \in Group : outcome[g] # "Applied"}
        behind == pass.rows # pool.rows IN
    /\ asked' = [g \in Group |-> IF g \in failed THEN asked[g]
                                 ELSE Distribute[pass.replicas].Targets[g]]
    /\ acted' = IF acted.gen = pass.gen
                THEN [acted EXCEPT !.failed = @ \cup failed, !.behind = @ \/ behind]
                ELSE [gen |-> pass.gen, age |-> 0, failed |-> failed, behind |-> behind]
    /\ queued' = TRUE
    /\ UNCHANGED <<cache, ready>>

Report(outcome) ==
    \E rows \in {Rows(outcome)} : \E in \in {Inputs(rows, outcome)} :
    \E after \in {[setConditions(in) EXCEPT !.rows = rows]} :
        patchStatus(after, Stamped(outcome))

Runs == pass # NoPass /\ ~pass.paused /\ pass.valid

AllApplied == [g \in Group |-> "Applied"]

reconcileGroups ==
    /\ Runs
    /\ Complete(AllApplied)
    /\ Report(AllApplied)
    /\ UNCHANGED budget

groupsFail ==
    /\ Runs
    /\ Disturb("group")
    /\ \E outcome \in [Group -> Outcomes] \ {AllApplied} :
          /\ Complete(outcome)
          /\ Report(outcome)

\* The status write fails; the children are written all the same.
patchFails ==
    /\ Runs
    /\ Disturb("patch")
    /\ Complete(AllApplied)
    /\ pass' = NoPass
    /\ UNCHANGED pool

-----------------------------------------------------------------------------
(* The cluster, the user, and time.                                        *)

\* A child's readiness moves towards its size, or falls back; the watch on
\* the children enqueues their pool.
PodReady(g) ==
    /\ ready[g] < asked[g]
    /\ ready' = [ready EXCEPT ![g] = @ + 1]
    /\ queued' = TRUE
    /\ UNCHANGED <<pool, cache, asked, pass, budget, acted>>

PodGone(g) ==
    /\ ready[g] > 0
    /\ IF ready[g] > asked[g] THEN UNCHANGED budget ELSE Disturb("pod")
    /\ ready' = [ready EXCEPT ![g] = @ - 1]
    /\ queued' = TRUE
    /\ UNCHANGED <<pool, cache, asked, pass, acted>>

\* Mutant of syncPool: annotations are filtered out as well.
syncPoolSpecOnly ==
    /\ cache # pool
    /\ cache' = pool
    /\ queued' = (queued \/ pool.gen # cache.gen)
    /\ UNCHANGED <<pool, asked, ready, pass, budget, acted>>

\* The informer delivers; updates of the status alone are filtered out
\* (poolPredicate).
syncPool ==
    /\ cache # pool
    /\ cache' = pool
    /\ queued' = (queued \/ <<pool.gen, pool.paused>> # <<cache.gen, cache.paused>>)
    /\ UNCHANGED <<pool, asked, ready, pass, budget, acted>>

\* A spec edit is a new generation; the pause annotation is not.
EditReplicas ==
    /\ Disturb("replicas")
    /\ \E n \in Totals \ {pool.replicas} :
          pool' = [pool EXCEPT !.gen = @ + 1, !.replicas = n]
    /\ UNCHANGED <<cache, queued, asked, ready, pass, acted>>

EditTemplate ==
    /\ Disturb("template")
    /\ \E readable \in BOOLEAN : pool' = [pool EXCEPT !.gen = @ + 1, !.valid = readable]
    /\ UNCHANGED <<cache, queued, asked, ready, pass, acted>>

Pause ==
    /\ Disturb("pause")
    /\ pool' = [pool EXCEPT !.paused = ~@]
    /\ UNCHANGED <<cache, queued, asked, ready, pass, acted>>

Older(age) == IF age = Nil THEN Nil ELSE Lesser(Deadline, age + 1)

AgeRows(p) ==
    [p EXCEPT !.rows =
        [g \in Group |-> [p.rows[g] EXCEPT !.age = Older(p.rows[g].age)]]]

\* Time passes between passes (a pass is short against the deadline).
Tick ==
    /\ pass = NoPass
    /\ pool' = AgeRows(pool) /\ cache' = AgeRows(cache)
    /\ acted' = [acted EXCEPT !.age = Older(@)]
    /\ UNCHANGED <<queued, asked, ready, pass, budget>>

-----------------------------------------------------------------------------
Finish ==
    \/ exitPaused \/ exitInvalid \/ exitWatchFailed \/ exitSilent
    \/ reconcileGroups \/ groupsFail \/ patchFails

Reconcile == Read \/ Finish

Next ==
    \/ Reconcile
    \/ \E g \in Group : PodReady(g) \/ PodGone(g)
    \/ syncPool \/ EditReplicas \/ EditTemplate \/ Pause \/ Tick

\* Workers take what is queued, within the deadline while a group is short,
\* and finish what they began;
\* the informer delivers; passes are short, so time passes between them.
\* Nothing makes a pod ready.
Fairness ==
    /\ WF_vars(queued /\ Read) /\ WF_vars(Finish)
    /\ WF_vars(syncPool) /\ SF_vars(Tick)

Spec == Init /\ [][Next]_vars /\ Fairness

-----------------------------------------------------------------------------
(* What the status promises.                                               *)

\* The types of the variables.  No pass drops a condition it does not set, and
\* none observes a generation that is yet to come.
TypeOK ==
    /\ \A p \in {pool, cache} :
          /\ p.gen \in 1 .. Budget + 1 /\ p.observed \in 0 .. p.gen
          /\ p.replicas \in Totals /\ p.valid \in BOOLEAN /\ p.paused \in BOOLEAN
          /\ \A g \in Group : p.rows[g].target \in Nat \cup {Nil}
                              /\ p.rows[g].age \in {Nil} \cup 0 .. Deadline
          /\ DOMAIN p.conds = Conditions
    /\ asked \in [Group -> Nat \cup {Nil}] /\ ready \in [Group -> Nat]
    /\ queued \in BOOLEAN /\ budget \in 0 .. Budget

\* "Is this pool doing what its spec asked?": when Ready is True for the
\* current generation, every child has been sized as that spec says.
ReadyMeansSized ==
    pool.conds["Ready"].status /\ pool.conds["Ready"].gen = pool.gen =>
        \A g \in Group : Greater(0, asked[g]) = Distribute[pool.replicas].Targets[g]

\* The same for a pool that is not scaled to zero.
ReadyMeansSizedAboveZero == TypeOK /\ (pool.replicas > 0 => ReadyMeansSized)

\* A spec that has just been acted on has its whole deadline before it: the
\* pool is not declared stalled sooner, whatever clock its groups ran on
\* before, unless an apply has failed since or a pass has patched rows it had
\* not read (what the patch does not send, an older clock too, stays).  An
\* edit made during a pause counts from the resume.
FreshDeadline ==
    /\ acted.failed = {} /\ ~acted.behind
    /\ pool.conds["Progressing"].reason = "ProgressDeadlineExceeded"
    /\ pool.conds["Progressing"].gen = acted.gen
    => acted.age >= Deadline

Running == ~pool.paused /\ pool.valid

\* A pool the informer does not show paused is never forgotten: its name is
\* queued, or a pass that did not read it paused is under way and will requeue
\* it.  A resume that is delivered while a pass that read the pool paused is
\* ending, the only one that does not requeue, is not lost with that pass; one
\* that is yet to be delivered differs from the cache and will enqueue.
NeverForgotten == ~cache.paused => queued \/ (pass # NoPass /\ ~pass.paused)

\* Once the disturbances stop, a running pool's status describes its children
\* and its spec.
StatusEventuallyTrue ==
    <>[](Running =>
           /\ pool.observed = pool.gen
           /\ \A g \in Group :
                 /\ pool.rows[g].target = Distribute[pool.replicas].Targets[g]
                 /\ pool.rows[g].ready = ready[g])

\* Once the disturbances stop, a group that stays short is reported stalled,
\* unless its applies have failed since the spec was first acted on.
Reported(g) ==
    Running /\ ready[g] < asked[g] => pool.rows[g].reason = "ProgressDeadlineExceeded"

StuckEventuallyReported == <>[](\A g \in Group \ acted.failed : Reported(g))

\* "Only a requeue can turn elapsed time into a verdict": the same, for the
\* groups whose applies have failed before as well.
EveryStuckGroupReported == <>[](\A g \in Group : Reported(g))

=============================================================================
