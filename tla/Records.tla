------------------------------- MODULE Records -------------------------------
(***************************************************************************)
(* What the process remembers about a pool, and when it forgets: the       *)
(* Prometheus series (internal/controller/metrics.go), the probe records   *)
(* and the out-of-range gate (opportunistic.go), all of them keyed by the  *)
(* pool's name and not by its UID.  They outlive groups that are removed,  *)
(* pools that are deleted and pools that are created anew under the same   *)
(* name; the only notice of a deletion is a pass that does not find the    *)
(* pool in a cache that lags.                                              *)
(*                                                                         *)
(* One pool name is modelled: the workqueue gives it to one worker at a    *)
(* time.  Of the pool's spec only the group names matter, of its status    *)
(* the rows (status.groups by name) and the condition types; of a series   *)
(* only whether it is exported.                                            *)
(***************************************************************************)
EXTENDS Naturals, FiniteSets

CONSTANTS
    Groups,         \* the group names a pool may list
    Opportunistic,  \* those that are opportunistic
    Erratic,        \* those whose child may publish a count out of range
    Types,          \* condition types, besides the controller's own
    Retired,        \* retiredConditionTypes
    Scenarios       \* what users do and what goes wrong, and how often

ASSUME GroupsAssumption ==
    Groups # {} /\ Opportunistic \subseteq Groups /\ Erratic \subseteq Groups
ASSUME TypesAssumption == Retired \subseteq Types

\* "of" names the disturbances, "left" how many may still happen.
ASSUME ScenariosAssumption == \A s \in Scenarios : s.left \in Nat

VARIABLES
    pool,     \* the pool in the API server, or Gone
    cached,   \* the informer's copy of it
    queued,   \* the workqueue holds the pool's name
    pass,     \* the copy the pass in progress has read, or NoPass
    series,   \* what the process exports under the pool's name
    probes,   \* groups with a probe record
    warned,   \* groups whose out-of-range event has been sent
    budget    \* what is left of the behaviour's scenario

memory == <<series, probes, warned>>
vars == <<pool, cached, queued, pass, series, probes, warned, budget>>

-----------------------------------------------------------------------------
Pool == [groups : (SUBSET Groups) \ {{}}, paused : BOOLEAN, dying : BOOLEAN,
         rows : SUBSET Groups, types : SUBSET Types]

Gone   == [groups |-> {}, paused |-> FALSE, dying |-> FALSE, rows |-> {}, types |-> {}]
NoPass == [groups |-> {}, paused |-> TRUE, dying |-> TRUE, rows |-> {}, types |-> {}]

\* Pool-wide series, and those with a label for a group or a condition type.
NoSeries == [pool |-> FALSE, groups |-> {}, types |-> {}]

New(gs) == [Gone EXCEPT !.groups = gs]

Disturb(what) ==
    /\ what \in budget.of
    /\ budget.left > 0
    /\ budget' = [budget EXCEPT !.left = @ - 1]

\* The process starts and finds a pool written by an earlier version, or none.
Init ==
    /\ budget \in Scenarios
    /\ \/ pool = Gone
       \/ \E gs \in (SUBSET Groups) \ {{}}, ts \in SUBSET Retired :
             pool = [New(gs) EXCEPT !.rows = gs, !.types = ts]
    /\ cached = pool
    /\ queued = (pool # Gone)
    /\ pass = NoPass
    /\ series = NoSeries /\ probes = {} /\ warned = {}

-----------------------------------------------------------------------------
(* metrics.go                                                              *)

\* The rows' and the conditions' series are set; nothing is taken away.
recordPoolMetricsFromStatus(s, status) ==
    [pool |-> TRUE, groups |-> s.groups \cup status.rows, types |-> s.types \cup status.types]

\* Mutant of deleteStaleGroupMetrics: departed groups are skipped.
deleteStaleGroupMetricsSkips(s, current, previous) == s

\* What the pass read and no longer lists is deleted.
deleteStaleGroupMetrics(s, current, previous) ==
    [s EXCEPT !.groups = @ \ (previous \ current)]

deleteStaleConditionMetrics(s, current, previous) ==
    [s EXCEPT !.types = @ \ (previous \ current)]

deletePoolMetrics(s) == NoSeries

-----------------------------------------------------------------------------
(* Reconcile.                                                              *)

\* The request is taken and the pool read from the cache.  A copy that is
\* behind the API server is a disturbance.
PassBegins ==
    /\ pass = NoPass
    /\ queued
    /\ IF cached = pool THEN UNCHANGED budget ELSE Disturb("lag")
    /\ cached # Gone /\ ~cached.dying
    /\ pass' = cached
    /\ queued' = FALSE
    /\ UNCHANGED <<pool, cached, memory>>

\* Mutant of PassFindsNothing: the clean-up is left to a terminating copy.
PassFindsNothingLate ==
    /\ pass = NoPass
    /\ queued
    /\ cached = Gone \/ cached.dying
    /\ queued' = FALSE
    /\ IF cached # Gone
       THEN series' = deletePoolMetrics(series) /\ probes' = {} /\ warned' = {}
       ELSE UNCHANGED memory
    /\ UNCHANGED <<pool, cached, pass, budget>>

\* A pool that is not found is cleaned up after (deletePoolMetrics and
\* forgetProbes); a terminating one gets no writes at all.
PassFindsNothing ==
    /\ pass = NoPass
    /\ queued
    /\ cached = Gone \/ cached.dying
    /\ queued' = FALSE
    /\ IF cached = Gone
       THEN series' = deletePoolMetrics(series) /\ probes' = {} /\ warned' = {}
       ELSE UNCHANGED memory
    /\ UNCHANGED <<pool, cached, pass, budget>>

\* The deferred status write: a merge patch by name, of the fields that
\* differ from what the pass read.
patchStatus(after) ==
    [pool EXCEPT !.rows  = IF after.rows # pass.rows THEN after.rows ELSE @,
                 !.types = IF after.types # pass.types THEN after.types ELSE @]

\* The deferred function: series first, then the patch, whose failure (not
\* that the pool is gone) brings the pass back.  "halt" says that the pass
\* was cut short, which is a disturbance too.
PublishAndPatch(s, after, again, halt) ==
    /\ series' = recordPoolMetricsFromStatus(
                     deleteStaleConditionMetrics(s, after.types, pass.types), after)
    /\ pass' = NoPass
    /\ UNCHANGED cached
    /\ \/ /\ pool' = IF pool = Gone THEN Gone ELSE patchStatus(after)
          /\ queued' = (queued \/ again)
          /\ IF halt THEN Disturb("halt") ELSE UNCHANGED budget
       \/ /\ Disturb("patch") /\ pool # Gone
          /\ queued' = TRUE
          /\ UNCHANGED pool

setConditions(copy) == [copy EXCEPT !.types = @ \ Retired]

\* Mutant of PausedPass: the early return skips the recording.
PausedPassSilent ==
    /\ pass # NoPass /\ pass.paused
    /\ pass' = NoPass
    /\ pool' = IF pool = Gone THEN Gone ELSE patchStatus(setConditions(pass))
    /\ UNCHANGED <<cached, queued, memory, budget>>

\* A paused pool is not looked at again until it changes.
PausedPass ==
    /\ pass # NoPass /\ pass.paused
    /\ PublishAndPatch(series, setConditions(pass), FALSE, FALSE)
    /\ UNCHANGED <<probes, warned>>

\* An early return: with conditions (the template is invalid, the watch
\* failed) or without (the informer is syncing, a child could not be read).
HaltedPass ==
    /\ pass # NoPass /\ ~pass.paused
    /\ "halt" \in budget.of
    /\ \E after \in {pass, setConditions(pass)} : PublishAndPatch(series, after, TRUE, TRUE)
    /\ UNCHANGED <<probes, warned>>

\* Mutant of FullPass: a pool that needs no write is not looked at again.
FullPassOnce(bad) ==
    /\ pass # NoPass /\ ~pass.paused
    /\ bad \subseteq Erratic \cap pass.groups
    /\ LET after == [setConditions(pass) EXCEPT !.rows = pass.groups] IN
       PublishAndPatch(deleteStaleGroupMetrics(series, after.rows, pass.rows), after,
                       after # pass, FALSE)
    /\ probes' = probes \cup (Opportunistic \cap pass.groups)
    /\ warned' = (warned \ pass.groups) \cup bad

\* A pass to the end: every listed group gets a row, whatever became of it,
\* opportunistic ones a probe record (decideProbe); "bad" are the groups
\* whose child published a count out of range.  There is always a requeue.
FullPass(bad) ==
    /\ pass # NoPass /\ ~pass.paused
    /\ bad \subseteq Erratic \cap pass.groups
    /\ LET after == [setConditions(pass) EXCEPT !.rows = pass.groups] IN
       PublishAndPatch(deleteStaleGroupMetrics(series, after.rows, pass.rows), after, TRUE, FALSE)
    /\ probes' = probes \cup (Opportunistic \cap pass.groups)
    /\ warned' = (warned \ pass.groups) \cup bad

-----------------------------------------------------------------------------
(* The cluster.                                                            *)

\* The informer catches up.  Status writes pass the predicate unnoticed.
CacheCatchesUp ==
    /\ cached # pool
    /\ cached' = pool
    /\ queued' = (queued \/ <<pool.groups, pool.paused, pool.dying>>
                           # <<cached.groups, cached.paused, cached.dying>>)
    /\ UNCHANGED <<pool, pass, memory, budget>>

Write(what, new) ==
    /\ Disturb(what)
    /\ new # pool
    /\ pool' = new
    /\ UNCHANGED <<cached, queued, pass, memory>>

UserEdits(gs) == pool # Gone /\ ~pool.dying /\ Write("edit", [pool EXCEPT !.groups = gs])
UserPauses    == pool # Gone /\ ~pool.dying /\ Write("pause", [pool EXCEPT !.paused = ~@])
UserCreates(gs) == pool = Gone /\ Write("create", New(gs))

\* With foreground deletion the pool is there for a while, terminating.
UserDeletes == pool # Gone /\ \E new \in {Gone, [pool EXCEPT !.dying = TRUE]} : Write("delete", new)

\* The garbage collector finishes a foreground deletion.
PoolVanishes ==
    /\ pool.dying
    /\ pool' = Gone
    /\ UNCHANGED <<cached, queued, pass, memory, budget>>

\* Somebody else adds a condition to the status or takes it away.
OthersSetCondition(t) ==
    /\ pool # Gone
    /\ Write("condition", [pool EXCEPT !.types = IF t \in @ THEN @ \ {t} ELSE @ \cup {t}])

\* The process dies, and starts by listing what exists.
Restart ==
    /\ Disturb("restart")
    /\ series' = NoSeries /\ probes' = {} /\ warned' = {}
    /\ pass' = NoPass
    /\ cached' = pool /\ queued' = (pool # Gone)
    /\ UNCHANGED pool

-----------------------------------------------------------------------------
Reconcile ==
    \/ PassBegins \/ PassFindsNothing
    \/ PausedPass \/ HaltedPass \/ \E bad \in SUBSET Erratic : FullPass(bad)

Next ==
    \/ Reconcile \/ CacheCatchesUp
    \/ \E gs \in (SUBSET Groups) \ {{}} : UserEdits(gs) \/ UserCreates(gs)
    \/ UserPauses \/ UserDeletes \/ PoolVanishes
    \/ \E t \in Types \ Retired : OthersSetCondition(t)
    \/ Restart

\* Workers serve the queue, informers catch up, the garbage collector works.
Spec == Init /\ [][Next]_vars /\ WF_vars(Reconcile) /\ WF_vars(CacheCatchesUp) /\ WF_vars(PoolVanishes)

-----------------------------------------------------------------------------
(* What is promised of the records.                                        *)

\* The types of the variables.  Only opportunistic groups have probe records,
\* only erratic ones a closed gate.
TypeOK ==
    /\ pool \in Pool \cup {Gone} /\ cached \in Pool \cup {Gone} /\ pass \in Pool \cup {NoPass}
    /\ queued \in BOOLEAN
    /\ series \in [pool : BOOLEAN, groups : SUBSET Groups, types : SUBSET Types]
    /\ probes \subseteq Opportunistic /\ warned \subseteq Erratic
    /\ \E s \in Scenarios : s.of = budget.of /\ budget.left \in 0 .. s.left

Forgotten == series = NoSeries /\ probes = {} /\ warned = {}

\* No deletion goes unnoticed: once the cache has lost the pool, a pass will
\* find that out for as long as the process remembers the pool or a pass on
\* an older copy is about to make it remember.  Nothing else cleans up, and
\* the informer will say nothing more.
DeletionNoticed == TypeOK /\ (cached = Gone /\ (pass # NoPass \/ ~Forgotten) => queued)

\* A pool that is gone for good leaves nothing behind in the process: no
\* series that an alert goes on firing for, no probe record, no gate.  It
\* holds for every order of deletion, status writes, passes on stale copies
\* and restarts, and for both kinds of deletion.
GoneIsForgotten == <>[](pool = Gone) => <>[]Forgotten

Alive == pool # Gone /\ ~pool.dying

\* A living pool is exported with every row of its status, paused or not,
\* and again after a restart.
LivingIsExported == <>[]Alive => <>[](series.pool /\ pool.rows \subseteq series.groups)

\* The status of a pool that runs comes to list exactly the groups of its
\* spec, although passes compute their patch from stale copies, and patches
\* for a deleted pool land on its successor.
RowsFollowSpec == <>[](Alive /\ ~pool.paused) => <>[](pool.rows = pool.groups)

Following == series.groups = pool.groups /\ series.types = pool.types

\* "A set that shrinks needs the difference deleting, not merely skipping":
\* what a running pool exports comes to be what its spec lists and its status
\* says.  Only where the pass reads what the pass before it wrote: a stale
\* copy, a lost status write or a successor under the same name leave the
\* series of a departed group behind for as long as the process lives, and
\* so do conditions other actors take away.
SeriesFollowStatus ==
    budget.of \cap {"lag", "patch", "create", "condition"} = {} =>
        (<>[](Alive /\ ~pool.paused) => <>[]Following)

=============================================================================
