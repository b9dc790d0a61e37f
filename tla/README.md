# podpool-controller: TLA+ models, checks and proofs

A PodPool asks for `spec.replicas` replicas of one workload template, spread
over an ordered list of groups. The controller computes how many replicas each
group gets, writes one child workload per group with server-side apply, deletes
children nobody needs any more, and publishes a status. This directory holds
TLA+ specifications of that logic, the TLC configurations that check them, and
TLAPS proofs. Every safety property that a passing run checks is proved for all
values of the constants; the distribution is also shown to implement an abstract
priority allocation and to return what an independent closed form says, and the
merge of documents to be the one RFC 7386 defines.

## The system

| Part | State it keeps | Operations | Correct when |
|---|---|---|---|
| Distribution (`internal/workload/algorithm.go`) | none; a pure function of the total, the groups and the observed capacities | `ComputeGroupTargets`: floors, percentage targets, opportunistic fill, overflow | every replica is placed once or reported unplaced; ceilings, list order, declared shares and "free before paid" are honoured |
| Opportunistic sizing (`internal/controller/opportunistic.go`) | one in-memory `probeState` per group | `observeOpportunistic`, `capacityFrom`, `decideProbe`, `applyProbes` | replicas that do not fit move to the group behind; nobody is shrunk for an unproven replica; free room is found; no probe stays open |
| Child life cycle (`podpool_controller.go`) | the children in the API server; `status.groups[].workloadRef` | `reconcileWorkload`, `sweepAllOrphans`, `confirmOrphan` | nothing foreign is deleted; a replacement exists before the old child goes; nothing leaks |
| Status (`conditions.go`, `podpool_controller.go`) | conditions, group rows with `lastProgressTime`, `observedGeneration` | `setConditions`, `stampGroupProgress`, `evaluateStalled`, `patchStatus` | what it says was true of one spec; stuck groups get reported |
| Watches (`watch.go`) | `watchStates`, `watchPendingSince`, `watchFailureEmitted` under `watchMu` | `ensureWatch` | one handler per live informer, failures surface |
| Admission (`internal/webhook`) | none; the stored pools are its state | `Default`, `ValidateCreate`, `ValidateUpdate` | no rule is bypassed in several steps; no stored pool is beyond repair or pause; warnings are true |
| Records (`metrics.go`, `opportunistic.go`) | Prometheus series, probe records, "already emitted" gates, by pool name | recording, deletion of departed series, clean-up on not found | nothing outlives its pool; a living pool is exported |
| Rendering (`internal/workload/render.go`) | none | `BuildChildWorkload`, `MergeMaps`, `ReadInt32Checked` | the controller's fields win, the user's are kept; counts stay storable and comparable |
| Events, wiring | none of their own | event gating, `main` | one event per change |

The parts meet inside `Reconcile`. One pass reads the pool from the informer
cache, exits early if it is paused, unreadable or unwatched, observes the
opportunistic children, distributes, lays probes on top, reconciles group by
group (a failure does not stop the others), sweeps, stamps, sets conditions and
sends the status as one merge patch in a deferred call. At most one pass per
pool runs at a time. Everybody else runs in between: the informers, the workload
controllers, the scheduler, users, autoscalers, and the manager's own restarts.

What is hard here:

* **stale reads**: pool and children come from caches that lag behind the
  controller's own writes, and the status patch carries no resourceVersion;
* **memory that dies, or does not**: probe records and series survive no
  restart, but they do survive their group and, kept by name, their pool;
* **shared watches**: passes of several pools fetch, test, replace and register
  one informer, with a lock around half of it;
* **rules that come and go**: pools stored without the webhook, or before a rule,
  must stay repairable;
* **gaps**: between an ownership check and the write or delete that relies on it;
* **partial failure**: any group, sweep or status write may fail on its own;
* **time**: heartbeats, probe timeouts and progress deadlines race with late
  answers, pauses and edits;
* **arithmetic**: four phases drawing on one remainder.

`PROJECT.json` lists these hazards line by line with the properties aimed at them.

## Modules

| Module | Models | Composition |
|---|---|---|
| `Distribution` | constraint vocabulary (`GroupFloor`, `GroupTarget`, `GroupCeiling`, ...) and `ComputeGroupTargets` as an operator | used by `Distributor`, `Opportunistic`, `PoolStatus`, `Admission` |
| `Distributor` | `ComputeGroupTargets`, one action per loop iteration; loop invariants; the refinement mapping | extends `Distribution`, instantiates `Allocation` |
| `Allocation` | what the distribution promises: a stock handed out in strict priority | abstract specification |
| `DistributionReference` | a closed form of the result | extends `Distributor` and `Sums` |
| `Sums` | the running sums of a list | used by `DistributionReference` and `Documents` |
| `DistributionProofs` | TLAPS lemmas about the operator `ComputeGroupTargets`, induction over intervals | used by four of the proof modules below |
| `WorkloadProofs` | the TLAPS proofs of package `internal/workload`: `Distributor`, `DistributionReference`, `Documents` | extends the three |
| `OpportunisticProofs`, `ChildrenProofs`, `PoolStatusProofs`, `WatchProofs`, `AdmissionProofs`, `RecordsProofs` | the TLAPS proofs of the other parts | each extends its specification |
| `Opportunistic` | sizing and probing of one opportunistic group with an unbounded group behind it | calls `ComputeGroupTargets` |
| `Children` | apply, ownership, sweep, `workloadRef` | on its own |
| `PoolStatus` | every exit of a pass, the workqueue, rows, clocks, conditions, merge patch | calls `ComputeGroupTargets` |
| `Watch` | `ensureWatch` for concurrent passes, informers and their library | its outcomes are exits of `PoolStatus` |
| `Admission` | webhooks, CEL rules, scale subresource | calls `ComputeGroupTargets` |
| `Records` | series, probe records and gates against deletion, recreation and restart | on its own |
| `Documents` | rendering of children and reading of their counts | extends `Sums` |
| `MC*` | constants for TLC | one per specification |

Operators that begin with another definition's name and are introduced as its
mutants are deliberately broken variants of it. They are used by no
specification; substituting one for the original shows that the property it is
paired with in `PROJECT.json` can fail.

### Distributor

`total`, `groups` and `observed` are the arguments; `targets`, `remaining` and
`phase`/`i` are the Go locals and the loop position. `Place` is the body shared
by the loops. A group's target is a percentage; numbers outside 1..100 stand
for a target that does not parse, `Nil` for an absent pointer. The tolerance
test of `checkTargetDegraded` is done in integers, so the rounding of the Go
float comparison at an exact half point is not represented. The closed form in
`DistributionReference` says what four rounds of "serve in list order from a
stock" give. It differs from the code exactly when a never-sized opportunistic
group already holds its floor, which is the first finding below.

`Allocation` says the same without an algorithm: claims in four classes (floors,
declared shares, free capacity, overflow), within a class in list order; a grant
needs every earlier claim satisfied; the allocation settles with an empty stock or
no claim left. `Claimed` in `Distributor` maps a group's constraints to its
claims, `targets` and `remaining` are the holdings and the stock, and phase
"done" is settled. A never-sized group may take any part of its claim to free
capacity, since the code offers it less than it could (same finding).

### Opportunistic

`child` is the object in the API server, `cache` the informer's copy, `pods`
what the scheduler made of it. A pass is `observeOpportunistic` (with
`countUnschedulable` or `countFails`), `applyProbes` (`capacityFrom`,
`ComputeGroupTargets`, `decideProbe`), `applyScavenger`, `applyBurst`: the points
at which the code talks to the API server. `probe` holds ages in place of
timestamps, capped at the bound they are compared with. `Restart` empties it. A
tick happens when the cluster has come to rest; a component slower than a tick
is a disturbance ("slow"), as is a pass that reads a cache behind the API server
("lag"). `MaxUnschedulable` is the page limit of the pod list (256 in the code, 1
or 2 here): the pods on the page are any of the Pending ones.

### Children

Objects have a UID, a controller reference, labels, and a history flag telling
whether the pool ever controlled them. Names depend on the group only, so kinds
share names. A pass goes through read, apply, sweep per kind, confirm, delete
and status write one step at a time; users delete, release, relabel and create
objects between any two. `Cached` is the label-selected cache of `cmd/main.go`.

### PoolStatus

`pass` is the pool as read from the cache (`before` in the code). The body of a
full pass is one action: what it reads besides the pool is the children's ready
counts, and the interleavings that matter are those between the read, the write
and the edits. `Merge` sends a field only if it differs from what was read, and
lists whole. `lastProgressTime` is an age up to the deadline; a row stamped anew
counts as different. `acted` is history for `FreshDeadline`: the generation last
acted on, how long ago that was first done, which groups have failed since, and
whether a pass has since patched rows it had read from a copy behind the server's
(`behind`). `queued` is the
workqueue: `syncPool` sets it when the copy that arrives differs in generation or
annotations (`poolPredicate`), passes set it by their requeue, and only a queued
pool is bound to get a pass.

### Watch

The state under `watchMu` (`watchStates`, `pendingSince`, `failureEmitted`), the
cache's informer and the instances passes still hold, and one pass per pool.
`ensureWatch` is split wherever another pass may come between: fetch, test for
stop, removal, forgetting, registration, sync test, bookkeeping. A registration
only starts a source; the library later looks up whatever informer the cache
holds then, waits for it to sync and adds the handler (`SourceJoins`,
`HandlerAdded`, modelled from how `source.Kind` is used). Kinds share nothing, so
there is one.

### Admission

The state is the stored pool, whether webhook and CEL rules are installed, and
history (how the kind came in, whether every write met both). A write is
defaulted, checked by the schema with ratcheting, then validated. Documents are
reduced to what the checks find: a kind that can be read or not, a
`.spec.template` or none, and per group the controller's paths its overrides set
(`owned`) and the error in which rendering or decoding its child ends (`child`).
Names, scalings and lists are kept. An error is a record of group, type, field and
detail, and `downgradePreExisting` compares all but the field, as the code does
(`podpool_webhook.go:556`): the field has the group's index in it. `legacy` is
history for `ErrorsInherited`: the errors the pool had when it was last written
without the webhook. A child that cannot be rendered is not decoded, so mending it
can bring up a type error that was hidden; that edit is refused, and
`RepairAccepted` speaks of repairs that leave a subset of the errors.

### Records

One pool name, its group names and condition types, the lagging copy, the queue,
and the process's memory. The deferred function (recording, then patch) is part
of every pass. A pass is its read and its end; other writers come between.

### Documents

A document is a map from keys to nodes; a node is a map again, a string, a null, or
a number, which stands for every other value that is no map. `Maps` is the set of
maps that occur in templates and overrides, at any level, and `Depth` how deep each
is: a decoded document is a finite tree, and the decoder accepts no nesting beyond
a fixed limit (`MaxDepth`). That lets the merge be a recursive function on pairs
of maps. `BuildChildWorkload` is merge, strip, and write of owned fields (the
child's name, namespace, owner, labels, selector and replicas); ten pasted metadata keys are two here, one that only identifies and one the controller
sets itself. `UserFieldsKept` compares every other field with RFC 7386 written down
independently (`MergePatch`). `MaxInt32` is a constant, 3 in the run. One count
stands for the three a child publishes, which are read alike.

## Runs

Disturbances draw on a budget, so that "once the disturbances stop" needs no
extra machinery: a run explores every placement of that many of them. `Scenarios`
name which disturbances come together.

| Run | Configuration | Checks | Bounds |
|---|---|---|---|
| `distribution` | `MCDistributor.cfg` | conservation, ceilings, the three orders, unplaced only when full, closed form, refinement of `Allocation` | 3 groups of 10 shapes, totals 0..7, capacities 0, 1, 3 or unknown; three groups give before, between and after |
| `probing` | `MCOpportunistic.cfg` | one surplus replica at most; no speculative kill | floor 1, totals 1 and 3, room 0, 2, 4, a page of 2, three disturbances: room shrinks, grows or is exactly used up |
| `probing_converges` | `MCOpportunisticLive.cfg` | whole pool, capacity used, probes resolved | total 3, a page of 1 so that refused pods are overlooked, two disturbances of every kind, restarts and lag included |
| `children` | `MCChildren.cfg` | replacement first; newcomers spared; removed groups swept; groups served | 2 kinds, 2 groups; three edits, faults or crashes, or three edits and acts of other users |
| `status` | `MCPoolStatus.cfg` | Ready is earned; fresh deadlines; convergence; stuck groups reported | 1 group, totals 0 and 2, deadline 2, two edits or faults |
| `watch` | `MCWatch.cfg` | one watch, believed in only if set up; served kinds observed; missing ones reported | 2 pools, grace 1; one stop and one lost race, or one failed watch and one uninstall |
| `admission` | `MCAdmission.cfg` | no rule bypassed; authorization; repair; pause; true warnings; errors only inherited | pools of one or two groups in 14 shapes, 3 kinds, 7 more shapes with errors in overrides or children, 2 users, any sequence of writes and reinstallations |
| `records` | `MCRecords.cfg` | no deletion unnoticed; nothing outlives its pool; living pools exported; rows and series follow | 2 groups, one retired and one foreign condition type; up to five edits, deletions, faults, restarts |
| `documents` | `MCDocuments.cfg` | owned fields win; user fields kept; counts compare alike | 4 templates, every pair of 15 overrides, counts below, at and above both limits |
| `cold_start`, `kind_change_leaks`, `never_stalled` | one configuration each | one statement of the code's own comments each, refuted | the smallest budget that shows it |

`distribution` and `documents` may stop: the functions return. `records` may stop
when the pool is gone and nobody creates another. All other runs check deadlock.

Fairness. A pool is requeued after every pass: by the error backoff, after
`reconcileFloor` or the heartbeat, 15 s while a probe is open, and no later than
the next progress deadline (`deadlineAwareRequeue`). Hence weak fairness on the
pass. A paused pool is not requeued; in `PoolStatus` and `Records`, where that
matters, fairness is on queued pools only, and unpausing wakes the pool by way of
`poolPredicate`. In `Watch` a pass has strong fairness because a lost race (a
removal one statement after another worker's fetch) draws on the budget, which
disables a step of a pass while others move; without that budget two workers could
destroy each other's fresh informer for ever. Informers
deliver, the scheduler judges and the workload controllers act (weak fairness,
external). Passes are short against the delays between them, so time passes
(strong fairness on `Tick`). In `PoolStatus` nothing makes a pod ready: the
interesting pools are those that stay short.

## Findings

Each is a run that TLC must find violated; `PROJECT.json` quotes the lines.

1. `cold_start`: phase 3 deducts the floor a never-sized group already holds
   from "everything left", so a group with a min starts smaller than intended,
   wherever the unbounded group stands in the list.
2. `kind_change_leaks`: a kind change during a pass, then a pass over a cached
   status, loses the record of the old kind. Needs the webhook to be off.
3. `never_stalled`: a group whose first apply failed never gets a progress
   clock while its shortfall stays as it is.

The passing properties are stated around these and around the following
behaviours, which were met on the way and have no run of their own.

Sizing and children:

* After a restart an outstanding probe counts as capacity and a burst replica is
  withdrawn for it, which the comment on `probeState` (`opportunistic.go:73`) calls
  harmless; so does a read of a cache behind the controller's own withdrawal.
  `NoSpeculativeKill` is checked with fresh reads and no restart.
* The sweep deletes an object released between its confirmation and its delete
  (the UID still matches). An object released or replaced after the cached
  ownership check is taken over by the forced apply.

Status:

* `ScaledToZero` outranks failed groups (`conditions.go:342`), so a pool that could
  not be scaled down reports Ready; hence `ReadyMeansSizedAboveZero`.
* The merge patch can leave conditions of one generation beside the
  `observedGeneration` of another until the next pass, against `conditions.go:129`.
* A row that a pass finds equal to its stale copy is not sent, so an older row with
  an older clock can stay in the status under a new generation. A template edit, a
  lost pod and a lagging informer are enough to declare the edit stalled at once.
  The failed proof of `FreshDeadline` showed this, and TLC finds it with three
  disturbances; `FreshDeadline` now speaks of passes that had read the rows they
  patched (`~acted.behind`).
* A pause that outlasts the deadline without an edit stalls the pool at the resume.
* A pool paused, unpaused and paused again around a running pass may be read with
  a stale Paused status, so that nothing is sent; whether a further pass follows
  depends on how the library's queue merges entries.

Watches: after a stop, a slow pass that still holds the old instance may register
it again, and the handler ends up on the new informer twice, which only doubles
requests. A rebuilt informer inherits the start of the old grace period.

Admission: `Default` runs on updates too and adds `min: 0` to groups stored without
`min` and `max` while the webhook was not installed
(`docs/helm-and-image-verification.md:13`). The spec is then no longer the stored
one, and neither the short cut for unchanged specs nor the schema's ratcheting
applies: such a pool cannot be paused if it breaks a rule, although `README.md:28`
says "a pool can be paused regardless of whether its spec still passes
validation". `DefaultedPausable` leaves these pools out. All `podpools.dev/*` label
overrides have the same type and detail (`podpool_webhook.go:438`), so one that is
stored excuses another that an edit adds beside it or puts in its place, although
the comment at line 754 says that a violation "this edit introduces stays an error".
`ErrorsInherited` says of such an error only that its group had one of its sort. The warning about an
unreadable target says the group will not grow beyond its min also where it has a
max, up to which it does grow.

Records: a series of a departed group stays for the life of the process when the
status patch that recorded it was lost, when a paused pass or a stale copy records
it again, or when the pool is deleted and recreated before a pass finds it gone. A
condition type another actor removes between two passes keeps its series
(`metrics.go:289` says otherwise). A group removed and added again finds its old
probe record. `SeriesFollowStatus` speaks of behaviours without these.

Documents: `MergeMaps` keeps the nulls of a map that meets no map, where RFC 7386
and `podpool_types.go:97` say that a null deletes. One label that is not a string (a
null that survives this way, a number, a map) makes `GetLabels` return nothing and
drops all of the user's labels from the child. Where `metadata` is not a map, the
setters fail silently and the child has no name. `UserFieldsKept` and
`OwnedFieldsWin` leave these cases out, each in the conjunct it concerns.

## Proofs

The theorems hold for every value of the constants: any number of groups, pools,
kinds and users, any lists of constraints, totals, capacities, timers, budgets.
The `ASSUME`s of the specifications give the constants their types; beyond that,
`Children` and `Watch` assume finitely many kinds, groups and pools, because the
identities handed out there are drawn from a set that is just large enough, and
`Admission` assumes that submitted specs meet the schema's markers (at least one
group, a positive `max`), and `Documents` that documents are finite trees of maps
of bounded depth. A `Budget` or `Scenarios` bounds how many disturbances
happen in one behaviour; the theorems hold for every such number.

### Distribution

`DistributionProofs` is about the recursive function inside `Loop`. Induction is
used for sets in place of predicates: `LeastNumber` (from the well-foundedness of
the naturals) gives `IntervalInduction`, and `Iterate` unrolls a recursive
function over an interval into the sequence of its values. `LoopRuns` says so of
one loop; `RunShrinks`, `RunServesOnce` and `RunRests` say what holds along it:
the remainder only shrinks, each group is served once, and once nothing is left
nothing changes. `ComputeLeads` chains the four loops. From these:
an unbounded group takes all the overflow (`UnboundedTakesAll`), and an
unreadable target keeps a group at its floor (`UnreadableStaysAtFloor`).

In `WorkloadProofs`, `TypeCorrect`, `NothingLost`, `CeilingsHold`, `CascadeHolds`,
`DeclaredSharesFirst`, `FreeBeforePaid`, `UnplacedMeansFull` rest on `Invariance`,
`Spec => []Inv`. The promised properties are not inductive: that a later phase may
start is justified only by what the earlier ones established. `Inv` adds one loop
invariant per phase (while replicas remain, a loop leaves only satisfied groups
behind it), `NotYet` (nothing is handed out ahead of its phase) and `Room` (no
group can be given more than the total). Conservation is stated as the
cardinality of the set `Placed` of <<group, ordinal>> slots, so that a step is the
union with a disjoint interval of slots.

`SecondSinkGetsNothing`: of several unbounded groups only the first takes
overflow. `Refinement`, `Spec => ImplementsAllocation`: a loop step that gives
something is a `Grant`, whose condition that all earlier claims are satisfied is
what the loop invariants of the earlier phases say; a `Done` step with nothing
left to do is `Settle`; every other step leaves the abstract variables alone.
`LoopsComputeTheFunction`: the loops of the code, with their breaks and early
returns, return what the operator is defined to be. The operator has none of
them, so this is the proof that they are short cuts only; it is also what
connects the theorems about the loops with the modules that call the operator.

`LoopsMatchClosedForm` proves the closed form. The central lemma, `LoopServes`, is
about any one of the four loops: if what it gives group k, with r left, is the
lesser of `more[k]` and r, for requests `more` fixed when the loop starts, then it
ends with group k holding the lesser of `more[k]` and what the requests before k
leave of the stock. The induction along the loop carries that remainder; it is cut
off at zero, which is why the statement speaks of `Greater(0, ...)` and why requests
behind an exhausted stock do no harm. `FloorsServe`, `TargetsServe`,
`OpportunisticServe` and `OverflowServes` supply the requests of each phase. That
those of phase 3 are fixed when it starts is where the hypothesis of the property
(`ColdAndEmpty`) is needed: without it the cold start deducts what is held from a
remainder that other groups are shrinking.

### Opportunistic

`ProbeIsTheOnlySurplus` needs `WritesComplete`: no fault kills a pass between its
two writes, which would leave one of two sizes behind. Lag, failed lists and slow
verdicts are allowed. The invariant ties a pass in progress to what it will
write: the two sizes add up to the total it read or one more, and a child the
pool owns has received its part when burst's is written.

`NoKillOnSpeculation` needs `ReadsOwnWrites` (no lag either); without it the
property is false (see the findings on restarts and lag). `KillInv` carries the
account from pass to pass: what is asked for is the total burst was sized for, or
one more with a probe on record, and that is still so of the child a pass has read
when it decides. From this a smaller burst means that what the pass saw Ready
covers the difference. The run `probing` is an instance of both hypotheses.

### Children

`TypeCorrect`, `NewcomersSpared` and `ReplacementsFirst`, from an invariant with
three parts: `PassOK` (a delete has a victim that was not to be kept, under a kind
the pass read), `Owned` (an object that exists has an identity of its own, one the
pool controls is remembered as the pool's, and the confirmed victim, if it is
still there, is one the pool has controlled) and `Replaced` (while nobody else
touches the children, what the pass has reconciled is there). That a new object
never gets the victim's UID is a pigeonhole argument (`FreshFacts`).

### PoolStatus

`ReadyIsEarnedBySize` and `DeadlinesStartFresh`. The server's pool, the informer's
copy and the one a pass holds are three states of one object, so the invariant is
about copies (`CopyOK`): generations are ordered, equal generations have equal
specs, nothing observed, acted on or judged is newer than any copy, and a readable
spec was observed only by a pass that acted on it. `Verdict` says that only a pass
that acts on a generation declares it stalled, `Clock` that the clocks in the
status started after the generation was first acted on. TLC checked the invariant
with three disturbances before it was proved.

`RunningPoolsAreNeverForgotten` is the safety part of `StatusEventuallyTrue`. A pass
that finds the pool paused is the only one that does not requeue it, so a resume
could be lost if it arrived while such a pass is ending. It is not: a pool the
informer does not show paused is queued, or a pass that will requeue it is under
way.

### Watch

`WatchBelievedIsThere`. `WatchedOnce` speaks of the informer the cache holds; the
invariant adds what passes and dropped instances may look like (`Dropped`: nobody
is attached to an informer the cache has dropped), that a remembered watch on the
cached informer is there or under way (`Believed`), and that before any informer
has stopped all passes hold the same one (`OneInstance`).

### Admission

`AdmittedSound` is inductive as stated: an update of a sound pool is sound because
what is excused is what the stored pool already had, and that is nothing.
`KindsAuthorized` is inductive given the types.

`ErrorsOnlyInherited`, `Spec => []ErrorsInherited`, is about every stored pool, sound
or not. The property is not inductive: an update compares with the spec stored
just before, not with the legacy, and it compares without the field. `Inherited`
says that every stored error is the same issue as one of the legacy (`SameIssue`
is transitive, so a chain of updates adds nothing), and `IsError` that the field of an
error is a function of type and detail unless it is about labels
(`SameIssueSameError`), which turns the same issue into the same error.

`RepairStaysPossible` and
`PauseStaysPossible` hold of every well-formed state, reachable or not, which is
their point: no stored pool, however it came about, is beyond repair.
`WarningsTellTheTruth` compares the webhook's own arithmetic with the result of the
distribution and rests on the lemmas of `DistributionProofs`.

### Records

`DeletionsAreNoticed` is the safety part of `GoneIsForgotten`: whenever the cache
has lost the pool and anything is remembered, or a pass is under way that may
remember it again, the name is queued. With a fair queue, what is left of the
liveness property is that one pass is made.

### Documents

The three properties rest on `RenderInvariance`: what a pass has written so far is
a function (`RenderInv`) of the pool and of what the children publish, so that no
group's child depends on the groups before it. TLC checked `RenderInv` before it was
proved. What is left is about the functions.

A recursive function on pairs of maps means something only if the recursion ends.
`MergeMapsUnfolds`, `MergePatchUnfolds` and `NullsIntoNothingUnfolds` show by
induction on the depth that each is the function its definition says.
`MergeIsRFC`, again by induction on the depth: wherever no map of the patch
that meets no map holds a null, `MergeMaps` and `MergePatch` give the same map. The
one point where they differ in form, that a map which meets no map is taken over
as it is, is the lemma `PatchTakenOver`. `OwnedFieldsAlwaysWin` follows a document
through strip, pod template, selector and metadata with one lemma per step.
`UserFieldsAlwaysKept` does the same for all other keys and ends with `MergeIsRFC`.

`CountsAlwaysCompare`: cutting a number off at `MaxInt32` changes no comparison with
a target up to `MaxInt32`, and neither does cutting off the addends of a sum first
(`NarrowedSums`, by induction over the groups).

### Only model-checked

* Liveness under fairness, which is out of the prover's reach: convergence of
  probing (`PoolEventuallyWhole`, `CapacityEventuallyUsed`, `ExpiredProbeResolved`), of
  children (`RemovedGroupsSwept`, `GroupsServed`), of the status
  (`StatusEventuallyTrue`, `StuckEventuallyReported`), of watches
  (`EventuallyObserved`, `MissingKindReported`) and of records (`GoneIsForgotten`,
  `LivingIsExported`, `RowsFollowSpec`, `SeriesFollowStatus`). The safety parts of
  `StatusEventuallyTrue` and `GoneIsForgotten` are proved, as said above.
* `StaleKindsSwept`, `EveryStuckGroupReported`, `ColdStartOffersEverythingLeft`:
  refuted by their runs.

## Not modelled

Group, pause and stall events (edge-triggered on the status; they change no
state), message texts (`ChildDetail`, `TruncateRunes`, three warnings of the
webhook), gauge values, the lookup behind `SubjectAccessReview`s, flags, TLS,
leader election and the readiness latch of `cmd/main.go`, and generated code.
`PROJECT.json` gives the reason for each.

## What could be added

Safety parts of further liveness properties: that an expired probe is resolved by
the very pass that sees it, that an overdue sync is reported by the next pass of
`Watch`, that a removed group's child which the cache shows is among the victims of
the next complete sweep. Composition: `Opportunistic` with more than one
opportunistic group, and its distribution inside a pass of `PoolStatus`.
