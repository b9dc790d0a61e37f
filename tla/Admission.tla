------------------------------ MODULE Admission ------------------------------
(***************************************************************************)
(* What may be stored as a PodPool: the API server's schema rules with     *)
(* their ratcheting, the defaulting and the validating webhook             *)
(* (internal/webhook/v1alpha1/podpool_webhook.go), and the two ways around *)
(* the webhook: the /scale subresource, for which it is not registered,    *)
(* and the time it was not installed.  A write goes through defaulting,    *)
(* schema and validation in this order.                                    *)
(*                                                                         *)
(* A specification is a record                                             *)
(*     [replicas, kind, whole, groups]                                     *)
(* "kind" is the GVK of the workload template or Unreadable, "whole" says  *)
(* that it has a .spec.template, and each of the groups has a name, its    *)
(* scaling (as in Distribution), the controller's paths that its overrides *)
(* set ("owned"), and "child": the error that rendering its child ends in, *)
(* or decoding it where the webhook knows the kind, or Renders.            *)
(***************************************************************************)
EXTENDS Distribution

CONSTANTS
    Specs,       \* what users submit
    Totals,      \* values of spec.replicas
    Capacities,  \* observed capacities of opportunistic groups
    Users,       \* who writes pools
    MayCreate    \* per user: the kinds a SubjectAccessReview allows

Unreadable == "unreadable"
PodPool    == "PodPool"
BadName    == "Not-A-Label"
NoPool     == [kind |-> "none"]
Renders    == "renders"
Malformed  == "malformed overrides"

\* The paths of the controller that have a name; any other string in "owned"
\* is a podpools.dev/* label.
OwnedPaths == {"matchLabels", "replicas", "name", "ownerReferences"}

\* What the schema's types and markers leave of a spec: at least one group
\* (MinItems=1), a max that is positive (Minimum=1).
GroupSpec == [name : STRING, scaling : {sc \in Scaling : sc.max # 0},
              owned : SUBSET STRING, child : STRING]
PoolSpec  == [replicas : Totals, kind : STRING, whole : BOOLEAN,
              groups : Seq(GroupSpec) \ {<<>>}]

ASSUME TotalsAssumption == Totals \subseteq Nat /\ Capacities \subseteq Nat
ASSUME SpecsAssumption  == Specs \subseteq PoolSpec

VARIABLES
    spec,      \* the stored pool's spec, or NoPool
    long,      \* its name is longer than a label value may be
    paused,    \* its pause annotation
    webhook,   \* the webhooks are installed
    schema,    \* the installed CRD has the CEL rules
    guarded,   \* every write of this pool met both (history)
    legacy,    \* the errors in its children as of the last write that did
               \* not meet the webhook (history)
    born,      \* the kind the pool was created with (history)
    origin     \* how its present kind was let in (history)

vars == <<spec, long, paused, webhook, schema, guarded, legacy, born, origin>>

Exists == spec # NoPool
Readable(s) == s.kind # Unreadable
Index(s) == 1 .. Len(s.groups)

-----------------------------------------------------------------------------
(* The rules.                                                              *)

\* The CEL rules on a group's scaling, and the duplicates of two of them in
\* the webhook.
OpportunisticAlone(sc) == sc.opportunistic => sc.max = Nil /\ sc.target = Nil
MinBelowMax(sc)        == sc.min # Nil /\ sc.max # Nil => sc.min <= sc.max

CELRules(sc) ==
    /\ OpportunisticAlone(sc) /\ MinBelowMax(sc)
    /\ sc.target # Nil => TargetReadable(sc)

validateScaling(sc) == OpportunisticAlone(sc) /\ MinBelowMax(sc)

UniqueNames(s) == \A j, k \in Index(s) : s.groups[j].name = s.groups[k].name => j = k
LegalNames(s)  == \A k \in Index(s) : s.groups[k].name # BadName

\* The schema's verdict.  The rules of one node are not run again while the
\* node stays as it is, groups being told apart by their name, and a list
\* that had duplicates may keep them.
Ratcheted(old, new) ==
    LET Before(k) == {j \in IF old = NoPool THEN {} ELSE Index(old) :
                         old.groups[j].name = new.groups[k].name}
    IN /\ \A k \in Index(new) :
             \/ CELRules(new.groups[k].scaling)
             \/ \E j \in Before(k) : old.groups[j].scaling = new.groups[k].scaling
       /\ \A k \in Index(new) : new.groups[k].name = BadName => Before(k) # {}
       /\ (old = NoPool \/ UniqueNames(old)) => UniqueNames(new)

\* Default: a group with neither min nor max gets a min of zero.
Default(s) ==
    [s EXCEPT !.groups = [k \in Index(s) |->
        IF s.groups[k].scaling.min = Nil /\ s.groups[k].scaling.max = Nil
        THEN [s.groups[k] EXCEPT !.scaling.min = 0] ELSE s.groups[k]]]

\* Mutant of validateWorkloadTemplate: a kind that cannot be read passes.
validateWorkloadTemplateLax(s) == Readable(s) => s.whole

validateWorkloadTemplate(s) == Readable(s) /\ s.whole

Unbounded(s, k) == ~IsBounded(s.groups[k].scaling)

validateOverflowSink(s) ==
    \A j, k \in Index(s) : Unbounded(s, j) /\ Unbounded(s, k) => j = k

\* No opportunistic group comes last, none behind an unbounded one.
validateOpportunistic(s) ==
    \A k \in Index(s) : IsOpportunistic(s.groups[k].scaling) =>
        /\ k # Len(s.groups)
        /\ \A j \in 1 .. k - 1 : ~Unbounded(s, j)

validatePodPoolSpec(s) ==
    /\ validateWorkloadTemplate(s)
    /\ LegalNames(s) /\ UniqueNames(s)
    /\ \A k \in Index(s) : validateScaling(s.groups[k].scaling)
    /\ validateOverflowSink(s)
    /\ validateOpportunistic(s)

\* An error names its field.  All podpools.dev/* labels share one detail.
PathError(name, path) ==
    [group |-> name, type |-> "Forbidden", field |-> path,
     detail |-> IF path \in OwnedPaths THEN path ELSE "labels"]

ChildError(name, message) ==
    [group |-> name, type |-> "Invalid", field |-> "child", detail |-> message]

NestedError ==
    [group |-> "", type |-> "Forbidden", field |-> "workloadTemplate", detail |-> "nested"]

\* Overrides that do not parse set no path.
checkControllerOwnedPaths(g) ==
    {PathError(g.name, path) : path \in IF g.child = Malformed THEN {} ELSE g.owned}

\* A group's errors.  A child that cannot be rendered is not decoded, so it
\* has one error at most.
GroupErrors(g) ==
    checkControllerOwnedPaths(g) \cup {ChildError(g.name, m) : m \in {g.child} \ {Renders}}

\* An unreadable template renders nothing; a PodPool of PodPools is one error
\* of the pool's own and nothing is rendered either.  Of two groups with one
\* name the later errors replace the earlier.
validateRenderedChildren(s) ==
    IF ~Readable(s) THEN {}
    ELSE IF s.kind = PodPool THEN {NestedError}
    ELSE LET Last(k) == \A j \in k + 1 .. Len(s.groups) :
                           s.groups[j].name = s.groups[k].name => GroupErrors(s.groups[j]) = {}
         IN  UNION {GroupErrors(s.groups[k]) : k \in {i \in Index(s) : Last(i)}}

\* An error is known by its group, its type and its detail, not by its field
\* (which has the index of the group in it).
SameIssue(e, o) == e.group = o.group /\ e.type = o.type /\ e.detail = o.detail

\* Mutant of downgradePreExisting: any group's old error excuses the error.
downgradePreExistingAnywhere(old, new) ==
    {e \in validateRenderedChildren(new) :
        \A o \in validateRenderedChildren(old) : <<o.type, o.detail>> # <<e.type, e.detail>>}

\* The errors that are left once those the pool already had are warnings.
downgradePreExisting(old, new) ==
    {e \in validateRenderedChildren(new) :
        \A o \in validateRenderedChildren(old) : ~SameIssue(e, o)}

\* Mutant of warnOnFullyCappedPool: only a target that can be read is a cap.
warnOnFullyCappedPoolReadable(s) ==
    \A k \in Index(s) : LET sc == s.groups[k].scaling IN
        sc.max # Nil \/ TargetReadable(sc) \/ IsOpportunistic(sc)

warnOnFullyCappedPool(s) == \A k \in Index(s) : ~Unbounded(s, k)

\* The groups whose target is set and no percentage.
warnOnUnreadableTarget(s) ==
    {k \in Index(s) : s.groups[k].scaling.target # Nil
                      /\ ~TargetReadable(s.groups[k].scaling)}

\* Asks the API server; a kind that has no resource name, or a review that
\* cannot be made, is a denial like any other.
checkWorkloadAuthorization(u, s) == s.kind \in MayCreate[u]

\* Only a new pool is refused for its name, which nobody can change later.
validatePoolNameCreate(l) == ~l

ValidateCreate(u, s, l) ==
    /\ validatePodPoolSpec(s)
    /\ validatePoolNameCreate(l)
    /\ validateRenderedChildren(s) = {}
    /\ Readable(s) => checkWorkloadAuthorization(u, s)

\* The authorization given for the stored kind carries over to the new one.
gvkVouchedFor(old, new) == Readable(old) /\ Readable(new) /\ old.kind = new.kind

\* Mutants of ValidateUpdate: the spec is validated even if it is the same; a
\* kind let in over an unreadable one is not authorized; the stored kind is
\* compared even if it cannot be read.
ValidateUpdateAlways(u, old, new) ==
    /\ validatePodPoolSpec(new)
    /\ Readable(old) /\ Readable(new) => old.kind = new.kind
    /\ downgradePreExisting(old, new) = {}

ValidateUpdateUnauthorized(u, old, new) ==
    old # new =>
        /\ validatePodPoolSpec(new)
        /\ Readable(old) /\ Readable(new) => old.kind = new.kind
        /\ downgradePreExisting(old, new) = {}

ValidateUpdateStrict(u, old, new) ==
    old # new =>
        /\ validatePodPoolSpec(new)
        /\ old.kind = new.kind
        /\ downgradePreExisting(old, new) = {}

\* An unchanged spec is admitted as it is.
ValidateUpdate(u, old, new) ==
    old # new =>
        /\ validatePodPoolSpec(new)
        /\ Readable(old) /\ Readable(new) => old.kind = new.kind
        /\ ~gvkVouchedFor(old, new) /\ Readable(new) => checkWorkloadAuthorization(u, new)
        /\ downgradePreExisting(old, new) = {}

-----------------------------------------------------------------------------
(* Writes.                                                                 *)

\* What the mutating webhook makes of a submitted spec.
Submitted(s) == IF webhook THEN Default(s) ELSE s

\* The three answers a write may get, one after the other.
CreateAccepted(u, s, l) ==
    /\ schema => Ratcheted(NoPool, Submitted(s))
    /\ webhook => ValidateCreate(u, Submitted(s), l)

UpdateAccepted(u, s) ==
    /\ schema => Ratcheted(spec, Submitted(s))
    /\ webhook => ValidateUpdate(u, spec, Submitted(s))

\* Where the kind of the spec "new" comes from.
OriginOf(u, old, new) ==
    IF old # NoPool /\ old.kind = new.kind THEN origin
    ELSE IF ~webhook THEN "unguarded"
    ELSE IF checkWorkloadAuthorization(u, new) THEN "authorized" ELSE "denied"

Init ==
    /\ spec = NoPool /\ long = FALSE /\ paused = FALSE
    /\ webhook \in BOOLEAN /\ schema \in BOOLEAN
    /\ guarded = FALSE /\ legacy = {} /\ born = Unreadable /\ origin = "unguarded"

Create(u, s, l) ==
    /\ ~Exists
    /\ CreateAccepted(u, s, l)
    /\ spec' = Submitted(s) /\ long' = l
    /\ guarded' = (webhook /\ schema)
    /\ legacy' = IF webhook THEN {} ELSE validateRenderedChildren(Submitted(s))
    /\ born' = s.kind
    /\ origin' = OriginOf(u, NoPool, s)
    /\ UNCHANGED <<paused, webhook, schema>>

\* Any edit of spec and annotation together; a pause is one that leaves the
\* spec alone.
Update(u, s, p) ==
    /\ Exists
    /\ UpdateAccepted(u, s)
    /\ spec' = Submitted(s)
    /\ paused' = p
    /\ guarded' = (guarded /\ webhook /\ schema)
    /\ legacy' = IF webhook THEN legacy ELSE validateRenderedChildren(Submitted(s))
    /\ origin' = OriginOf(u, spec, s)
    /\ UNCHANGED <<long, webhook, schema, born>>

\* The scale subresource: no webhook, and nothing the schema looks at again.
Scale(r) ==
    /\ Exists
    /\ schema => Ratcheted(spec, [spec EXCEPT !.replicas = r])
    /\ spec' = [spec EXCEPT !.replicas = r]
    /\ UNCHANGED <<long, paused, webhook, schema, guarded, legacy, born, origin>>

\* ValidateDelete refuses nothing.
Delete ==
    /\ Exists
    /\ spec' = NoPool /\ long' = FALSE /\ paused' = FALSE
    /\ guarded' = FALSE /\ legacy' = {} /\ born' = Unreadable /\ origin' = "unguarded"
    /\ UNCHANGED <<webhook, schema>>

\* The administrator installs or removes the webhook, or changes the CRD.
Reinstall ==
    /\ webhook' \in BOOLEAN /\ schema' \in BOOLEAN
    /\ <<webhook', schema'>> # <<webhook, schema>>
    /\ UNCHANGED <<spec, long, paused, guarded, legacy, born, origin>>

Next ==
    \/ \E u \in Users, s \in Specs, b \in BOOLEAN : Create(u, s, b) \/ Update(u, s, b)
    \/ \E u \in Users : Exists /\ Update(u, spec, ~paused)
    \/ \E r \in Totals : Scale(r)
    \/ Delete \/ Reinstall

Spec == Init /\ [][Next]_vars

-----------------------------------------------------------------------------
(* What admission promises.                                                *)

\* The types of the variables.  Neither defaulting nor scaling takes a spec
\* out of the schema's types.
TypeOK ==
    /\ spec \in PoolSpec \cup {NoPool}
    /\ paused \in BOOLEAN /\ webhook \in BOOLEAN /\ schema \in BOOLEAN
    /\ guarded \in BOOLEAN /\ long \in BOOLEAN
    /\ origin \in {"authorized", "denied", "unguarded"}

\* A pool all of whose writes met the webhook and the schema breaks none of
\* their rules, although updates excuse what was wrong before: there is no
\* sequence of admitted edits that smuggles an error in.  And its kind is
\* the one it was created with ("workload GVK is immutable").
AdmittedStaysSound ==
    /\ TypeOK
    /\ Exists /\ guarded =>
          /\ validatePodPoolSpec(spec) /\ ~long
          /\ \A k \in Index(spec) : CELRules(spec.groups[k].scaling)
          /\ validateRenderedChildren(spec) = {}
          /\ spec.kind = born

\* "The authorization must not quietly disappear": a kind that came in while
\* the webhook was installed came in by a user who may create it, whatever
\* was stored before and whoever stored it.
KindAuthorized == origin # "denied"

\* "A violation it already had becomes a warning, one this edit introduces
\* stays an error": however many edits, scalings and re-installations lie in
\* between, and whatever became of its groups, an error in a stored pool was
\* in that group when the pool was last written without the webhook.  Not so
\* of podpools.dev/* labels, which the comparison does not tell apart: one
\* that was there lets others in, also after it is gone itself.
ErrorsInherited ==
    Exists => \A e \in validateRenderedChildren(spec) :
        \/ e \in legacy
        \/ e.detail = "labels" /\ \E o \in legacy : SameIssue(e, o)

\* Nothing is wrong with a spec but, perhaps, its children.
Lawful(s) == validatePodPoolSpec(s) /\ Ratcheted(NoPool, s)

\* "Repair stays possible": whatever is stored, a spec that obeys every rule
\* can replace it, and so can one that leaves some of the errors in its
\* children as they are, unless it changes a readable kind; over an
\* unreadable one this takes a user who may create the new kind.
RepairAccepted ==
    Exists => \A u \in Users, s \in Specs :
        /\ \A t \in {s, Default(s)} :
              Lawful(t) /\ validateRenderedChildren(t) \subseteq validateRenderedChildren(spec)
        /\ IF Readable(spec) THEN s.kind = spec.kind ELSE s.kind \in MayCreate[u]
        => UpdateAccepted(u, s)

\* "A pool can be paused regardless of whether its spec still passes
\* validation": anybody's edit of the annotation alone is accepted, whatever
\* is stored.
AlwaysPausable == Exists => \A u \in Users : UpdateAccepted(u, spec)

\* The same for every pool that has been through the defaulting webhook or
\* needed none of its defaults.
DefaultedPausable == Exists /\ Default(spec) = spec => AlwaysPausable

\* The capacities an opportunistic group may be observed at.
Observations(s) ==
    {obs \in [Index(s) -> Capacities \cup {Nil}] :
        \A k \in Index(s) : ~IsOpportunistic(s.groups[k].scaling) => obs[k] = Nil}

Distributed(s, obs) ==
    ComputeGroupTargets(s.replicas, [k \in Index(s) |-> s.groups[k].scaling], obs)

\* The webhook's two warnings tell the truth about the distribution: without
\* the first no replica is left unplaced, and a group named by the second
\* does not grow beyond its min (unless it has a max, up to which it does).
WarningsTrue ==
    Exists => \A obs \in Observations(spec) : \E d \in {Distributed(spec, obs)} :
        /\ ~warnOnFullyCappedPool(spec) => d.Unplaced = 0
        /\ \A k \in warnOnUnreadableTarget(spec) : LET sc == spec.groups[k].scaling IN
              sc.max = Nil /\ ~IsOpportunistic(sc) => d.Targets[k] <= GroupFloor(sc)

=============================================================================
