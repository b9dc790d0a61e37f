------------------------------ MODULE Children ------------------------------
(***************************************************************************)
(* Which child workloads exist, who owns them and who deletes them:        *)
(* reconcileWorkload, the orphan sweep and the status write that remembers *)
(* the kinds a pool has used (internal/controller/podpool_controller.go).  *)
(*                                                                         *)
(* A pool renders one child per group, of the kind its template names.     *)
(* The child's name depends on the group only, so after a kind change the  *)
(* old and the new child coexist under one name, and the old kind is       *)
(* remembered nowhere but in status.groups[].workloadRef.  The controller  *)
(* reads the pool and its children from caches that lag, and users write   *)
(* to both between any two of its steps.                                   *)
(***************************************************************************)
EXTENDS Naturals, FiniteSets

CONSTANTS
    Kinds,      \* the workload kinds a template may name
    Groups,     \* the groups a pool may list
    FirstKind,  \* the kind the pool is created with
    Scenarios   \* what may go wrong or be done by users, and how often

ASSUME KindsAssumption  == FirstKind \in Kinds
ASSUME FiniteAssumption == IsFiniteSet(Kinds) /\ IsFiniteSet(Groups)

\* "of" names the disturbances, "left" how many may still happen, "at" the
\* kinds whose objects other people work on.
ASSUME ScenariosAssumption ==
    Scenarios \subseteq [of : SUBSET STRING, left : Nat, at : SUBSET Kinds]

NoKind == "nokind"
ASSUME NoKindAssumption == NoKind \notin Kinds

VARIABLES
    pool,       \* spec (kind, groups) and status (refs) in the API server
    poolCache,  \* the informer's copy of the pool
    objs,       \* the objects at the children's names in the API server
    objCache,   \* the informers' copies: who controls what, if labelled
    pass,       \* the reconcile in progress
    budget      \* what is left of the behaviour's scenario

vars == <<pool, poolCache, objs, objCache, pass, budget>>

-----------------------------------------------------------------------------
Owners == {"pool", "nobody", "other"}   \* the controller reference, if any
Uids   == 0 .. Cardinality(Kinds) * Cardinality(Groups) + 1

\* "mine" is history: the pool has controlled the object at some time.
Object == [uid : Uids, owner : Owners, labelled : BOOLEAN, mine : BOOLEAN]
Absent == [uid |-> 0, owner |-> "absent", labelled |-> FALSE, mine |-> FALSE]
Exists(o) == o.owner # "absent"

NoRefs == [g \in Groups |-> NoKind]

NoVictim == [group |-> NoKind, uid |-> 0]

\* The pass: the pool as it was read (before), the groups to go (todo) and
\* those reconciled, the kinds whose sweep is to come, the sweep under way
\* (its kind and candidates) and the orphan confirmed for deletion.
Idle ==
    [pc |-> "idle", before |-> [kind |-> NoKind, groups |-> {}, refs |-> NoRefs],
     todo |-> {}, reconciled |-> {}, kinds |-> {}, sweeping |-> NoKind,
     found |-> {}, victim |-> NoVictim]

\* isControlledBy
isControlledBy(o) == o.owner = "pool"

\* An unused identity for a new object.
FreshUid ==
    CHOOSE u \in Uids \ {0} :
        u # pass.victim.uid /\ \A k \in Kinds, g \in Groups : objs[k][g].uid # u

\* Caches hold the objects that carry the manager's label (cmd/main.go).
Cached(k) == [g \in Groups |-> IF objs[k][g].labelled THEN objs[k][g].owner ELSE "absent"]

Disturb(what) ==
    /\ what \in budget.of
    /\ budget.left > 0
    /\ budget' = [budget EXCEPT !.left = @ - 1]

Init ==
    /\ pool = [kind |-> FirstKind, groups |-> Groups, refs |-> NoRefs]
    /\ poolCache = pool
    /\ objs = [k \in Kinds |-> [g \in Groups |-> Absent]]
    /\ objCache = [k \in Kinds |-> [g \in Groups |-> "absent"]]
    /\ pass = Idle
    /\ budget \in Scenarios

-----------------------------------------------------------------------------
(* A pass, from the read of the pool to the status write.                  *)

Begin ==
    /\ pass.pc = "idle"
    /\ pass' = [Idle EXCEPT !.pc = "groups", !.before = poolCache,
                            !.todo = poolCache.groups]
    /\ UNCHANGED <<pool, poolCache, objs, objCache, budget>>

kind == pass.before.kind

\* The group loop runs in list order; no step depends on which order it is.
Current == CHOOSE g \in pass.todo : TRUE

\* Reconciled or not, the loop goes on with the next group.
NextGroup(done) ==
    pass' = [pass EXCEPT !.pc = "groups", !.todo = @ \ {Current}, !.reconciled = @ \cup done]

\* Whose object a read finds: the cached copy, except that absence is
\* confirmed uncached.  An object the pool does not control is refused.
getWorkload ==
    /\ pass.pc = "groups" /\ pass.todo # {}
    /\ LET hit   == objCache[kind][Current]
           owner == IF hit = "absent" THEN objs[kind][Current].owner ELSE hit
       IN  IF owner \in {"absent", "pool"}
           THEN pass' = [pass EXCEPT !.pc = "apply"]
           ELSE NextGroup({})
    /\ UNCHANGED <<pool, poolCache, objs, objCache, budget>>

\* Server-side apply with force: creates the child or renders it anew, labels
\* and controller reference included.  The API server refuses a second
\* controller reference on one object.
Applied(o) ==
    IF Exists(o) THEN [o EXCEPT !.owner = "pool", !.labelled = TRUE, !.mine = TRUE]
    ELSE [uid |-> FreshUid, owner |-> "pool", labelled |-> TRUE, mine |-> TRUE]

applyChild ==
    /\ pass.pc = "apply"
    /\ IF objs[kind][Current].owner = "other"
       THEN NextGroup({}) /\ UNCHANGED objs
       ELSE NextGroup({Current}) /\ objs' = [objs EXCEPT ![kind][Current] = Applied(@)]
    /\ UNCHANGED <<pool, poolCache, objCache, budget>>

\* A read or an apply fails: the group does, the others go on.
groupFails ==
    /\ pass.pc \in {"groups", "apply"} /\ pass.todo # {}
    /\ Disturb("apply")
    /\ NextGroup({})
    /\ UNCHANGED <<pool, poolCache, objs, objCache>>

\* Mutant of staleWorkloadGVKs: a row without a workloadRef is not skipped.
staleWorkloadGVKsWithNil == {pass.before.refs[g] : g \in Groups} \ {kind}

\* The distinct kinds of the previous status that the template left.
staleWorkloadGVKs == {pass.before.refs[g] : g \in Groups} \ {NoKind, kind}

\* Mutants of keep: a stale child goes before its replacement is there; a
\* current child stays for ever; a current child goes once reconciled.
keepDropsStale(k, g) == g \in pass.before.groups /\ k = kind
keepCurrent(k, g)    == k = kind \/ (g \in pass.before.groups /\ g \notin pass.reconciled)
keepUnreconciled(k, g) == g \in pass.before.groups /\ g \notin pass.reconciled

\* keep: a current child stays while its group is listed, a stale one while
\* its group is listed and its replacement has not been reconciled.
keep(k, g) ==
    g \in pass.before.groups /\ (k = kind \/ g \notin pass.reconciled)

\* The candidates of one sweep: labelled, controlled, not to be kept.  The
\* current kind is listed from the cache, a stale one from the API server.
Candidates(k) ==
    LET listed == IF k = kind THEN objCache[k] ELSE Cached(k)
    IN  {g \in Groups : listed[g] = "pool" /\ ~keep(k, g)}

sweepAllOrphans ==
    /\ pass.pc = "groups" /\ pass.todo = {}
    /\ pass' = [pass EXCEPT !.pc = "sweep", !.kinds = staleWorkloadGVKs,
                            !.sweeping = kind, !.found = Candidates(kind)]
    /\ UNCHANGED <<pool, poolCache, objs, objCache, budget>>

\* The sweep of one kind is over, done or failed: on to the next kind.
nextSweep ==
    /\ pass.pc = "sweep" /\ pass.found = {} /\ pass.kinds # {}
    /\ \E k \in pass.kinds :
          pass' = [pass EXCEPT !.kinds = @ \ {k}, !.sweeping = k, !.found = Candidates(k)]
    /\ UNCHANGED <<pool, poolCache, objs, objCache, budget>>

\* Both tests again, on an uncached read, before anything is deleted.
confirmOrphan ==
    /\ pass.pc = "sweep"
    /\ \E g \in pass.found :
          LET fresh == objs[pass.sweeping][g] IN
          pass' = IF isControlledBy(fresh) /\ ~keep(pass.sweeping, g)
                  THEN [pass EXCEPT !.pc = "delete", !.found = @ \ {g},
                                    !.victim = [group |-> g, uid |-> fresh.uid]]
                  ELSE [pass EXCEPT !.found = @ \ {g}]
    /\ UNCHANGED <<pool, poolCache, objs, objCache, budget>>

\* Mutant of deleteOrphan: no UID precondition.
deleteOrphanByName ==
    /\ pass.pc = "delete"
    /\ objs' = [objs EXCEPT ![pass.sweeping][pass.victim.group] = Absent]
    /\ pass' = [pass EXCEPT !.pc = "sweep", !.victim = NoVictim]
    /\ UNCHANGED <<pool, poolCache, objCache, budget>>

\* The delete is bound to the confirmed UID: an object that is gone or has
\* been replaced meanwhile is left alone.
deleteOrphan ==
    /\ pass.pc = "delete"
    /\ objs' = [objs EXCEPT ![pass.sweeping][pass.victim.group] =
                   IF @.uid = pass.victim.uid THEN Absent ELSE @]
    /\ pass' = [pass EXCEPT !.pc = "sweep", !.victim = NoVictim]
    /\ UNCHANGED <<pool, poolCache, objCache, budget>>

\* A list, a confirmation or a delete fails: this kind's sweep is abandoned,
\* the pass goes on.
sweepFails ==
    /\ \/ pass.pc = "sweep" /\ pass.found # {}
       \/ pass.pc = "delete"
    /\ Disturb("sweep")
    /\ pass' = [pass EXCEPT !.pc = "sweep", !.found = {}, !.victim = NoVictim]
    /\ UNCHANGED <<pool, poolCache, objs, objCache>>

\* status.groups has one row per listed group: the kind just applied, or the
\* row of the previous status carried forward when the group failed.
groupStatuses ==
    [g \in Groups |->
        IF g \notin pass.before.groups THEN NoKind
        ELSE IF g \in pass.reconciled THEN kind
        ELSE pass.before.refs[g]]

SweptAll == pass.pc = "sweep" /\ pass.found = {} /\ pass.kinds = {}

\* A merge patch against what the pass read: the rows are one list, sent
\* whole if anything in them differs (the counts left out here may), and
\* without a resourceVersion, so it overwrites whatever is there.
patchStatus ==
    /\ SweptAll
    /\ \/ pool' = [pool EXCEPT !.refs = groupStatuses]
       \/ groupStatuses = pass.before.refs /\ UNCHANGED pool
    /\ pass' = Idle
    /\ UNCHANGED <<poolCache, objs, objCache, budget>>

patchFails ==
    /\ SweptAll
    /\ Disturb("status")
    /\ pass' = Idle
    /\ UNCHANGED <<pool, poolCache, objs, objCache>>

\* The manager dies between two steps of the pass.
Crash ==
    /\ pass.pc # "idle"
    /\ Disturb("crash")
    /\ pass' = Idle
    /\ UNCHANGED <<pool, poolCache, objs, objCache>>

-----------------------------------------------------------------------------
(* The informers, and the people who share the namespace.                  *)

syncPool ==
    /\ poolCache # pool
    /\ poolCache' = pool
    /\ UNCHANGED <<pool, objs, objCache, pass, budget>>

syncChildren(k) ==
    /\ objCache[k] # Cached(k)
    /\ objCache' = [objCache EXCEPT ![k] = Cached(k)]
    /\ UNCHANGED <<pool, poolCache, objs, pass, budget>>

\* The validating webhook refuses a kind change; the controller handles one
\* for pools that are edited while the webhook is not installed.
EditKind ==
    /\ Disturb("kind")
    /\ \E k \in Kinds \ {pool.kind} : pool' = [pool EXCEPT !.kind = k]
    /\ UNCHANGED <<poolCache, objs, objCache, pass>>

EditGroups ==
    /\ Disturb("groups")
    /\ \E gs \in (SUBSET Groups) \ {{}, pool.groups} : pool' = [pool EXCEPT !.groups = gs]
    /\ UNCHANGED <<poolCache, objs, objCache, pass>>

\* A child is deleted, its controller reference is removed, its labels are.
UserTouches(k, g) ==
    /\ Exists(objs[k][g])
    /\ \/ /\ Disturb("delete")
          /\ objs' = [objs EXCEPT ![k][g] = Absent]
       \/ /\ Disturb("release") /\ isControlledBy(objs[k][g])
          /\ objs' = [objs EXCEPT ![k][g].owner = "nobody"]
       \/ /\ Disturb("labels") /\ objs[k][g].labelled
          /\ objs' = [objs EXCEPT ![k][g].labelled = FALSE]
    /\ UNCHANGED <<pool, poolCache, objCache, pass>>

\* Someone creates an object at a child's name, labels copied or not.
UserCreates(k, g) ==
    /\ ~Exists(objs[k][g])
    /\ Disturb("create")
    /\ \E owner \in {"nobody", "other"}, labelled \in BOOLEAN :
          objs' = [objs EXCEPT ![k][g] =
                      [uid |-> FreshUid, owner |-> owner, labelled |-> labelled, mine |-> FALSE]]
    /\ UNCHANGED <<pool, poolCache, objCache, pass>>

-----------------------------------------------------------------------------
Reconcile ==
    \/ Begin \/ getWorkload \/ applyChild \/ groupFails
    \/ sweepAllOrphans \/ nextSweep \/ confirmOrphan \/ deleteOrphan \/ sweepFails
    \/ patchStatus \/ patchFails

Sync == syncPool \/ \E k \in Kinds : syncChildren(k)

Users ==
    \/ EditKind \/ EditGroups
    \/ \E k \in budget.at, g \in Groups : UserTouches(k, g) \/ UserCreates(k, g)

Next == Reconcile \/ Crash \/ Sync \/ Users

\* Every pass is followed by another (an error backs off, a success is
\* requeued after reconcileFloor), and each informer delivers.
Fairness ==
    /\ WF_vars(Reconcile)
    /\ WF_vars(syncPool)
    /\ \A k \in Kinds : WF_vars(syncChildren(k))

Spec == Init /\ [][Next]_vars /\ Fairness

-----------------------------------------------------------------------------
(* What the children's life cycle promises.                                *)

PoolType == [kind : Kinds, groups : SUBSET Groups, refs : [Groups -> Kinds \cup {NoKind}]]

\* The types of the variables.  The sweep visits real kinds only.
TypeOK ==
    /\ pool \in PoolType /\ poolCache \in PoolType
    /\ objs \in [Kinds -> [Groups -> Object \cup {Absent}]]
    /\ objCache \in [Kinds -> [Groups -> Owners \cup {"absent"}]]
    /\ pass.pc \in {"idle", "groups", "apply", "sweep", "delete"}
    /\ pass.todo \subseteq Groups /\ pass.reconciled \subseteq Groups
    /\ pass.kinds \subseteq Kinds /\ pass.found \subseteq Groups
    /\ \E s \in Scenarios : s.of = budget.of /\ budget.left \in 0 .. s.left

\* The sweep is deleting the object at this name.
Swept(k, g) ==
    /\ pass.pc = "delete" /\ Exists(objs[k][g]) /\ ~Exists(objs'[k][g])
    /\ pass' # pass

\* A sweep deletes only objects the pool has controlled: one that somebody
\* else put at a freed name is spared, whenever it appeared.
NewcomerSpared ==
    [][\A k \in Kinds, g \in Groups : Swept(k, g) => objs[k][g].mine]_vars

\* "A failed replacement never costs the capacity it was meant to replace":
\* with nobody else touching the children, a sweep never takes the only
\* child of a group the pass has read in the spec.
ReplacementFirst ==
    [][budget.of \cap {"delete", "release", "labels", "create"} = {} =>
       \A k \in Kinds, g \in Groups :
          Swept(k, g) /\ g \in pass.before.groups =>
              \E other \in Kinds \ {k} : isControlledBy(objs[other][g])]_vars

Orphan(k, g) ==
    /\ isControlledBy(objs[k][g]) /\ objs[k][g].labelled
    /\ k # pool.kind \/ g \notin pool.groups

\* Once users and faults leave the pool alone, no child of the current kind
\* outlives its group, whatever failed or was read late on the way.
RemovedGroupsSwept ==
    <>[](\A g \in Groups : ~Orphan(pool.kind, g))

\* Once users and faults leave the pool alone, every listed group has its
\* child, unless an object the pool does not control holds the name.
GroupsServed ==
    <>[](\A g \in pool.groups : Exists(objs[pool.kind][g]))

\* "Without it the entire pre-change workload set leaks": after a kind
\* change the children of the old kind are eventually deleted.
StaleKindsSwept ==
    <>[](\A k \in Kinds, g \in Groups : ~Orphan(k, g))

=============================================================================
