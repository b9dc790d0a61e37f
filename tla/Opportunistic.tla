---------------------------- MODULE Opportunistic ----------------------------
(***************************************************************************)
(* How the controller sizes an opportunistic group: what it observes of    *)
(* the group's child through a cache that may lag, what the distribution   *)
(* makes of it, and the probe that asks the scheduler for one replica more *)
(* (internal/controller/opportunistic.go and the part of Reconcile that    *)
(* calls it).                                                              *)
(*                                                                         *)
(* The pool has two groups: "scavenger", opportunistic, and "burst", the   *)
(* unbounded group behind it that pays for what scavenger cannot place.    *)
(* Around the controller stand the scheduler, the workload controller that *)
(* owns the pods, the informer that fills the cache, and the user.         *)
(***************************************************************************)
EXTENDS Distribution

CONSTANTS
    Floor,            \* scaling.min of the opportunistic group
    Totals,           \* values of spec.replicas
    Fits,             \* how many scavenger pods the cluster may have room for
    Heartbeat,        \* opportunisticHeartbeatSeconds, in ticks
    VerdictTimeout,   \* probeVerdictTimeout, in ticks
    MaxUnschedulable, \* maxUnschedulableProbe
    Faults,           \* the disturbances that may happen
    Budget            \* how many of them may

ASSUME FloorAssumption  == Floor \in Nat
ASSUME SizesAssumption  == Totals \subseteq Nat /\ Fits \subseteq Nat
ASSUME TimerAssumption  == Heartbeat \in Nat \ {0} /\ VerdictTimeout \in Nat \ {0}
ASSUME PageAssumption   == MaxUnschedulable \in Nat \ {0}
ASSUME BudgetAssumption == Budget \in Nat

VARIABLES
    total,      \* spec.replicas
    fit,        \* room for scavenger pods
    child,      \* scavenger's child in the API server
    pods,       \* its pods: ready, refused by the scheduler, not yet judged
    cache,      \* the informer's copy of child
    burst,      \* spec.replicas of burst's child
    probe,      \* probeState, in memory only
    pass,       \* the reconcile in progress
    budget,     \* disturbances left
    burstTotal  \* spec.replicas when burst was last written (history)

cluster == <<child, pods, cache, burst, burstTotal>>
world   == <<total, fit>>
vars    == <<total, fit, child, pods, cache, burst, probe, pass, budget, burstTotal>>

-----------------------------------------------------------------------------
Groups == << [min |-> Floor, max |-> Nil, target |-> Nil, opportunistic |-> TRUE],
             [min |-> Nil,   max |-> Nil, target |-> Nil, opportunistic |-> FALSE] >>

NoChild == [owner |-> "none", asked |-> 0, ready |-> 0]
NoPods  == [ready |-> 0, refused |-> 0, fresh |-> 0]
PodCount == pods.ready + pods.refused + pods.fresh

\* opportunisticObservation
Unread == [found |-> FALSE, foreign |-> FALSE, asked |-> 0, ready |-> 0,
           unschedulable |-> 0]

\* A probe record that was never written: lastFailed lies in the far past.
\* Ages stand for now - lastFailed and now - startedAt, up to the bound they
\* are compared with.
NoProbe == [outstanding |-> FALSE, failedAge |-> Heartbeat, startedAge |-> 0]

Idle == [pc |-> "idle", total |-> 0, obs |-> Unread, want |-> <<0, 0>>]

Disturb(kind) ==
    /\ kind \in Faults
    /\ budget > 0
    /\ budget' = budget - 1

Init ==
    /\ total \in Totals
    /\ fit \in Fits
    /\ child = NoChild /\ cache = NoChild /\ pods = NoPods
    /\ burst = 0 /\ burstTotal = 0
    /\ probe = NoProbe
    /\ pass = Idle
    /\ budget = Budget

-----------------------------------------------------------------------------
(* The reconcile.                                                          *)

\* What a read of the child finds: the cached copy, except that absence is
\* confirmed uncached.
seen == IF cache.owner = "none" THEN child ELSE cache

childCounts ==
    CASE seen.owner = "none"  -> Unread
      [] seen.owner = "other" -> [Unread EXCEPT !.foreign = TRUE]
      [] seen.owner = "pool"  -> [Unread EXCEPT !.found = TRUE,
                                  !.asked = seen.asked, !.ready = seen.ready]

\* Reading the cache while it lags behind the API server is a disturbance.
Read == IF cache = child THEN UNCHANGED budget ELSE Disturb("lag")

\* The scheduler is asked only about a group short of what was asked.
observeOpportunistic ==
    /\ pass.pc = "idle"
    /\ Read
    /\ pass' = [pass EXCEPT
                  !.pc = IF childCounts.found /\ childCounts.ready < childCounts.asked
                         THEN "list" ELSE "decide",
                  !.total = total,
                  !.obs = childCounts]
    /\ UNCHANGED <<world, cluster, probe>>

\* A child that cannot be read ends the pass with nothing written.
observeFails ==
    /\ pass.pc = "idle"
    /\ Disturb("read")
    /\ UNCHANGED <<world, cluster, probe, pass>>

\* The pods come from the API server, "limit" Pending ones at most and in an
\* order of its own, and only those already refused count.
countUnschedulable ==
    /\ pass.pc = "list"
    /\ LET limit == Lesser(pass.obs.asked - pass.obs.ready, MaxUnschedulable)
           cut   == Greater(0, pods.refused + pods.fresh - limit)
       IN  \E n \in Greater(0, pods.refused - cut) .. Lesser(pods.refused, limit) :
              pass' = [pass EXCEPT !.pc = "decide", !.obs.unschedulable = n]
    /\ UNCHANGED <<world, cluster, probe, budget>>

\* A failed list is logged; the pass goes on as if nothing were refused.
countFails ==
    /\ pass.pc = "list"
    /\ Disturb("listPods")
    /\ pass' = [pass EXCEPT !.pc = "decide"]
    /\ UNCHANGED <<world, cluster, probe>>

\* Mutants of capacityFrom: an unjudged probe counts; what was refused counts;
\* the probe is held back even once it is ready.
capacityFromCountsProbe(obs, st) ==
    IF obs.foreign THEN 0 ELSE IF ~obs.found THEN Nil
    ELSE Greater(0, obs.asked - obs.unschedulable)

capacityFromCountsRefused(obs, st) ==
    IF obs.foreign THEN 0 ELSE IF ~obs.found THEN Nil
    ELSE IF st.outstanding /\ obs.ready < obs.asked THEN Greater(0, obs.asked - 1)
    ELSE obs.asked

capacityFromHoldsReady(obs, st) ==
    IF obs.foreign THEN 0 ELSE IF ~obs.found THEN Nil
    ELSE IF st.outstanding /\ obs.unschedulable = 0 THEN Greater(0, obs.asked - 1)
    ELSE Greater(0, obs.asked - obs.unschedulable)

\* Nil is "absent from the map": the cold start.
capacityFrom(obs, st) ==
    IF obs.foreign THEN 0
    ELSE IF ~obs.found THEN Nil
    ELSE IF st.outstanding /\ obs.ready < obs.asked /\ obs.unschedulable = 0
    THEN Greater(0, obs.asked - 1)
    ELSE Greater(0, obs.asked - obs.unschedulable)

\* The verdict on an outstanding probe, if the child could be read.
Judged(obs, st) ==
    IF ~(st.outstanding /\ obs.found) THEN st
    ELSE IF obs.ready >= obs.asked
    THEN [st EXCEPT !.outstanding = FALSE, !.startedAge = 0]
    ELSE IF obs.unschedulable > 0
    THEN [outstanding |-> FALSE, failedAge |-> 0, startedAge |-> 0]
    ELSE st

\* Mutants of decideProbe: the question is asked on top of the last question;
\* an unreadable child never times out.
decideProbeStacks(target, obs, before) ==
    LET st == Judged(obs, before) IN
    IF st.outstanding
    THEN [target |-> obs.asked + 1, st |-> st]
    ELSE IF obs.found /\ obs.asked = target /\ obs.ready >= obs.asked
            /\ st.failedAge >= Heartbeat
    THEN [target |-> target + 1, st |-> [st EXCEPT !.outstanding = TRUE, !.startedAge = 0]]
    ELSE [target |-> target, st |-> st]

decideProbeWaits(target, obs, before) ==
    LET st == Judged(obs, before) IN
    IF st.outstanding
    THEN IF obs.found /\ st.startedAge >= VerdictTimeout
         THEN [target |-> target,
               st |-> [outstanding |-> FALSE, failedAge |-> 0, startedAge |-> 0]]
         ELSE [target |-> IF obs.found THEN target + 1 ELSE target, st |-> st]
    ELSE IF obs.found /\ obs.asked = target /\ obs.ready >= obs.asked
            /\ st.failedAge >= Heartbeat
    THEN [target |-> target + 1, st |-> [st EXCEPT !.outstanding = TRUE, !.startedAge = 0]]
    ELSE [target |-> target, st |-> st]

\* The group's final size and the new probe record.
decideProbe(target, obs, before) ==
    LET st      == Judged(obs, before)
        settled == obs.found /\ obs.asked = target /\ obs.ready >= obs.asked
    IN  IF st.outstanding
        THEN IF st.startedAge >= VerdictTimeout
             THEN [target |-> target,
                   st |-> [outstanding |-> FALSE, failedAge |-> 0, startedAge |-> 0]]
             ELSE [target |-> IF obs.found THEN target + 1 ELSE target, st |-> st]
        ELSE IF settled /\ st.failedAge >= Heartbeat
        THEN [target |-> target + 1,
              st |-> [st EXCEPT !.outstanding = TRUE, !.startedAge = 0]]
        ELSE [target |-> target, st |-> st]

\* The distribution, and the probe layered on top of it (applyProbes).
applyProbes ==
    /\ pass.pc = "decide"
    /\ LET capacity == capacityFrom(pass.obs, probe) IN
       \E targets \in {ComputeGroupTargets(pass.total, Groups, <<capacity, Nil>>).Targets} :
       \E d \in {decideProbe(targets[1], pass.obs, probe)} :
          /\ probe' = d.st
          /\ pass' = [pass EXCEPT !.pc = "scavenger", !.want = <<d.target, targets[2]>>]
    /\ UNCHANGED <<world, cluster, budget>>

\* reconcileWorkload for scavenger: an object read under another owner is
\* refused, and the API server takes no second controller reference.
applyScavenger ==
    /\ pass.pc = "scavenger"
    /\ child' = IF "other" \in {seen.owner, child.owner} THEN child
                ELSE [child EXCEPT !.owner = "pool", !.asked = pass.want[1]]
    /\ pass' = [pass EXCEPT !.pc = "burst"]
    /\ UNCHANGED <<world, pods, cache, burst, burstTotal, probe, budget>>

\* reconcileWorkload for burst, the last write of the pass.
applyBurst ==
    /\ pass.pc = "burst"
    /\ burst' = pass.want[2]
    /\ burstTotal' = pass.total
    /\ pass' = Idle
    /\ UNCHANGED <<world, child, pods, cache, probe, budget>>

\* A group that cannot be applied does not stop the others.
applyFails ==
    /\ pass.pc \in {"scavenger", "burst"}
    /\ Disturb("apply")
    /\ pass' = IF pass.pc = "scavenger" THEN [pass EXCEPT !.pc = "burst"] ELSE Idle
    /\ UNCHANGED <<world, cluster, probe>>

\* The manager restarts, in the middle of a pass or between two: the probe
\* record is in memory and nowhere else.
Restart ==
    /\ Disturb("restart")
    /\ probe' = NoProbe
    /\ pass' = Idle
    /\ UNCHANGED <<world, cluster>>

-----------------------------------------------------------------------------
(* The cluster.                                                            *)

\* The workload controller brings the pods to the child's spec.replicas,
\* deleting pods that are not ready first.
Rescale ==
    /\ child.owner = "pool" /\ PodCount # child.asked
    /\ \/ /\ PodCount < child.asked
          /\ pods' = [pods EXCEPT !.fresh = @ + child.asked - PodCount]
       \/ /\ PodCount > child.asked
          /\ LET excess == PodCount - child.asked
                 idle   == Lesser(excess, pods.refused + pods.fresh)
             IN  \E r \in 0 .. pods.refused, f \in 0 .. pods.fresh :
                    /\ r + f = idle
                    /\ pods' = [ready   |-> pods.ready - (excess - idle),
                                refused |-> pods.refused - r,
                                fresh   |-> pods.fresh - f]
    /\ UNCHANGED <<world, child, cache, burst, burstTotal, probe, pass, budget>>

\* The workload controller publishes status.readyReplicas.
PublishReady ==
    /\ child.owner = "pool" /\ child.ready # pods.ready
    /\ child' = [child EXCEPT !.ready = pods.ready]
    /\ UNCHANGED <<world, pods, cache, burst, burstTotal, probe, pass, budget>>

\* The scheduler judges a pod, or places one it had refused.
Schedule ==
    /\ \/ /\ pods.fresh > 0 /\ pods.ready < fit
          /\ pods' = [pods EXCEPT !.fresh = @ - 1, !.ready = @ + 1]
       \/ /\ pods.fresh > 0 /\ pods.ready >= fit
          /\ pods' = [pods EXCEPT !.fresh = @ - 1, !.refused = @ + 1]
       \/ /\ pods.refused > 0 /\ pods.ready < fit
          /\ pods' = [pods EXCEPT !.refused = @ - 1, !.ready = @ + 1]
    /\ UNCHANGED <<world, child, cache, burst, burstTotal, probe, pass, budget>>

\* The informer catches up, skipping versions in between.
CacheSync ==
    /\ cache # child
    /\ cache' = child
    /\ UNCHANGED <<world, child, pods, burst, burstTotal, probe, pass, budget>>

\* Room for scavenger pods appears or is taken; preempted pods are gone.
FitChanges ==
    /\ Disturb("fit")
    /\ fit' \in Fits \ {fit}
    /\ pods' = [pods EXCEPT !.ready = Lesser(@, fit')]
    /\ UNCHANGED <<total, child, cache, burst, burstTotal, probe, pass>>

\* A user or an autoscaler edits spec.replicas.
Edit ==
    /\ Disturb("edit")
    /\ total' \in Totals \ {total}
    /\ UNCHANGED <<fit, cluster, probe, pass>>

\* Scavenger's child is deleted, taken over, or the intruder leaves again.
ChildTaken ==
    /\ Disturb("child")
    /\ \E owner \in {"none", "other"} \ {child.owner} :
          child' = [NoChild EXCEPT !.owner = owner]
    /\ pods' = NoPods
    /\ UNCHANGED <<world, cache, burst, burstTotal, probe, pass>>

\* No pass is under way, and every component has caught up with the others.
Settled ==
    /\ pass.pc = "idle"
    /\ cache = child
    /\ child.owner = "pool" => PodCount = child.asked /\ child.ready = pods.ready
    /\ pods.fresh = 0
    /\ pods.refused > 0 => pods.ready >= fit

\* A tick is long against scheduling, informers and passes; when one of them
\* is slower than that, it is a disturbance.
Tick ==
    /\ \/ Settled /\ UNCHANGED budget
       \/ ~Settled /\ Disturb("slow")
    /\ probe' = [probe EXCEPT
                   !.failedAge = Lesser(Heartbeat, @ + 1),
                   !.startedAge = IF probe.outstanding
                                  THEN Lesser(VerdictTimeout, @ + 1) ELSE 0]
    /\ UNCHANGED <<world, cluster, pass>>

-----------------------------------------------------------------------------
Reconcile ==
    \/ observeOpportunistic \/ observeFails \/ countUnschedulable \/ countFails \/ applyProbes
    \/ applyScavenger \/ applyBurst \/ applyFails

Next ==
    \/ Reconcile \/ Restart
    \/ Rescale \/ PublishReady \/ Schedule \/ CacheSync
    \/ FitChanges \/ Edit \/ ChildTaken
    \/ Tick

\* A pool is requeued after every pass, the API server and the informers
\* deliver, the scheduler and the workload controller work.  Passes recur
\* for ever, with requeue delays between them, so time passes (SF).
Fairness ==
    /\ WF_vars(Reconcile)
    /\ WF_vars(Rescale) /\ WF_vars(PublishReady) /\ WF_vars(Schedule)
    /\ WF_vars(CacheSync) /\ SF_vars(Tick)

Spec == Init /\ [][Next]_vars /\ Fairness

-----------------------------------------------------------------------------
(* What the sizing promises.                                               *)

\* The types of the variables.  No more replicas are found refused than were
\* asked for, although child and pods are read at different times.
TypeOK ==
    /\ total \in Totals /\ fit \in Fits
    /\ child \in [owner : {"none", "pool", "other"}, asked : Nat, ready : Nat]
    /\ cache \in [owner : {"none", "pool", "other"}, asked : Nat, ready : Nat]
    /\ pods \in [ready : Nat, refused : Nat, fresh : Nat]
    /\ burst \in Nat /\ burstTotal \in Nat
    /\ probe \in [outstanding : BOOLEAN, failedAge : 0 .. Heartbeat,
                  startedAge : 0 .. VerdictTimeout]
    /\ pass.pc \in {"idle", "list", "decide", "scavenger", "burst"}
    /\ pass.obs.unschedulable \in 0 .. pass.obs.asked
    /\ budget \in 0 .. Budget

\* "The speculative burst-pod kill this design exists to prevent": for an
\* unchanged spec.replicas a pass takes replicas away from burst only when
\* scavenger was seen with every replica of its enlarged share Ready.  (A
\* cold start, with no child to observe, offers everything by design.)
NoSpeculativeKill ==
    [][burst' < burst /\ burstTotal' = burstTotal /\ pass.obs.found
         => pass.obs.ready >= burstTotal - burst']_vars

\* While a pass is not writing, scavenger and burst together are asked for
\* spec.replicas as the last complete pass read it, and at most one replica
\* more: the probe is the only surplus, whatever was refused or withdrawn.
OnlyTheProbeIsSurplus ==
    /\ TypeOK
    /\ pass.pc \notin {"scavenger", "burst"} /\ child.owner = "pool" =>
          /\ child.asked + burst <= burstTotal + 1
          /\ child.asked + burst >= burstTotal

\* Replicas scavenger cannot place move to burst: once the disturbances
\* stop, the pool runs spec.replicas for good, short only of what
\* scavenger's min pins to a group without the room or without a child.
Pinned ==
    Greater(0, Lesser(Floor, total) - (IF child.owner = "other" THEN 0 ELSE fit))

PoolEventuallyWhole == <>[](pods.ready + burst + Pinned >= total)

\* Free capacity is found and used: once the disturbances stop, a group the
\* pool owns fills the room there is, up to spec.replicas, for good.
CapacityEventuallyUsed ==
    <>[](child.owner = "pool" => pods.ready >= Lesser(fit, total))

\* A probe past its timeout is withdrawn, or a verdict settles it, however
\* slow or silent the scheduler is and whatever became of the child.
ExpiredProbeResolved ==
    probe.outstanding /\ probe.startedAge = VerdictTimeout ~>
        ~probe.outstanding \/ probe.startedAge < VerdictTimeout

=============================================================================
