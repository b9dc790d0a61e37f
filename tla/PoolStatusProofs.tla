-------------------------- MODULE PoolStatusProofs --------------------------
(***************************************************************************)
(* What a pool's status says, for any number of groups and of disturbances *)
(* and any lag of the informer: Ready is earned by the spec it names, and  *)
(* a spec that has just been acted on is not declared stalled.             *)
(***************************************************************************)
EXTENDS PoolStatus, DistributionProofs

-----------------------------------------------------------------------------
(* The inductive invariant.                                                *)

Reasons ==
    {"none", "Paused", "WatchSetupFailed", "WorkloadNotOwned", "GroupSpecInvalid",
     "GroupReconcileFailed", "ProgressDeadlineExceeded", "ReplicasUpdating",
     "ScaledToZero", "AllReplicasReady", "CeilingsBelowDesired", "NoReplicasAvailable",
     "PoolReady", "MinimumReplicasAvailable", "AbsoluteConstraintOverride",
     "TargetsSatisfied", "AllGroupsReconciled"}

RowRecord ==
    [target : Nat \cup {Nil}, ready : Nat, age : {Nil} \cup 0 .. Deadline, reason : Reasons]

CondRecord == [status : BOOLEAN, reason : Reasons, gen : Nat]

PoolRecord ==
    [gen : Nat \ {0}, replicas : Totals, valid : BOOLEAN, paused : BOOLEAN,
     observed : Nat, rows : [Group -> RowRecord], conds : [Conditions -> CondRecord]]

ActedRecord ==
    [gen : Nat, age : 0 .. Deadline, failed : SUBSET Group, behind : BOOLEAN]

\* Every edit takes one disturbance.
Types ==
    /\ pool \in PoolRecord /\ cache \in PoolRecord
    /\ pass = NoPass \/ pass \in PoolRecord
    /\ queued \in BOOLEAN /\ budget \in 0 .. Budget
    /\ asked \in [Group -> Nat \cup {Nil}] /\ ready \in [Group -> Nat]
    /\ acted \in ActedRecord
    /\ pool.gen + budget <= Budget + 1

SameSpec(p, q) == p.gen = q.gen => p.replicas = q.replicas /\ p.valid = q.valid

\* A copy of the pool, behind as it may be: what is observed, acted on or
\* judged is not newer than its spec, and a readable spec was observed by a
\* pass that acted on it.
CopyOK(p) ==
    /\ p.gen <= pool.gen /\ SameSpec(p, pool)
    /\ p.observed <= pool.observed /\ pool.observed <= p.gen
    /\ pool.conds["Ready"].gen <= p.gen
    /\ acted.gen <= p.gen
    /\ p.gen = acted.gen => p.valid
    /\ p.gen = pool.observed /\ p.valid => acted.gen = p.gen

Copies ==
    /\ CopyOK(pool) /\ CopyOK(cache)
    /\ pass # NoPass => CopyOK(pass) /\ pass.gen <= cache.gen /\ SameSpec(pass, cache)

\* ReadyMeansSizedAboveZero without its type; a child that was sized exists.
Sized ==
    /\ pool.conds["Ready"].status = TRUE
    /\ pool.conds["Ready"].gen = pool.gen
    /\ pool.replicas > 0
    => \A g \in Group : asked[g] = Distribute[pool.replicas].Targets[g]

\* Only a pass that acts on a generation declares it stalled.
Verdict ==
    pool.conds["Progressing"].reason = "ProgressDeadlineExceeded" =>
        pool.conds["Progressing"].gen <= acted.gen

\* While the history excuses nothing, the clocks of the generation last acted
\* on started after it was first acted on.
Clock ==
    acted.failed = {} /\ ~acted.behind /\ pool.observed = acted.gen =>
        \A g \in Group : pool.rows[g].age <= acted.age

Inv == Types /\ Copies /\ Sized /\ Verdict /\ Clock /\ FreshDeadline

-----------------------------------------------------------------------------
(* What a pass computes has its type.                                      *)

\* The distribution gives every group a number.
LEMMA TargetsType ==
    ASSUME NEW total \in Totals
    PROVE  Distribute[total].Targets \in [Group -> Nat]
<1> DEFINE observed == [g \in Group |-> Nil]
<1>1. Group = 1 .. Len(Scalings)
  BY ScalingsAssumption DEF Group
<1>2. Arguments(total, Scalings, observed)
  BY <1>1, ScalingsAssumption, TotalsAssumption DEF Arguments
<1>3. ComputeGroupTargets(total, Scalings, observed).Targets \in [1 .. Len(Scalings) -> Nat]
  BY <1>2, ComputeType
<1>4. Distribute[total] = ComputeGroupTargets(total, Scalings, observed)
  BY DEF Distribute
<1>5. QED
  BY <1>1, <1>3, <1>4

\* NoPass is no copy of a pool.
LEMMA NoPassIsNoPool == NoPass \notin PoolRecord
BY DEF NoPass, PoolRecord

\* An empty row and a condition nobody has set are well formed.
LEMMA EmptyTypes == NoRow \in RowRecord /\ NoCond \in CondRecord
<1>1. NoRow \in RowRecord
  BY DEF NoRow, RowRecord, Reasons
<1>2. \A s \in BOOLEAN : [status |-> s, reason |-> "none", gen |-> 0] \in CondRecord
  BY DEF CondRecord, Reasons
<1>3. NoCond \in CondRecord
  BY <1>2, Zenon DEF NoCond
<1>4. QED
  BY <1>1, <1>3

\* The parts of a pair.
LEMMA PairFacts == \A s, r : <<s, r>>[1] = s /\ <<s, r>>[2] = r
OBVIOUS

\* The verdicts are a status and a reason.
LEMMA VerdictTypes ==
    ASSUME NEW in
    PROVE  /\ summaryReady(in)[1] \in BOOLEAN /\ summaryReady(in)[2] \in Reasons
           /\ available(in)[1] \in BOOLEAN /\ available(in)[2] \in Reasons
           /\ progressing(in)[1] \in BOOLEAN /\ progressing(in)[2] \in Reasons
           /\ degraded(in)[1] \in BOOLEAN /\ degraded(in)[2] \in Reasons
           /\ groupsReady(in)[1] \in BOOLEAN /\ groupsReady(in)[2] \in Reasons
<1> DEFINE Pair(v) == \E s \in BOOLEAN, r \in Reasons : v = <<s, r>>
<1>1. \A v : Pair(v) => v[1] \in BOOLEAN /\ v[2] \in Reasons
  BY PairFacts, Zenon
<1>2. \A r \in Reasons : Pair(<<TRUE, r>>) /\ Pair(<<FALSE, r>>)
  BY Zenon
<1>3. /\ "WorkloadNotOwned" \in Reasons /\ "GroupSpecInvalid" \in Reasons
      /\ "GroupReconcileFailed" \in Reasons /\ "ProgressDeadlineExceeded" \in Reasons
      /\ "ReplicasUpdating" \in Reasons /\ "ScaledToZero" \in Reasons
      /\ "AllReplicasReady" \in Reasons /\ "CeilingsBelowDesired" \in Reasons
      /\ "NoReplicasAvailable" \in Reasons /\ "PoolReady" \in Reasons
      /\ "MinimumReplicasAvailable" \in Reasons /\ "TargetsSatisfied" \in Reasons
      /\ "AbsoluteConstraintOverride" \in Reasons /\ "AllGroupsReconciled" \in Reasons
  BY DEF Reasons
<1> HIDE DEF Pair
<1>4. Pair(summaryReady(in))
  BY <1>2, <1>3, Zenon DEF summaryReady
<1>5. Pair(available(in))
  BY <1>2, <1>3, Zenon DEF available
<1>6. Pair(progressing(in))
  BY <1>2, <1>3, Zenon DEF progressing
<1>7. Pair(degraded(in))
  BY <1>2, <1>3, Zenon DEF degraded
<1>8. Pair(groupsReady(in))
  BY <1>2, <1>3, Zenon DEF groupsReady
<1>9. QED
  BY <1>1, <1>4, <1>5, <1>6, <1>7, <1>8, Zenon

\* A condition is its three parts.
LEMMA CondFacts ==
    ASSUME NEW s \in BOOLEAN, NEW r \in Reasons, NEW n \in Nat
    PROVE  /\ Cond(s, r, n) \in CondRecord
           /\ Cond(s, r, n).status = s /\ Cond(s, r, n).reason = r /\ Cond(s, r, n).gen = n
BY DEF Cond, CondRecord

\* What a merge patch leaves: the spec as it is, the status in part.
LEMMA PatchFacts ==
    ASSUME pool \in PoolRecord, pass \in PoolRecord, NEW after \in PoolRecord, NEW sent,
           patchStatus(after, sent)
    PROVE  /\ pool' \in PoolRecord /\ pass' = NoPass
           /\ pool'.gen = pool.gen /\ pool'.replicas = pool.replicas
           /\ pool'.valid = pool.valid /\ pool'.paused = pool.paused
           /\ pool'.observed = IF after.observed # pass.observed THEN after.observed
                               ELSE pool.observed
           /\ pool'.rows = IF after.rows # pass.rows \/ sent THEN after.rows ELSE pool.rows
           /\ pool'.conds = IF after.conds # pass.conds THEN after.conds ELSE pool.conds
<1> DEFINE n == Merge("observed", after, FALSE)
           r == Merge("rows", after, sent)
           c == Merge("conds", after, FALSE)
<1>1. n = (IF after.observed # pass.observed THEN after.observed ELSE pool.observed)
  BY DEF Merge
<1>2. r = (IF after.rows # pass.rows \/ sent THEN after.rows ELSE pool.rows)
  BY DEF Merge
<1>3. c = (IF after.conds # pass.conds THEN after.conds ELSE pool.conds)
  BY DEF Merge
<1>4. /\ after.observed \in Nat /\ pool.observed \in Nat
      /\ after.rows \in [Group -> RowRecord] /\ pool.rows \in [Group -> RowRecord]
      /\ after.conds \in [Conditions -> CondRecord] /\ pool.conds \in [Conditions -> CondRecord]
  BY DEF PoolRecord
<1>5. n \in Nat /\ r \in [Group -> RowRecord] /\ c \in [Conditions -> CondRecord]
  BY <1>1, <1>2, <1>3, <1>4
<1>6. pool' = [pool EXCEPT !.observed = n, !.rows = r, !.conds = c] /\ pass' = NoPass
  BY DEF patchStatus
<1> HIDE DEF n, r, c
<1>7. /\ pool' \in PoolRecord
      /\ pool'.observed = n /\ pool'.rows = r /\ pool'.conds = c
      /\ pool'.gen = pool.gen /\ pool'.replicas = pool.replicas
      /\ pool'.valid = pool.valid /\ pool'.paused = pool.paused
  BY ONLY pool \in PoolRecord, <1>5, <1>6 DEF PoolRecord
<1>8. QED
  BY <1>1, <1>2, <1>3, <1>6, <1>7, Zenon

\* What a pass that stopped early would write.
LEMMA HaltedFacts ==
    ASSUME pass \in PoolRecord, NEW reason \in Reasons
    PROVE  LET after == haltedConditions(reason)
           IN  /\ after \in PoolRecord
               /\ after.observed = pass.observed /\ after.rows = pass.rows
               /\ after.conds["Ready"] = Cond(FALSE, reason, pass.observed)
               /\ after.conds["Progressing"] = Cond(FALSE, reason, pass.observed)
<1> DEFINE conds == [c \in Conditions |-> IF c \in {"Progressing", "Ready"}
                               THEN Cond(FALSE, reason, pass.observed) ELSE pass.conds[c]]
<1>1. pass.observed \in Nat /\ pass.conds \in [Conditions -> CondRecord]
  BY DEF PoolRecord
<1>2. Cond(FALSE, reason, pass.observed) \in CondRecord
  BY <1>1, CondFacts
<1>3. conds \in [Conditions -> CondRecord]
  BY <1>1, <1>2
<1>4. /\ conds["Ready"] = Cond(FALSE, reason, pass.observed)
      /\ conds["Progressing"] = Cond(FALSE, reason, pass.observed)
  BY DEF Conditions
<1>5. haltedConditions(reason) = [pass EXCEPT !.conds = conds]
  BY DEF haltedConditions
<1> HIDE DEF conds
<1>6. QED
  BY <1>3, <1>4, <1>5 DEF PoolRecord

\* What a pass that judged the pool would write, before its rows.
LEMMA SetFacts ==
    ASSUME pass \in PoolRecord, NEW in
    PROVE  LET after == setConditions(in)
           IN  /\ after \in PoolRecord
               /\ after.observed = pass.gen /\ after.rows = pass.rows
               /\ after.conds["Ready"] =
                    Cond(summaryReady(in)[1], summaryReady(in)[2], pass.gen)
               /\ after.conds["Progressing"] =
                    Cond(progressing(in)[1], progressing(in)[2], pass.gen)
<1>1. pass.gen \in Nat
  BY DEF PoolRecord
<1>2. ASSUME NEW a \in CondRecord, NEW b \in CondRecord, NEW c \in CondRecord,
             NEW d \in CondRecord, NEW e \in CondRecord
      PROVE  LET conds == [Available |-> a, Progressing |-> b, TargetDegraded |-> c,
                           GroupsReady |-> d, Ready |-> e]
             IN  /\ conds \in [Conditions -> CondRecord]
                 /\ conds["Ready"] = e /\ conds["Progressing"] = b
  BY DEF Conditions
<1> DEFINE at(verdict) == Cond(verdict[1], verdict[2], pass.gen)
           conds == [Available      |-> at(available(in)),
                     Progressing    |-> at(progressing(in)),
                     TargetDegraded |-> at(degraded(in)),
                     GroupsReady    |-> at(groupsReady(in)),
                     Ready          |-> at(summaryReady(in))]
<1>3. /\ at(available(in)) \in CondRecord /\ at(progressing(in)) \in CondRecord
      /\ at(degraded(in)) \in CondRecord /\ at(groupsReady(in)) \in CondRecord
      /\ at(summaryReady(in)) \in CondRecord
  BY <1>1, VerdictTypes, CondFacts
<1>4. /\ conds \in [Conditions -> CondRecord]
      /\ conds["Ready"] = at(summaryReady(in)) /\ conds["Progressing"] = at(progressing(in))
  BY <1>2, <1>3
<1>5. setConditions(in) = [pass EXCEPT !.observed = pass.gen, !.conds = conds]
  BY DEF setConditions
<1> HIDE DEF conds
<1>6. QED
  BY <1>1, <1>4, <1>5 DEF PoolRecord

-----------------------------------------------------------------------------
(* The rows.                                                               *)

\* A row's clock or reason is replaced.
LEMMA RowFacts ==
    ASSUME NEW r \in RowRecord
    PROVE  /\ \A a \in {Nil} \cup 0 .. Deadline : [r EXCEPT !.age = a] \in RowRecord
                                                  /\ [r EXCEPT !.age = a].age = a
           /\ \A w \in Reasons : [r EXCEPT !.reason = w] \in RowRecord
                                 /\ [r EXCEPT !.reason = w].age = r.age
<1>1. \A a \in {Nil} \cup 0 .. Deadline : [r EXCEPT !.age = a] \in RowRecord
                                          /\ [r EXCEPT !.age = a].age = a
  BY DEF RowRecord
<1>2. \A w \in Reasons : [r EXCEPT !.reason = w] \in RowRecord
                         /\ [r EXCEPT !.reason = w].age = r.age
  BY DEF RowRecord
<1>3. QED
  BY <1>1, <1>2

\* Judging a row keeps its clock.
LEMMA JudgedFacts ==
    ASSUME NEW r \in RowRecord
    PROVE  Judged(r) \in RowRecord /\ Judged(r).age = r.age
<1> DEFINE why == IF Stalled(r) THEN "ProgressDeadlineExceeded"
                  ELSE IF r.ready < r.target THEN "ReplicasUpdating"
                  ELSE IF r.target = 0 THEN "ScaledToZero" ELSE "AllReplicasReady"
<1>1. why \in Reasons
  BY DEF Reasons
<1>2. Judged(r) = [r EXCEPT !.reason = why]
  BY DEF Judged
<1> HIDE DEF why
<1>3. QED
  BY <1>1, <1>2, RowFacts

\* A child as it was seen is a row with the group's target.
LEMMA ObservedFacts ==
    ASSUME Types, pass \in PoolRecord, NEW g \in Group
    PROVE  Observed(g) \in RowRecord /\ Observed(g).target \in Nat
<1>1. Distribute[pass.replicas].Targets[g] \in Nat
  BY TargetsType DEF PoolRecord
<1>2. ready[g] \in Nat
  BY DEF Types
<1> DEFINE t == Distribute[pass.replicas].Targets[g]
<1>3. Observed(g) = [NoRow EXCEPT !.target = t, !.ready = ready[g]]
  BY DEF Observed
<1> HIDE DEF t
<1>4. t \in Nat
  BY <1>1 DEF t
<1>5. QED
  BY ONLY <1>2, <1>3, <1>4, EmptyTypes DEF RowRecord

\* A failed row is a row.
LEMMA FailedFacts ==
    ASSUME NEW prev \in RowRecord, NEW target \in Nat, NEW reason \in Reasons
    PROVE  FailedRow(prev, target, reason) \in RowRecord
<1>1. [NoRow EXCEPT !.target = target, !.reason = reason] \in RowRecord
  BY EmptyTypes DEF RowRecord
<1>2. QED
  BY <1>1, RowFacts DEF FailedRow

\* The clock of an applied group starts anew or, in a generation that was
\* observed before, runs on.
LEMMA AppliedRow ==
    ASSUME Types, pass \in PoolRecord, NEW g \in Group
    PROVE  LET row == Judged(stampGroupProgress(Observed(g), pass.rows[g], genChanged))
           IN  /\ row \in RowRecord
               /\ \/ row.age = Nil \/ row.age = 0
                  \/ pass.observed = pass.gen /\ row.age = pass.rows[g].age
<1> DEFINE o == Observed(g)
           prev == pass.rows[g]
           age == IF Shortfall(o) = 0 THEN Nil
                  ELSE IF Stamps(o, prev, genChanged) THEN 0 ELSE prev.age
           row == stampGroupProgress(o, prev, genChanged)
<1>1. o \in RowRecord /\ o.target \in Nat /\ prev \in RowRecord
  BY ObservedFacts DEF PoolRecord
<1>2. Shortfall(o) \in Nat
  BY <1>1 DEF Shortfall, Greater, RowRecord
<1>3. Shortfall(o) # 0 /\ genChanged => Stamps(o, prev, genChanged)
  BY <1>2 DEF Stamps
<1>4. age = Nil \/ age = 0 \/ (pass.observed = pass.gen /\ age = prev.age)
  BY <1>3 DEF genChanged
<1>5. age \in {Nil} \cup 0 .. Deadline
  BY <1>1, <1>4, DeadlineAssumption DEF RowRecord
<1>6. row = [o EXCEPT !.age = age]
  BY DEF stampGroupProgress
<1> HIDE DEF o, age, prev, row
<1>7. row \in RowRecord /\ row.age = age
  BY <1>1, <1>5, <1>6, RowFacts
<1>8. Judged(row) \in RowRecord /\ Judged(row).age = age
  BY <1>7, JudgedFacts
<1>9. QED
  BY <1>4, <1>8 DEF row, o, prev

\* The rows a pass writes are rows.
LEMMA RowsType ==
    ASSUME Types, pass \in PoolRecord, NEW outcome \in [Group -> Outcomes]
    PROVE  Rows(outcome) \in [Group -> RowRecord]
<1> DEFINE F(g) == FailedRow(pass.rows[g], Observed(g).target, outcome[g])
           J(g) == Judged(stampGroupProgress(Observed(g), pass.rows[g], genChanged))
<1>1. ASSUME NEW g \in Group, outcome[g] # "Applied"
      PROVE  F(g) \in RowRecord
  <2>1. pass.rows[g] \in RowRecord
    BY DEF PoolRecord
  <2>2. outcome[g] \in Reasons
    BY <1>1 DEF Outcomes, Reasons
  <2>3. QED
    BY <2>1, <2>2, ObservedFacts, FailedFacts
<1>2. \A g \in Group : J(g) \in RowRecord
  BY AppliedRow
<1>3. Rows(outcome) = [g \in Group |-> IF outcome[g] # "Applied" THEN F(g) ELSE J(g)]
  BY DEF Rows
<1> HIDE DEF F, J
<1>4. QED
  BY <1>1, <1>2, <1>3

\* The clocks that a pass leaves when every group was applied.
LEMMA AppliedClocks ==
    ASSUME Types, pass \in PoolRecord, NEW g \in Group
    PROVE  \/ Rows(AllApplied)[g].age = Nil \/ Rows(AllApplied)[g].age = 0
           \/ pass.observed = pass.gen /\ Rows(AllApplied)[g].age = pass.rows[g].age
<1>1. Rows(AllApplied)[g] = Judged(stampGroupProgress(Observed(g), pass.rows[g], genChanged))
  BY DEF Rows, AllApplied
<1>2. QED
  BY <1>1, AppliedRow

\* A row that is called stalled has reached the deadline.
LEMMA StalledIsLate ==
    ASSUME NEW row, Stalled(row)
    PROVE  row.age >= Deadline
BY DEF Stalled

-----------------------------------------------------------------------------
(* The verdicts.                                                           *)

\* A pool with something to run is called ready only when no group failed and
\* some replica is.
LEMMA ReadyIsEarned ==
    ASSUME NEW in, in.desired # 0, summaryReady(in)[1] = TRUE
    PROVE  in.failed = {} /\ in.ready # 0
<1>1. ASSUME in.failed # {} \/ in.ready = 0
      PROVE  \E r : summaryReady(in) = <<FALSE, r>>
  BY <1>1, Zenon DEF summaryReady
<1>2. ASSUME in.failed # {} \/ in.ready = 0
      PROVE  summaryReady(in)[1] = FALSE
  BY <1>1, <1>2, PairFacts, Zenon
<1>3. QED
  BY <1>2, Zenon

\* The deadline is named only when a row is stalled.
LEMMA LateNamesARow ==
    ASSUME NEW in, progressing(in)[2] = "ProgressDeadlineExceeded"
    PROVE  in.stalled # {}
<1>1. ASSUME in.stalled = {}
      PROVE  \E s : \E r \in {"CeilingsBelowDesired", "ReplicasUpdating", "AllReplicasReady"} :
                progressing(in) = <<s, r>>
  BY <1>1, Zenon DEF progressing
<1>2. SUFFICES ASSUME in.stalled = {} PROVE FALSE
  OBVIOUS
<1>3. PICK s, r : /\ r \in {"CeilingsBelowDesired", "ReplicasUpdating", "AllReplicasReady"}
                  /\ progressing(in) = <<s, r>>
  BY <1>1, <1>2, Zenon
<1>4. progressing(in)[2] = r
  BY <1>3, PairFacts, Zenon
<1>5. QED
  BY <1>3, <1>4

\* What the verdicts of a whole pass are about.
LEMMA InputsFacts ==
    ASSUME NEW rows, NEW outcome
    PROVE  /\ Inputs(rows, outcome).desired = pass.replicas
           /\ Inputs(rows, outcome).failed = Group \ {g \in Group : outcome[g] = "Applied"}
           /\ Inputs(rows, outcome).stalled = {g \in Group : Stalled(rows[g])}
BY DEF Inputs

\* What the verdicts of an unreadable template are about.
LEMMA InvalidFacts ==
    /\ InvalidInputs.desired = pass.replicas /\ InvalidInputs.ready = 0
    /\ InvalidInputs.stalled = {}
BY DEF InvalidInputs

\* What a whole pass leaves in the status.
LEMMA ReportFacts ==
    ASSUME Types, pass \in PoolRecord, NEW outcome \in [Group -> Outcomes], Report(outcome)
    PROVE  LET in == Inputs(Rows(outcome), outcome)
           IN  /\ pool' \in PoolRecord /\ pass' = NoPass
               /\ pool'.gen = pool.gen /\ pool'.replicas = pool.replicas
               /\ pool'.valid = pool.valid
               /\ pool'.observed = IF pass.gen # pass.observed THEN pass.gen ELSE pool.observed
               /\ pass.rows = pool.rows => pool'.rows = Rows(outcome)
               /\ \/ pool'.conds = pool.conds
                  \/ /\ pool'.conds["Ready"] =
                          Cond(summaryReady(in)[1], summaryReady(in)[2], pass.gen)
                     /\ pool'.conds["Progressing"] =
                          Cond(progressing(in)[1], progressing(in)[2], pass.gen)
<1> DEFINE rows == Rows(outcome)
           in == Inputs(rows, outcome)
           set == setConditions(in)
           after == [set EXCEPT !.rows = rows]
<1>1. rows \in [Group -> RowRecord]
  BY RowsType
<1>2. patchStatus(after, Stamped(outcome))
  BY DEF Report
<1> HIDE DEF rows, in
<1>3. /\ set \in PoolRecord
      /\ set.observed = pass.gen
      /\ set.conds["Ready"] = Cond(summaryReady(in)[1], summaryReady(in)[2], pass.gen)
      /\ set.conds["Progressing"] = Cond(progressing(in)[1], progressing(in)[2], pass.gen)
  BY SetFacts
<1> HIDE DEF set
<1>4. /\ after \in PoolRecord /\ after.rows = rows
      /\ after.observed = set.observed /\ after.conds = set.conds
  BY <1>1, <1>3 DEF PoolRecord
<1> HIDE DEF after
<1>5. pool \in PoolRecord
  BY DEF Types
<1>6. /\ pool' \in PoolRecord /\ pass' = NoPass
      /\ pool'.gen = pool.gen /\ pool'.replicas = pool.replicas
      /\ pool'.valid = pool.valid
      /\ pool'.observed = IF after.observed # pass.observed THEN after.observed
                          ELSE pool.observed
      /\ pool'.rows = IF after.rows # pass.rows \/ Stamped(outcome) THEN after.rows
                      ELSE pool.rows
      /\ pool'.conds = IF after.conds # pass.conds THEN after.conds ELSE pool.conds
  BY <1>2, <1>4, <1>5, PatchFacts
<1>7. pass.rows = pool.rows => pool'.rows = rows
  BY <1>4, <1>6
<1>8. pool'.conds = pool.conds \/ pool'.conds = set.conds
  BY <1>4, <1>6
<1>9. pool'.observed = IF pass.gen # pass.observed THEN pass.gen ELSE pool.observed
  BY <1>3, <1>4, <1>6
<1>10. QED
  BY <1>3, <1>6, <1>7, <1>8, <1>9, Zenon DEF rows, in

-----------------------------------------------------------------------------
(* The steps keep the copies in order.                                     *)

\* A pass that ends leaves the copies in order: what it stamps is its own
\* generation, which it acted on if the template could be read.
LEMMA CopiesKept ==
    ASSUME Types, Copies, pass \in PoolRecord,
           pool' \in PoolRecord, acted' \in ActedRecord, pass' = NoPass, cache' = cache,
           pool'.gen = pool.gen, pool'.replicas = pool.replicas, pool'.valid = pool.valid,
           pool'.observed = pool.observed \/ pool'.observed = pass.gen,
           pool.observed <= pool'.observed,
           pool'.conds["Ready"].gen <= pass.gen,
           \/ /\ acted' = acted
              /\ pool'.observed = pool.observed \/ ~pass.valid
           \/ pass.valid /\ acted'.gen = pass.gen
    PROVE  Copies'
<1>1. CopyOK(pool) /\ CopyOK(cache) /\ CopyOK(pass) /\ pass.gen <= cache.gen
      /\ SameSpec(pass, cache)
  BY NoPassIsNoPool DEF Copies
<1>2. /\ pool.gen \in Nat /\ cache.gen \in Nat /\ pass.gen \in Nat /\ acted.gen \in Nat
      /\ pool.observed \in Nat /\ cache.observed \in Nat /\ pool'.observed \in Nat
      /\ acted'.gen \in Nat /\ pool'.conds["Ready"].gen \in Nat
      /\ pool.valid \in BOOLEAN /\ cache.valid \in BOOLEAN /\ pass.valid \in BOOLEAN
  BY DEF Types, PoolRecord, ActedRecord, CondRecord, Conditions
<1>3. ASSUME NEW p, NEW q, p.gen = q.gen, p.replicas = q.replicas, p.valid = q.valid,
             q.gen \in Nat, q.valid \in BOOLEAN, p.observed \in Nat, p.observed <= pool'.observed,
             pass.gen <= q.gen, SameSpec(pass, q), CopyOK(q)
      PROVE  /\ p.gen <= pool'.gen /\ SameSpec(p, pool')
             /\ p.observed <= pool'.observed /\ pool'.observed <= p.gen
             /\ pool'.conds["Ready"].gen <= p.gen
             /\ acted'.gen <= p.gen
             /\ p.gen = acted'.gen => p.valid
             /\ p.gen = pool'.observed /\ p.valid => acted'.gen = p.gen
  <2>1. p.gen <= pool'.gen /\ SameSpec(p, pool') /\ p.observed <= pool'.observed
    BY <1>3 DEF CopyOK, SameSpec
  <2>2. pool'.observed <= p.gen /\ pool'.conds["Ready"].gen <= p.gen /\ acted'.gen <= p.gen
    BY <1>1, <1>2, <1>3 DEF CopyOK
  <2>3. p.gen = acted'.gen => p.valid
    BY <1>1, <1>2, <1>3 DEF CopyOK, SameSpec
  <2>4. p.gen = pool'.observed /\ p.valid => acted'.gen = p.gen
    <3>1. CASE pass.valid /\ acted'.gen = pass.gen
      BY <1>1, <1>2, <1>3, <3>1 DEF CopyOK
    <3>2. CASE acted' = acted /\ pool'.observed = pool.observed
      BY <1>3, <3>2 DEF CopyOK
    <3>3. CASE acted' = acted /\ ~pass.valid /\ pool'.observed = pass.gen
      BY <1>3, <3>3 DEF SameSpec
    <3>4. QED
      BY <3>1, <3>2, <3>3
  <2>5. QED
    BY <2>1, <2>2, <2>3, <2>4
<1>4. CopyOK(pool)'
  <2>1. SameSpec(pass, pool) /\ pass.gen <= pool.gen
    BY <1>1 DEF CopyOK
  <2>2. QED
    BY <1>1, <1>2, <1>3, <2>1 DEF CopyOK
<1>5. CopyOK(cache)'
  <2>1. cache.observed <= pool'.observed
    BY <1>1, <1>2 DEF CopyOK
  <2>2. QED
    BY <1>1, <1>2, <1>3, <2>1 DEF CopyOK
<1>6. QED
  BY <1>4, <1>5 DEF Copies

-----------------------------------------------------------------------------
(* The exits before any child is touched.                                  *)

\* An exit claims nothing and starts no clock.
LEMMA ExitKeeps ==
    ASSUME Inv, pass \in PoolRecord, pool' \in PoolRecord,
           pass' = NoPass, UNCHANGED <<cache, asked, acted>>,
           pool'.gen = pool.gen, pool'.replicas = pool.replicas, pool'.valid = pool.valid,
           pool'.rows = pool.rows,
           \/ pool'.observed = pool.observed
           \/ pool'.observed = pass.gen /\ ~pass.valid,
           \/ pool'.conds = pool.conds
           \/ /\ pool'.conds["Ready"].gen <= pass.gen
              /\ pool'.conds["Ready"].status = TRUE =>
                    pass.replicas = 0 /\ pool'.conds["Ready"].gen = pass.gen
              /\ pool'.conds["Progressing"].reason # "ProgressDeadlineExceeded"
    PROVE  Copies' /\ Sized' /\ Verdict' /\ Clock' /\ FreshDeadline'
<1>1. /\ Types /\ Copies /\ Sized /\ Verdict /\ Clock /\ FreshDeadline
      /\ CopyOK(pool) /\ CopyOK(cache) /\ CopyOK(pass) /\ pass.gen <= cache.gen
      /\ acted \in ActedRecord
  BY NoPassIsNoPool DEF Inv, Copies, Types
<1>2. /\ pool.gen \in Nat /\ pass.gen \in Nat /\ acted.gen \in Nat
      /\ pool.observed \in Nat /\ pool'.observed \in Nat
      /\ pool'.conds["Ready"].gen \in Nat /\ pool.conds["Ready"].gen \in Nat
      /\ pool.replicas \in Nat
  BY <1>1, TotalsAssumption DEF Types, PoolRecord, ActedRecord, CondRecord, Conditions
<1>3. pool.observed <= pool'.observed
  BY <1>1, <1>2 DEF CopyOK
<1>4. pool'.conds["Ready"].gen <= pass.gen
  BY <1>1 DEF CopyOK
<1>5. Copies'
  BY <1>1, <1>3, <1>4, CopiesKept
<1>6. Sized'
  BY <1>1, <1>2 DEF Sized, CopyOK, SameSpec
<1>7. Verdict'
  BY <1>1 DEF Verdict
<1>8. Clock'
  <2>1. CASE pool'.observed = pool.observed
    BY <1>1, <2>1 DEF Clock
  <2>2. CASE pool'.observed = pass.gen /\ ~pass.valid
    <3>1. pass.gen # acted.gen
      BY <1>1, <2>2 DEF CopyOK
    <3>2. QED
      BY <2>2, <3>1 DEF Clock
  <2>3. QED
    BY <2>1, <2>2
<1>9. FreshDeadline'
  BY <1>1 DEF FreshDeadline
<1>10. QED
  BY <1>5, <1>6, <1>7, <1>8, <1>9

\* A pass that is halted.
LEMMA HaltedKeeps ==
    ASSUME Inv, pass \in PoolRecord, NEW reason \in {"Paused", "WatchSetupFailed"},
           patchStatus(haltedConditions(reason), FALSE), UNCHANGED <<cache, asked, acted>>
    PROVE  /\ Copies' /\ Sized' /\ Verdict' /\ Clock' /\ FreshDeadline'
           /\ pool' \in PoolRecord /\ pass' = NoPass /\ pool'.gen = pool.gen
<1> DEFINE after == haltedConditions(reason)
<1>1. reason \in Reasons /\ pool \in PoolRecord /\ pass.observed \in Nat
  BY DEF Inv, Types, Reasons, PoolRecord
<1>2. /\ after \in PoolRecord
      /\ after.observed = pass.observed /\ after.rows = pass.rows
      /\ after.conds["Ready"] = Cond(FALSE, reason, pass.observed)
      /\ after.conds["Progressing"] = Cond(FALSE, reason, pass.observed)
  BY <1>1, HaltedFacts
<1>3. patchStatus(after, FALSE)
  OBVIOUS
<1> HIDE DEF after
<1>4. /\ pool' \in PoolRecord /\ pass' = NoPass
      /\ pool'.gen = pool.gen /\ pool'.replicas = pool.replicas /\ pool'.valid = pool.valid
      /\ pool'.observed = IF after.observed # pass.observed THEN after.observed
                          ELSE pool.observed
      /\ pool'.rows = IF after.rows # pass.rows \/ FALSE THEN after.rows ELSE pool.rows
      /\ pool'.conds = IF after.conds # pass.conds THEN after.conds ELSE pool.conds
  BY <1>1, <1>2, <1>3, PatchFacts
<1>5. pool'.observed = pool.observed /\ pool'.rows = pool.rows
      /\ (pool'.conds = pool.conds \/ pool'.conds = after.conds)
  BY <1>2, <1>4
<1>6. /\ Cond(FALSE, reason, pass.observed).status = FALSE
      /\ Cond(FALSE, reason, pass.observed).reason = reason
      /\ Cond(FALSE, reason, pass.observed).gen = pass.observed
  <2>1. \A b \in BOOLEAN : /\ Cond(b, reason, pass.observed).status = b
                           /\ Cond(b, reason, pass.observed).reason = reason
                           /\ Cond(b, reason, pass.observed).gen = pass.observed
    BY <1>1, CondFacts
  <2>2. QED
    BY <2>1, Zenon
<1>7. pass.observed <= pass.gen
  BY NoPassIsNoPool DEF Inv, Copies, CopyOK, Types, PoolRecord
<1>8. \/ pool'.conds = pool.conds
      \/ /\ pool'.conds["Ready"].gen <= pass.gen
         /\ pool'.conds["Ready"].status = FALSE
         /\ pool'.conds["Progressing"].reason # "ProgressDeadlineExceeded"
  BY <1>2, <1>5, <1>6, <1>7
<1>9. QED
  BY <1>4, <1>5, <1>8, ExitKeeps

\* A pass that cannot read the template.
LEMMA InvalidKeeps ==
    ASSUME Inv, pass \in PoolRecord, ~pass.valid,
           patchStatus(setConditions(InvalidInputs), FALSE), UNCHANGED <<cache, asked, acted>>
    PROVE  /\ Copies' /\ Sized' /\ Verdict' /\ Clock' /\ FreshDeadline'
           /\ pool' \in PoolRecord /\ pass' = NoPass /\ pool'.gen = pool.gen
<1> DEFINE in == InvalidInputs
           after == setConditions(in)
<1>1. pool \in PoolRecord /\ pass.gen \in Nat
  BY DEF Inv, Types, PoolRecord
<1>2. in.desired = pass.replicas /\ in.ready = 0 /\ in.stalled = {}
  BY InvalidFacts
<1>3. patchStatus(after, FALSE)
  OBVIOUS
<1> HIDE DEF in
<1>4. /\ after \in PoolRecord
      /\ after.observed = pass.gen /\ after.rows = pass.rows
      /\ after.conds["Ready"] = Cond(summaryReady(in)[1], summaryReady(in)[2], pass.gen)
      /\ after.conds["Progressing"] = Cond(progressing(in)[1], progressing(in)[2], pass.gen)
  BY SetFacts
<1> HIDE DEF after
<1>5. /\ pool' \in PoolRecord /\ pass' = NoPass
      /\ pool'.gen = pool.gen /\ pool'.replicas = pool.replicas /\ pool'.valid = pool.valid
      /\ pool'.observed = IF after.observed # pass.observed THEN after.observed
                          ELSE pool.observed
      /\ pool'.rows = IF after.rows # pass.rows \/ FALSE THEN after.rows ELSE pool.rows
      /\ pool'.conds = IF after.conds # pass.conds THEN after.conds ELSE pool.conds
  BY <1>1, <1>3, <1>4, PatchFacts
<1>6. /\ pool'.rows = pool.rows
      /\ pool'.observed = pool.observed \/ pool'.observed = pass.gen
      /\ pool'.conds = pool.conds \/ pool'.conds = after.conds
  BY <1>4, <1>5
<1>7. /\ after.conds["Ready"].gen = pass.gen
      /\ after.conds["Ready"].status = summaryReady(in)[1]
      /\ after.conds["Progressing"].reason = progressing(in)[2]
  BY <1>1, <1>4, VerdictTypes, CondFacts
<1>8. summaryReady(in)[1] = TRUE => pass.replicas = 0
  BY <1>2, ReadyIsEarned, Zenon
<1>9. progressing(in)[2] # "ProgressDeadlineExceeded"
  BY <1>2, LateNamesARow, Zenon
<1>10. \/ pool'.conds = pool.conds
       \/ /\ pool'.conds["Ready"].gen = pass.gen
          /\ pool'.conds["Ready"].status = TRUE => pass.replicas = 0
          /\ pool'.conds["Progressing"].reason # "ProgressDeadlineExceeded"
  BY <1>6, <1>7, <1>8, <1>9, Zenon
<1>11. pass.gen <= pass.gen
  BY <1>1
<1>12. QED
  BY <1>5, <1>6, <1>10, <1>11, ExitKeeps

-----------------------------------------------------------------------------
(* A pass that goes all the way.                                           *)

Failed(outcome) == {g \in Group : outcome[g] # "Applied"}

\* What is remembered of a pass.
LEMMA ActedFacts ==
    ASSUME Types, pass \in PoolRecord, NEW outcome, Complete(outcome)
    PROVE  /\ acted' \in ActedRecord /\ acted'.gen = pass.gen
           /\ acted'.failed = {} => Failed(outcome) = {}
           /\ ~acted'.behind => pass.rows = pool.rows
           /\ acted.gen = pass.gen =>
                 /\ acted'.age = acted.age
                 /\ acted'.failed = {} => acted.failed = {}
                 /\ ~acted'.behind => ~acted.behind
           /\ acted.gen # pass.gen => acted'.age = 0
<1> DEFINE f == Failed(outcome)
           b == pass.rows # pool.rows
<1>1. f \in SUBSET Group /\ b \in BOOLEAN
  BY DEF Failed
<1>2. acted' = IF acted.gen = pass.gen
               THEN [acted EXCEPT !.failed = @ \cup f, !.behind = @ \/ b]
               ELSE [gen |-> pass.gen, age |-> 0, failed |-> f, behind |-> b]
  BY Zenon DEF Complete, Failed
<1>3. acted \in ActedRecord /\ pass.gen \in Nat
  BY DEF Types, PoolRecord
<1>4. CASE acted.gen = pass.gen
  <2> DEFINE F == acted.failed \cup f
             B == acted.behind \/ b
  <2>1. acted' = [acted EXCEPT !.failed = F, !.behind = B]
    BY <1>2, <1>4
  <2>2. F \in SUBSET Group /\ B \in BOOLEAN
    BY <1>1, <1>3 DEF ActedRecord
  <2> HIDE DEF F, B
  <2>3. /\ acted' \in ActedRecord /\ acted'.gen = acted.gen /\ acted'.age = acted.age
        /\ acted'.failed = F /\ acted'.behind = B
    BY ONLY <1>3, <2>1, <2>2 DEF ActedRecord
  <2>4. /\ F = {} => acted.failed = {} /\ f = {}
        /\ ~B => ~acted.behind /\ ~b
    BY DEF F, B
  <2>5. QED
    BY <1>4, <2>3, <2>4, Zenon DEF b
<1>5. CASE acted.gen # pass.gen
  <2>1. ASSUME NEW F \in SUBSET Group, NEW B \in BOOLEAN
        PROVE  LET c == [gen |-> pass.gen, age |-> 0, failed |-> F, behind |-> B]
               IN  /\ c \in ActedRecord /\ c.gen = pass.gen /\ c.age = 0
                   /\ c.failed = F /\ c.behind = B
    BY <1>3, DeadlineAssumption DEF ActedRecord
  <2>2. acted' = [gen |-> pass.gen, age |-> 0, failed |-> f, behind |-> b]
    BY <1>2, <1>5
  <2> HIDE DEF f, b
  <2>3. /\ acted' \in ActedRecord /\ acted'.gen = pass.gen /\ acted'.age = 0
        /\ acted'.failed = f /\ acted'.behind = b
    BY <1>1, <2>1, <2>2
  <2>4. QED
    BY <1>5, <2>3, Zenon DEF f, b
<1>6. QED
  BY <1>4, <1>5

\* The children are sized as the spec that was read says, except for those
\* that failed.
LEMMA AskedFacts ==
    ASSUME Types, pass \in PoolRecord, NEW outcome, Complete(outcome)
    PROVE  /\ asked' \in [Group -> Nat \cup {Nil}]
           /\ \A g \in Group : asked'[g] = IF g \in Failed(outcome) THEN asked[g]
                                           ELSE Distribute[pass.replicas].Targets[g]
<1> DEFINE t == Distribute[pass.replicas].Targets
<1>1. t \in [Group -> Nat]
  BY TargetsType DEF PoolRecord
<1>2. asked \in [Group -> Nat \cup {Nil}]
  BY DEF Types
<1>3. asked' = [g \in Group |-> IF g \in Failed(outcome) THEN asked[g] ELSE t[g]]
  BY DEF Complete, Failed
<1> HIDE DEF t
<1>4. QED
  BY <1>1, <1>2, <1>3 DEF t

\* Ready stays earned: the current generation's condition was written by a
\* pass that had read the current spec.
LEMMA SizedKept ==
    ASSUME Inv, pass \in PoolRecord, NEW outcome, Complete(outcome), pool' \in PoolRecord,
           pool'.gen = pool.gen, pool'.replicas = pool.replicas,
           \/ pool'.conds = pool.conds
           \/ /\ pool'.conds["Ready"].gen = pass.gen
              /\ pool'.conds["Ready"].status = TRUE =>
                    pass.replicas = 0 \/ Failed(outcome) = {}
    PROVE  Sized'
<1>1. Types /\ Copies /\ Sized /\ CopyOK(pass)
  BY NoPassIsNoPool DEF Inv, Copies
<1>2. /\ pool.gen \in Nat /\ pass.gen \in Nat /\ pool.replicas \in Nat
      /\ pool.conds["Ready"].gen \in Nat
  BY <1>1, TotalsAssumption DEF Types, PoolRecord, CondRecord, Conditions
<1>3. \A g \in Group : asked'[g] = IF g \in Failed(outcome) THEN asked[g]
                                   ELSE Distribute[pass.replicas].Targets[g]
  BY <1>1, AskedFacts
<1>4. SUFFICES ASSUME pool'.conds["Ready"].status = TRUE, pool'.conds["Ready"].gen = pool.gen,
                      pool.replicas > 0, NEW g \in Group
               PROVE  asked'[g] = Distribute[pool.replicas].Targets[g]
  BY DEF Sized, Distribute
<1>5. CASE pool'.conds = pool.conds
  <2>1. asked[g] = Distribute[pool.replicas].Targets[g]
    BY <1>1, <1>4, <1>5 DEF Sized
  <2>2. pass.gen = pool.gen
    BY <1>1, <1>2, <1>4, <1>5 DEF CopyOK
  <2>3. pass.replicas = pool.replicas
    BY <1>1, <2>2 DEF CopyOK, SameSpec
  <2>4. QED
    BY <1>3, <2>1, <2>3
<1>6. CASE /\ pool'.conds["Ready"].gen = pass.gen
           /\ pass.replicas = 0 \/ Failed(outcome) = {}
  <2>1. pass.replicas = pool.replicas
    BY <1>1, <1>4, <1>6 DEF CopyOK, SameSpec
  <2>2. Failed(outcome) = {}
    BY <1>2, <1>4, <1>6, <2>1
  <2>3. QED
    BY <1>3, <2>1, <2>2
<1>7. QED
  BY <1>4, <1>5, <1>6

\* Every group was applied and the status was written.
LEMMA AppliedKeeps ==
    ASSUME Inv, pass \in PoolRecord, pass.valid, Complete(AllApplied), Report(AllApplied)
    PROVE  /\ Copies' /\ Sized' /\ Verdict' /\ Clock' /\ FreshDeadline'
           /\ pool' \in PoolRecord /\ pass' = NoPass /\ pool'.gen = pool.gen
<1> DEFINE rows == Rows(AllApplied)
           in == Inputs(rows, AllApplied)
<1>1. /\ Types /\ Copies /\ Sized /\ Verdict /\ Clock /\ FreshDeadline
      /\ CopyOK(pass) /\ AllApplied \in [Group -> Outcomes] /\ cache' = cache
      /\ acted \in ActedRecord
  BY NoPassIsNoPool DEF Inv, Copies, AllApplied, Outcomes, Complete, Types
<1>2. /\ pool' \in PoolRecord /\ pass' = NoPass
      /\ pool'.gen = pool.gen /\ pool'.replicas = pool.replicas /\ pool'.valid = pool.valid
      /\ pool'.observed = IF pass.gen # pass.observed THEN pass.gen ELSE pool.observed
      /\ pass.rows = pool.rows => pool'.rows = rows
      /\ \/ pool'.conds = pool.conds
         \/ /\ pool'.conds["Ready"] = Cond(summaryReady(in)[1], summaryReady(in)[2], pass.gen)
            /\ pool'.conds["Progressing"] =
                 Cond(progressing(in)[1], progressing(in)[2], pass.gen)
  BY <1>1, ReportFacts
<1>3. \A g \in Group : \/ rows[g].age = Nil \/ rows[g].age = 0
                       \/ pass.observed = pass.gen /\ rows[g].age = pass.rows[g].age
  BY <1>1, AppliedClocks
<1>4. in.stalled = {g \in Group : Stalled(rows[g])}
  BY InputsFacts
<1>5. rows \in [Group -> RowRecord]
  BY <1>1, RowsType
<1>6. Failed(AllApplied) = {}
  BY DEF Failed, AllApplied
<1> HIDE DEF rows, in
<1>7. /\ pool.gen \in Nat /\ pass.gen \in Nat /\ acted.gen \in Nat /\ pass.observed \in Nat
      /\ pool.observed \in Nat /\ pool'.observed \in Nat /\ acted.age \in 0 .. Deadline
      /\ pool.conds["Ready"].gen \in Nat /\ pool.conds["Progressing"].gen \in Nat
  BY <1>1, <1>2 DEF Types, PoolRecord, ActedRecord, CondRecord, Conditions
<1>8. /\ acted' \in ActedRecord /\ acted'.gen = pass.gen
      /\ ~acted'.behind => pass.rows = pool.rows
      /\ acted.gen = pass.gen => /\ acted'.age = acted.age
                                 /\ acted'.failed = {} => acted.failed = {}
                                 /\ ~acted'.behind => ~acted.behind
      /\ acted.gen # pass.gen => acted'.age = 0
  BY <1>1, ActedFacts
<1>9. \/ pool'.conds = pool.conds
      \/ /\ pool'.conds["Ready"].gen = pass.gen
         /\ pool'.conds["Progressing"].gen = pass.gen
         /\ pool'.conds["Progressing"].reason = progressing(in)[2]
  BY <1>2, <1>7, VerdictTypes, CondFacts
<1>10. Copies'
  <2>1. pool'.conds["Ready"].gen <= pass.gen
    BY <1>1, <1>7, <1>9 DEF CopyOK
  <2>2. /\ pool.observed <= pool'.observed
        /\ pool'.observed = pool.observed \/ pool'.observed = pass.gen
    BY <1>1, <1>2, <1>7 DEF CopyOK
  <2>3. QED
    BY <1>1, <1>2, <1>8, <2>1, <2>2, CopiesKept
<1>11. Sized'
  BY <1>2, <1>6, <1>9, SizedKept
<1>12. acted.gen <= pass.gen
  BY <1>1 DEF CopyOK
<1>13. Verdict'
  BY <1>1, <1>7, <1>8, <1>9, <1>12 DEF Verdict
<1>14. ASSUME acted'.failed = {}, ~acted'.behind, NEW g \in Group
       PROVE  rows[g].age <= acted'.age
  <2>1. pass.rows = pool.rows /\ acted'.age \in Nat /\ rows[g].age \in Int
    BY <1>5, <1>8, <1>14, DeadlineAssumption DEF ActedRecord, RowRecord, Nil
  <2>2. CASE rows[g].age = Nil \/ rows[g].age = 0
    BY <2>1, <2>2 DEF Nil
  <2>3. CASE pass.observed = pass.gen /\ rows[g].age = pass.rows[g].age
    <3>1. pool.observed = pass.gen
      BY <1>1, <1>7, <2>3 DEF CopyOK
    <3>2. acted.gen = pass.gen
      BY <1>1, <3>1 DEF CopyOK
    <3>3. acted.failed = {} /\ ~acted.behind /\ acted'.age = acted.age
      BY <1>8, <1>14, <3>2
    <3>4. pool.rows[g].age <= acted.age
      BY <1>1, <3>1, <3>2, <3>3 DEF Clock
    <3>5. QED
      BY <2>1, <2>3, <3>3, <3>4
  <2>4. QED
    BY <1>3, <2>2, <2>3
<1>15. Clock'
  BY <1>2, <1>8, <1>14 DEF Clock
<1>16. FreshDeadline'
  <2>1. SUFFICES ASSUME acted'.failed = {}, ~acted'.behind,
                        pool'.conds["Progressing"].reason = "ProgressDeadlineExceeded",
                        pool'.conds["Progressing"].gen = acted'.gen
                 PROVE  acted'.age >= Deadline
    BY DEF FreshDeadline
  <2>2. CASE pool'.conds = pool.conds
    <3>1. acted.gen = pass.gen
      BY <1>1, <1>7, <1>8, <1>12, <2>1, <2>2 DEF Verdict
    <3>2. QED
      BY <1>1, <1>8, <2>1, <2>2, <3>1 DEF FreshDeadline
  <2>3. CASE pool'.conds["Progressing"].reason = progressing(in)[2]
    <3>1. PICK g \in Group : Stalled(rows[g])
      BY <1>4, <2>1, <2>3, LateNamesARow
    <3>2. rows[g].age >= Deadline /\ rows[g].age <= acted'.age
      BY <1>14, <2>1, <3>1, StalledIsLate
    <3>3. rows[g].age \in Int /\ acted'.age \in Int /\ Deadline \in Int
      BY <1>5, <1>8, DeadlineAssumption DEF ActedRecord, RowRecord, Nil
    <3>4. QED
      BY <3>2, <3>3
  <2>4. QED
    BY <1>9, <2>2, <2>3
<1>17. QED
  BY <1>2, <1>10, <1>11, <1>13, <1>15, <1>16

\* Some group failed and the status was written: nothing is promised about
\* this generation's clocks any more.
LEMMA FailingKeeps ==
    ASSUME Inv, pass \in PoolRecord, pass.valid,
           NEW outcome \in [Group -> Outcomes], outcome # AllApplied,
           Complete(outcome), Report(outcome)
    PROVE  /\ Copies' /\ Sized' /\ Verdict' /\ Clock' /\ FreshDeadline'
           /\ pool' \in PoolRecord /\ pass' = NoPass /\ pool'.gen = pool.gen
<1> DEFINE in == Inputs(Rows(outcome), outcome)
<1>1. /\ Types /\ Copies /\ Verdict /\ CopyOK(pass) /\ cache' = cache
  BY NoPassIsNoPool DEF Inv, Copies, Complete
<1>2. /\ pool' \in PoolRecord /\ pass' = NoPass
      /\ pool'.gen = pool.gen /\ pool'.replicas = pool.replicas /\ pool'.valid = pool.valid
      /\ pool'.observed = IF pass.gen # pass.observed THEN pass.gen ELSE pool.observed
      /\ \/ pool'.conds = pool.conds
         \/ /\ pool'.conds["Ready"] = Cond(summaryReady(in)[1], summaryReady(in)[2], pass.gen)
            /\ pool'.conds["Progressing"] =
                 Cond(progressing(in)[1], progressing(in)[2], pass.gen)
  BY <1>1, ReportFacts
<1>3. in.failed = Failed(outcome) /\ in.desired = pass.replicas
  <2>1. Group \ {g \in Group : outcome[g] = "Applied"} = Failed(outcome)
    BY DEF Failed
  <2>2. QED
    BY <2>1, InputsFacts
<1>4. Failed(outcome) # {}
  BY DEF Failed, AllApplied
<1> HIDE DEF in
<1>5. /\ pool.gen \in Nat /\ pass.gen \in Nat /\ acted.gen \in Nat /\ pass.observed \in Nat
      /\ pool.observed \in Nat /\ pool'.observed \in Nat
      /\ pool.conds["Ready"].gen \in Nat /\ pool.conds["Progressing"].gen \in Nat
  BY <1>1, <1>2 DEF Types, PoolRecord, ActedRecord, CondRecord, Conditions
<1>6. acted' \in ActedRecord /\ acted'.gen = pass.gen /\ acted'.failed # {}
  BY <1>1, <1>4, ActedFacts
<1>7. \/ pool'.conds = pool.conds
      \/ /\ pool'.conds["Ready"].gen = pass.gen
         /\ pool'.conds["Ready"].status = summaryReady(in)[1]
         /\ pool'.conds["Progressing"].gen = pass.gen
  BY <1>2, <1>5, VerdictTypes, CondFacts
<1>8. Copies'
  <2>1. pool'.conds["Ready"].gen <= pass.gen
    BY <1>1, <1>5, <1>7 DEF CopyOK
  <2>2. /\ pool.observed <= pool'.observed
        /\ pool'.observed = pool.observed \/ pool'.observed = pass.gen
    BY <1>1, <1>2, <1>5 DEF CopyOK
  <2>3. QED
    BY <1>1, <1>2, <1>6, <2>1, <2>2, CopiesKept
<1>9. Sized'
  <2>1. summaryReady(in)[1] = TRUE => pass.replicas = 0
    BY <1>3, <1>4, ReadyIsEarned, Zenon
  <2>2. \/ pool'.conds = pool.conds
        \/ /\ pool'.conds["Ready"].gen = pass.gen
           /\ pool'.conds["Ready"].status = TRUE => pass.replicas = 0
    BY <1>7, <2>1, Zenon
  <2>3. QED
    BY <1>2, <2>2, SizedKept
<1>10. Verdict'
  BY <1>1, <1>5, <1>6, <1>7 DEF Verdict, CopyOK
<1>11. Clock' /\ FreshDeadline'
  BY <1>6 DEF Clock, FreshDeadline
<1>12. QED
  BY <1>2, <1>8, <1>9, <1>10, <1>11

\* Every group was applied and the status was not written.
LEMMA UnwrittenKeeps ==
    ASSUME Inv, pass \in PoolRecord, pass.valid, Complete(AllApplied),
           pass' = NoPass, pool' = pool
    PROVE  Copies' /\ Sized' /\ Verdict' /\ Clock' /\ FreshDeadline'
<1>1. /\ Types /\ Copies /\ Verdict /\ Clock /\ FreshDeadline /\ CopyOK(pass)
      /\ cache' = cache /\ pool \in PoolRecord
  BY NoPassIsNoPool DEF Inv, Copies, Complete, Types
<1>2. /\ pass.gen \in Nat /\ acted.gen \in Nat /\ pool.observed \in Nat
      /\ pool.conds["Progressing"].gen \in Nat
  BY <1>1 DEF Types, PoolRecord, ActedRecord, CondRecord, Conditions
<1>3. /\ acted' \in ActedRecord /\ acted'.gen = pass.gen
      /\ acted.gen = pass.gen => /\ acted'.age = acted.age
                                 /\ acted'.failed = {} => acted.failed = {}
                                 /\ ~acted'.behind => ~acted.behind
  BY <1>1, ActedFacts
<1>4. Copies'
  <2>1. pool.observed <= pool.observed /\ pool.conds["Ready"].gen <= pass.gen
    BY <1>1, <1>2 DEF CopyOK
  <2>2. QED
    BY <1>1, <1>3, <2>1, CopiesKept
<1>5. Sized'
  BY <1>1, SizedKept
<1>6. acted.gen <= pass.gen
  BY <1>1 DEF CopyOK
<1>7. Verdict'
  BY <1>1, <1>2, <1>3, <1>6 DEF Verdict
<1>8. Clock'
  <2>1. pool.observed = pass.gen => acted.gen = pass.gen
    BY <1>1 DEF CopyOK
  <2>2. QED
    BY <1>1, <1>3, <2>1 DEF Clock
<1>9. FreshDeadline'
  <2>1. /\ pool.conds["Progressing"].reason = "ProgressDeadlineExceeded"
        /\ pool.conds["Progressing"].gen = pass.gen
        => acted.gen = pass.gen
    BY <1>1, <1>2, <1>6 DEF Verdict
  <2>2. QED
    BY <1>1, <1>3, <2>1 DEF FreshDeadline
<1>10. QED
  BY <1>4, <1>5, <1>7, <1>8, <1>9

-----------------------------------------------------------------------------
(* The informer, the user, and time.                                       *)

\* A pass takes the informer's copy; the informer takes the server's.
LEMMA CopyingKeeps ==
    ASSUME Inv, UNCHANGED <<pool, asked, acted>>,
           \/ pass = NoPass /\ pass' = cache /\ cache' = cache
           \/ pass' = pass /\ cache' = pool
    PROVE  Copies' /\ Sized' /\ Verdict' /\ Clock' /\ FreshDeadline'
<1>1. /\ CopyOK(pool) /\ CopyOK(cache)
      /\ pass # NoPass => CopyOK(pass) /\ pass.gen <= cache.gen /\ SameSpec(pass, cache)
  BY DEF Inv, Copies
<1>2. cache.gen \in Nat /\ pool.gen \in Nat
  BY DEF Inv, Types, PoolRecord
<1>3. Copies'
  <2>1. CASE pass = NoPass /\ pass' = cache /\ cache' = cache
    BY <1>1, <1>2, <2>1 DEF Copies, CopyOK, SameSpec
  <2>2. CASE pass' = pass /\ cache' = pool
    BY <1>1, <2>2 DEF Copies, CopyOK, SameSpec
  <2>3. QED
    BY <2>1, <2>2
<1>4. QED
  BY <1>3 DEF Inv, Sized, Verdict, Clock, FreshDeadline, Distribute

\* A new generation is not judged yet.
LEMMA EditKeeps ==
    ASSUME Inv, pool' \in PoolRecord, UNCHANGED <<cache, pass, asked, acted>>,
           pool'.gen = pool.gen + 1, pool'.observed = pool.observed,
           pool'.rows = pool.rows, pool'.conds = pool.conds
    PROVE  Copies' /\ Sized' /\ Verdict' /\ Clock' /\ FreshDeadline'
<1>1. /\ CopyOK(pool) /\ CopyOK(cache) /\ Verdict /\ Clock /\ FreshDeadline
      /\ pass # NoPass => CopyOK(pass) /\ pass.gen <= cache.gen /\ SameSpec(pass, cache)
  BY DEF Inv, Copies
<1>2. /\ pool.gen \in Nat /\ pool.observed \in Nat /\ cache.gen \in Nat /\ acted.gen \in Nat
      /\ pass # NoPass => pass.gen \in Nat
      /\ pool.conds["Ready"].gen \in Nat
  BY DEF Inv, Types, PoolRecord, ActedRecord, CondRecord, Conditions
<1>3. CopyOK(pool)'
  BY <1>1, <1>2 DEF CopyOK, SameSpec
<1>4. CopyOK(cache)'
  BY <1>1, <1>2 DEF CopyOK, SameSpec
<1>5. pass # NoPass => CopyOK(pass)'
  BY <1>1, <1>2 DEF CopyOK, SameSpec
<1>6. Copies'
  BY <1>1, <1>3, <1>4, <1>5 DEF Copies, SameSpec
<1>7. Sized'
  BY <1>1, <1>2 DEF Sized, CopyOK
<1>8. Verdict' /\ Clock' /\ FreshDeadline'
  BY <1>1 DEF Verdict, Clock, FreshDeadline
<1>9. QED
  BY <1>6, <1>7, <1>8

\* An annotation, or a pod, changes nothing that the invariant speaks of.
LEMMA OtherKeeps ==
    ASSUME Inv, UNCHANGED <<cache, pass, asked, acted>>,
           pool'.gen = pool.gen, pool'.replicas = pool.replicas, pool'.valid = pool.valid,
           pool'.observed = pool.observed, pool'.rows = pool.rows, pool'.conds = pool.conds
    PROVE  Copies' /\ Sized' /\ Verdict' /\ Clock' /\ FreshDeadline'
<1>1. /\ CopyOK(pool) /\ CopyOK(cache)
      /\ pass # NoPass => CopyOK(pass) /\ pass.gen <= cache.gen /\ SameSpec(pass, cache)
  BY DEF Inv, Copies
<1>2. Copies'
  BY <1>1 DEF Copies, CopyOK, SameSpec
<1>3. Sized'
  BY DEF Inv, Sized, Distribute
<1>4. Verdict' /\ Clock' /\ FreshDeadline'
  BY DEF Inv, Verdict, Clock, FreshDeadline
<1>5. QED
  BY <1>2, <1>3, <1>4

\* Time makes every clock older and touches nothing else.
LEMMA AgeFacts ==
    ASSUME NEW p \in PoolRecord
    PROVE  LET q == AgeRows(p)
           IN  /\ q \in PoolRecord
               /\ q.gen = p.gen /\ q.replicas = p.replicas /\ q.valid = p.valid
               /\ q.observed = p.observed /\ q.conds = p.conds
               /\ \A g \in Group : q.rows[g].age = Older(p.rows[g].age)
<1> DEFINE rows == [g \in Group |-> [p.rows[g] EXCEPT !.age = Older(p.rows[g].age)]]
<1>1. p.rows \in [Group -> RowRecord]
  BY DEF PoolRecord
<1>2. \A g \in Group : Older(p.rows[g].age) \in {Nil} \cup 0 .. Deadline
  BY <1>1, DeadlineAssumption DEF RowRecord, Older, Lesser, Nil
<1>3. \A g \in Group : rows[g] \in RowRecord /\ rows[g].age = Older(p.rows[g].age)
  <2>1. TAKE g \in Group
  <2> DEFINE r == p.rows[g]
             a == Older(r.age)
  <2>2. r \in RowRecord /\ a \in {Nil} \cup 0 .. Deadline
    BY <1>1, <1>2
  <2>3. rows[g] = [r EXCEPT !.age = a]
    OBVIOUS
  <2> HIDE DEF r, a, rows
  <2>4. rows[g] \in RowRecord /\ rows[g].age = a
    BY ONLY <2>2, <2>3, RowFacts
  <2>5. QED
    BY <2>4 DEF r, a
<1>4. rows \in [Group -> RowRecord]
  BY <1>3
<1>5. AgeRows(p) = [p EXCEPT !.rows = rows]
  BY DEF AgeRows
<1> HIDE DEF rows
<1>6. QED
  BY <1>3, <1>4, <1>5 DEF PoolRecord

\* A tick keeps the clocks behind the time since the spec was acted on.
LEMMA TickKeeps ==
    ASSUME Inv, Tick
    PROVE  /\ Copies' /\ Sized' /\ Verdict' /\ Clock' /\ FreshDeadline'
           /\ pool' \in PoolRecord /\ cache' \in PoolRecord /\ acted' \in ActedRecord
           /\ pool'.gen = pool.gen
<1>1. /\ CopyOK(pool) /\ CopyOK(cache) /\ Sized /\ Verdict /\ Clock /\ FreshDeadline
      /\ pool \in PoolRecord /\ cache \in PoolRecord /\ acted \in ActedRecord
      /\ pass = NoPass
  BY DEF Inv, Copies, Types, Tick
<1>2. pool' = AgeRows(pool) /\ cache' = AgeRows(cache) /\ pass' = NoPass /\ asked' = asked
  BY DEF Tick
<1>3. /\ pool' \in PoolRecord
      /\ pool'.gen = pool.gen /\ pool'.replicas = pool.replicas /\ pool'.valid = pool.valid
      /\ pool'.observed = pool.observed /\ pool'.conds = pool.conds
      /\ \A g \in Group : pool'.rows[g].age = Older(pool.rows[g].age)
  BY <1>1, <1>2, AgeFacts
<1>4. /\ cache' \in PoolRecord
      /\ cache'.gen = cache.gen /\ cache'.replicas = cache.replicas
      /\ cache'.valid = cache.valid /\ cache'.observed = cache.observed
  BY <1>1, <1>2, AgeFacts
<1>5. /\ acted' \in ActedRecord /\ acted'.gen = acted.gen
      /\ acted'.failed = acted.failed /\ acted'.behind = acted.behind
      /\ acted'.age = Older(acted.age)
  <2>1. acted' = [acted EXCEPT !.age = Older(acted.age)]
    BY DEF Tick
  <2>2. Older(acted.age) \in 0 .. Deadline
    BY <1>1, DeadlineAssumption DEF ActedRecord, Older, Lesser, Nil
  <2>3. QED
    BY <1>1, <2>1, <2>2 DEF ActedRecord
<1>6. Copies'
  BY <1>1, <1>2, <1>3, <1>4, <1>5 DEF Copies, CopyOK, SameSpec
<1>7. Sized'
  BY <1>1, <1>2, <1>3 DEF Sized, Distribute
<1>8. Verdict'
  BY <1>1, <1>3, <1>5 DEF Verdict
<1>9. Clock'
  <2>1. SUFFICES ASSUME acted.failed = {}, ~acted.behind, pool.observed = acted.gen,
                        NEW g \in Group
                 PROVE  Older(pool.rows[g].age) <= Older(acted.age)
    BY <1>3, <1>5 DEF Clock
  <2>2. pool.rows[g].age <= acted.age
    BY <1>1, <2>1 DEF Clock
  <2>3. pool.rows[g].age \in {Nil} \cup 0 .. Deadline /\ acted.age \in 0 .. Deadline
    BY <1>1 DEF PoolRecord, RowRecord, ActedRecord
  <2>4. QED
    BY <2>2, <2>3, DeadlineAssumption DEF Older, Lesser, Nil
<1>10. FreshDeadline'
  <2>1. acted.age >= Deadline => Older(acted.age) >= Deadline
    BY <1>1, DeadlineAssumption DEF ActedRecord, Older, Lesser, Nil
  <2>2. QED
    BY <1>1, <1>3, <1>5, <2>1 DEF FreshDeadline
<1>11. QED
  BY <1>3, <1>4, <1>5, <1>6, <1>7, <1>8, <1>9, <1>10

-----------------------------------------------------------------------------
(* The theorems.                                                           *)

\* The invariant holds initially.
LEMMA InvInit == Init => Inv
<1> SUFFICES ASSUME Init PROVE Inv
  OBVIOUS
<1> DEFINE rows == [g \in Group |-> NoRow]
           conds == [c \in Conditions |-> NoCond]
<1>1. rows \in [Group -> RowRecord] /\ conds \in [Conditions -> CondRecord]
  BY EmptyTypes
<1>2. /\ pool \in [gen : {1}, replicas : Totals, valid : {TRUE}, paused : {FALSE},
                   observed : {0}, rows : {rows}, conds : {conds}]
      /\ cache = pool /\ pass = NoPass
      /\ queued = TRUE /\ budget = Budget
      /\ asked = [g \in Group |-> Nil] /\ ready = [g \in Group |-> 0]
  BY DEF Init
<1>3. /\ conds["Ready"] = NoCond /\ conds["Progressing"] = NoCond
      /\ \A g \in Group : rows[g] = NoRow
  BY DEF Conditions
<1> HIDE DEF rows, conds
<1>4. /\ pool \in PoolRecord /\ pool.gen = 1 /\ pool.observed = 0 /\ pool.valid = TRUE
      /\ pool.rows = rows /\ pool.conds = conds
  <2>1. ASSUME NEW V \in SUBSET BOOLEAN, NEW P \in SUBSET BOOLEAN,
               pool \in [gen : {1}, replicas : Totals, valid : V, paused : P,
                         observed : {0}, rows : {rows}, conds : {conds}]
        PROVE  /\ pool \in PoolRecord /\ pool.gen = 1 /\ pool.observed = 0
               /\ pool.valid \in V /\ pool.rows = rows /\ pool.conds = conds
    BY ONLY <1>1, <2>1 DEF PoolRecord
  <2>2. {TRUE} \in SUBSET BOOLEAN /\ {FALSE} \in SUBSET BOOLEAN
    BY Zenon
  <2>3. QED
    BY <1>2, <2>1, <2>2, Zenon
<1>5. /\ acted \in ActedRecord /\ acted.gen = 0 /\ acted.age = 0
  <2>1. \A b \in BOOLEAN :
           LET a == [gen |-> 0, age |-> 0, failed |-> {}, behind |-> b]
           IN  a \in ActedRecord /\ a.gen = 0 /\ a.age = 0
    BY DeadlineAssumption DEF ActedRecord
  <2>2. acted = [gen |-> 0, age |-> 0, failed |-> {}, behind |-> FALSE]
    BY DEF Init
  <2>3. QED
    BY <2>1, <2>2, Zenon
<1>6. Types
  BY <1>2, <1>4, <1>5, BudgetAssumption DEF Types
<1>7. NoCond.status = FALSE /\ NoCond.reason = "none" /\ NoCond.gen = 0 /\ NoRow.age = Nil
  <2>1. \A b : LET c == [status |-> b, reason |-> "none", gen |-> 0]
               IN  c.status = b /\ c.reason = "none" /\ c.gen = 0
    OBVIOUS
  <2>2. NoRow.age = Nil
    BY DEF NoRow
  <2>3. NoCond.status = FALSE /\ NoCond.reason = "none" /\ NoCond.gen = 0
    BY <2>1, Zenon DEF NoCond
  <2>4. QED
    BY <2>2, <2>3
<1>8. Copies
  BY <1>2, <1>3, <1>4, <1>5, <1>7 DEF Copies, CopyOK, SameSpec
<1>9. Sized /\ Verdict /\ FreshDeadline
  BY <1>3, <1>4, <1>7 DEF Sized, Verdict, FreshDeadline
<1>10. Clock
  BY <1>3, <1>4, <1>5, <1>7 DEF Clock, Nil
<1>11. QED
  BY <1>6, <1>8, <1>9, <1>10 DEF Inv

\* A disturbance uses up the budget.
LEMMA DisturbFacts ==
    ASSUME budget \in 0 .. Budget, NEW what, Disturb(what)
    PROVE  budget' \in 0 .. Budget /\ budget' = budget - 1
BY BudgetAssumption DEF Disturb

\* An edit makes the next generation.
LEMMA EditFacts ==
    ASSUME pool \in PoolRecord, NEW n \in Totals, NEW b \in BOOLEAN,
           \/ pool' = [pool EXCEPT !.gen = @ + 1, !.replicas = n]
           \/ pool' = [pool EXCEPT !.gen = @ + 1, !.valid = b]
    PROVE  /\ pool' \in PoolRecord /\ pool'.gen = pool.gen + 1
           /\ pool'.observed = pool.observed /\ pool'.rows = pool.rows
           /\ pool'.conds = pool.conds
<1> DEFINE k == pool.gen + 1
<1>1. k \in Nat \ {0}
  BY DEF PoolRecord
<1>2. \/ pool' = [pool EXCEPT !.gen = k, !.replicas = n]
      \/ pool' = [pool EXCEPT !.gen = k, !.valid = b]
  OBVIOUS
<1> HIDE DEF k
<1>3. CASE pool' = [pool EXCEPT !.gen = k, !.replicas = n]
  BY ONLY <1>1, <1>3, pool \in PoolRecord, n \in Totals DEF PoolRecord, k
<1>4. CASE pool' = [pool EXCEPT !.gen = k, !.valid = b]
  BY ONLY <1>1, <1>4, pool \in PoolRecord, b \in BOOLEAN DEF PoolRecord, k
<1>5. QED
  BY <1>2, <1>3, <1>4

\* Every step keeps it.
LEMMA InvNext == Inv /\ [Next]_vars => Inv'
<1> SUFFICES ASSUME Inv, [Next]_vars PROVE Inv'
  OBVIOUS
<1>0. /\ Types /\ pool \in PoolRecord /\ cache \in PoolRecord
      /\ pass = NoPass \/ pass \in PoolRecord
      /\ queued \in BOOLEAN /\ budget \in 0 .. Budget /\ acted \in ActedRecord
      /\ asked \in [Group -> Nat \cup {Nil}] /\ ready \in [Group -> Nat]
      /\ pool.gen + budget <= Budget + 1 /\ pool.gen \in Nat
  BY DEF Inv, Types, PoolRecord
<1>1. CASE UNCHANGED vars
  <2>1. Types'
    BY <1>0, <1>1 DEF Types, vars
  <2>2. Copies' /\ Sized' /\ Verdict' /\ Clock' /\ FreshDeadline'
    BY <1>1, OtherKeeps DEF vars
  <2>3. QED
    BY <2>1, <2>2 DEF Inv
<1>2. CASE Read
  <2>1. Types'
    BY <1>0, <1>2 DEF Types, Read
  <2>2. Copies' /\ Sized' /\ Verdict' /\ Clock' /\ FreshDeadline'
    BY <1>2, CopyingKeeps DEF Read
  <2>3. QED
    BY <2>1, <2>2 DEF Inv
<1>3. CASE exitPaused
  <2>1. /\ Copies' /\ Sized' /\ Verdict' /\ Clock' /\ FreshDeadline'
        /\ pool' \in PoolRecord /\ pass' = NoPass /\ pool'.gen = pool.gen
    BY <1>0, <1>3, HaltedKeeps DEF exitPaused
  <2>2. Types'
    BY <1>0, <1>3, <2>1 DEF Types, exitPaused
  <2>3. QED
    BY <2>1, <2>2 DEF Inv
<1>4. CASE exitInvalid
  <2>1. /\ Copies' /\ Sized' /\ Verdict' /\ Clock' /\ FreshDeadline'
        /\ pool' \in PoolRecord /\ pass' = NoPass /\ pool'.gen = pool.gen
    BY <1>0, <1>4, InvalidKeeps DEF exitInvalid
  <2>2. Types'
    BY <1>0, <1>4, <2>1 DEF Types, exitInvalid
  <2>3. QED
    BY <2>1, <2>2 DEF Inv
<1>5. CASE exitWatchFailed
  <2>1. /\ Copies' /\ Sized' /\ Verdict' /\ Clock' /\ FreshDeadline'
        /\ pool' \in PoolRecord /\ pass' = NoPass /\ pool'.gen = pool.gen
    BY <1>0, <1>5, HaltedKeeps DEF exitWatchFailed
  <2>2. Types'
    <3>1. budget' \in 0 .. Budget /\ budget' = budget - 1
      BY <1>0, <1>5, DisturbFacts DEF exitWatchFailed
    <3>2. QED
      BY <1>0, <1>5, <2>1, <3>1, BudgetAssumption DEF Types, exitWatchFailed
  <2>3. QED
    BY <2>1, <2>2 DEF Inv
<1>6. CASE exitSilent
  <2>1. pass \in PoolRecord
    BY <1>0, <1>6 DEF exitSilent
  <2>2. Copies' /\ Sized' /\ Verdict' /\ Clock' /\ FreshDeadline'
    BY <1>0, <1>6, <2>1, ExitKeeps DEF exitSilent
  <2>3. Types'
    <3>1. budget' \in 0 .. Budget /\ budget' = budget - 1
      BY <1>0, <1>6, DisturbFacts DEF exitSilent
    <3>2. QED
      BY <1>0, <1>6, <3>1, BudgetAssumption DEF Types, exitSilent
  <2>4. QED
    BY <2>2, <2>3 DEF Inv
<1>7. CASE reconcileGroups
  <2>1. /\ Copies' /\ Sized' /\ Verdict' /\ Clock' /\ FreshDeadline'
        /\ pool' \in PoolRecord /\ pass' = NoPass /\ pool'.gen = pool.gen
        /\ acted' \in ActedRecord /\ asked' \in [Group -> Nat \cup {Nil}]
    BY <1>0, <1>7, AppliedKeeps, ActedFacts, AskedFacts DEF reconcileGroups, Runs
  <2>2. Types'
    BY <1>0, <1>7, <2>1 DEF Types, reconcileGroups, Complete
  <2>3. QED
    BY <2>1, <2>2 DEF Inv
<1>8. CASE groupsFail
  <2>1. PICK outcome \in [Group -> Outcomes] :
           outcome # AllApplied /\ Complete(outcome) /\ Report(outcome)
    BY <1>8 DEF groupsFail
  <2>2. /\ Copies' /\ Sized' /\ Verdict' /\ Clock' /\ FreshDeadline'
        /\ pool' \in PoolRecord /\ pass' = NoPass /\ pool'.gen = pool.gen
        /\ acted' \in ActedRecord /\ asked' \in [Group -> Nat \cup {Nil}]
    BY <1>0, <1>8, <2>1, FailingKeeps, ActedFacts, AskedFacts DEF groupsFail, Runs
  <2>3. Types'
    <3>1. budget' \in 0 .. Budget /\ budget' = budget - 1
      BY <1>0, <1>8, DisturbFacts DEF groupsFail
    <3>2. queued' = TRUE /\ ready' = ready /\ cache' = cache
      BY <2>1 DEF Complete
    <3>3. QED
      BY <1>0, <2>2, <3>1, <3>2, BudgetAssumption DEF Types
  <2>4. QED
    BY <2>2, <2>3 DEF Inv
<1>9. CASE patchFails
  <2>1. /\ Copies' /\ Sized' /\ Verdict' /\ Clock' /\ FreshDeadline'
        /\ acted' \in ActedRecord /\ asked' \in [Group -> Nat \cup {Nil}]
    BY <1>0, <1>9, UnwrittenKeeps, ActedFacts, AskedFacts DEF patchFails, Runs
  <2>2. Types'
    <3>1. budget' \in 0 .. Budget /\ budget' = budget - 1
      BY <1>0, <1>9, DisturbFacts DEF patchFails
    <3>2. queued' = TRUE /\ ready' = ready /\ cache' = cache /\ pool' = pool /\ pass' = NoPass
      BY <1>9 DEF patchFails, Complete
    <3>3. QED
      BY <1>0, <2>1, <3>1, <3>2, BudgetAssumption DEF Types
  <2>3. QED
    BY <2>1, <2>2 DEF Inv
<1>10. ASSUME NEW g \in Group, PodReady(g) \/ PodGone(g)
       PROVE  Inv'
  <2>1. Copies' /\ Sized' /\ Verdict' /\ Clock' /\ FreshDeadline'
    BY <1>10, OtherKeeps DEF PodReady, PodGone
  <2>2. ready' \in [Group -> Nat] /\ budget' \in 0 .. Budget /\ budget' <= budget
    <3>1. CASE PodReady(g)
      BY <1>0, <3>1 DEF PodReady
    <3>2. CASE PodGone(g)
      <4>1. ready' \in [Group -> Nat]
        BY <1>0, <3>2 DEF PodGone
      <4>2. budget' \in 0 .. Budget /\ budget' <= budget
        BY <1>0, <3>2, DisturbFacts, BudgetAssumption DEF PodGone
      <4>3. QED
        BY <4>1, <4>2
    <3>3. QED
      BY <1>10, <3>1, <3>2
  <2>3. Types'
    <3>1. queued' = TRUE /\ UNCHANGED <<pool, cache, asked, pass, acted>>
      BY <1>10 DEF PodReady, PodGone
    <3>2. pool.gen + budget' <= Budget + 1
      BY <1>0, <2>2, BudgetAssumption
    <3>3. QED
      BY <1>0, <2>2, <3>1, <3>2 DEF Types
  <2>4. QED
    BY <2>1, <2>3 DEF Inv
<1>11. CASE syncPool
  <2>1. Types'
    BY <1>0, <1>11 DEF Types, syncPool
  <2>2. Copies' /\ Sized' /\ Verdict' /\ Clock' /\ FreshDeadline'
    BY <1>11, CopyingKeeps DEF syncPool
  <2>3. QED
    BY <2>1, <2>2 DEF Inv
<1>12. CASE EditReplicas
  <2>1. PICK n \in Totals : pool' = [pool EXCEPT !.gen = @ + 1, !.replicas = n]
    BY <1>12 DEF EditReplicas
  <2>2. /\ pool' \in PoolRecord /\ pool'.gen = pool.gen + 1
        /\ pool'.observed = pool.observed /\ pool'.rows = pool.rows /\ pool'.conds = pool.conds
    BY <1>0, <2>1, EditFacts
  <2>3. Copies' /\ Sized' /\ Verdict' /\ Clock' /\ FreshDeadline'
    BY <1>12, <2>2, EditKeeps DEF EditReplicas
  <2>4. Types'
    <3>1. budget' \in 0 .. Budget /\ budget' = budget - 1
      BY <1>0, <1>12, DisturbFacts DEF EditReplicas
    <3>2. QED
      BY <1>0, <1>12, <2>2, <3>1, BudgetAssumption DEF Types, EditReplicas
  <2>5. QED
    BY <2>3, <2>4 DEF Inv
<1>13. CASE EditTemplate
  <2>1. PICK b \in BOOLEAN : pool' = [pool EXCEPT !.gen = @ + 1, !.valid = b]
    BY <1>13 DEF EditTemplate
  <2>2. /\ pool' \in PoolRecord /\ pool'.gen = pool.gen + 1
        /\ pool'.observed = pool.observed /\ pool'.rows = pool.rows /\ pool'.conds = pool.conds
    <3>1. pool.replicas \in Totals
      BY <1>0 DEF PoolRecord
    <3>2. QED
      BY <1>0, <2>1, <3>1, EditFacts
  <2>3. Copies' /\ Sized' /\ Verdict' /\ Clock' /\ FreshDeadline'
    BY <1>13, <2>2, EditKeeps DEF EditTemplate
  <2>4. Types'
    <3>1. budget' \in 0 .. Budget /\ budget' = budget - 1
      BY <1>0, <1>13, DisturbFacts DEF EditTemplate
    <3>2. QED
      BY <1>0, <1>13, <2>2, <3>1, BudgetAssumption DEF Types, EditTemplate
  <2>5. QED
    BY <2>3, <2>4 DEF Inv
<1>14. CASE Pause
  <2>1. PICK b \in BOOLEAN : pool' = [pool EXCEPT !.paused = b]
    BY <1>14 DEF Pause
  <2>2. /\ pool' \in PoolRecord /\ pool'.gen = pool.gen
        /\ pool'.replicas = pool.replicas /\ pool'.valid = pool.valid
        /\ pool'.observed = pool.observed /\ pool'.rows = pool.rows /\ pool'.conds = pool.conds
    BY ONLY <1>0, <2>1 DEF PoolRecord
  <2>3. Copies' /\ Sized' /\ Verdict' /\ Clock' /\ FreshDeadline'
    BY <1>14, <2>2, OtherKeeps DEF Pause
  <2>4. Types'
    <3>1. budget' \in 0 .. Budget /\ budget' = budget - 1
      BY <1>0, <1>14, DisturbFacts DEF Pause
    <3>2. QED
      BY <1>0, <1>14, <2>2, <3>1, BudgetAssumption DEF Types, Pause
  <2>5. QED
    BY <2>3, <2>4 DEF Inv
<1>15. CASE Tick
  <2>1. /\ Copies' /\ Sized' /\ Verdict' /\ Clock' /\ FreshDeadline'
        /\ pool' \in PoolRecord /\ cache' \in PoolRecord /\ acted' \in ActedRecord
        /\ pool'.gen = pool.gen
    BY <1>15, TickKeeps
  <2>2. Types'
    BY <1>0, <1>15, <2>1 DEF Types, Tick
  <2>3. QED
    BY <2>1, <2>2 DEF Inv
<1>16. QED
  BY <1>1, <1>2, <1>3, <1>4, <1>5, <1>6, <1>7, <1>8, <1>9, <1>10, <1>11, <1>12, <1>13,
     <1>14, <1>15 DEF Next, Reconcile, Finish

\* A pool with replicas whose Ready condition is True for the current
\* generation has every child sized as its spec says, whatever the informer's
\* lag, the failures and the edits in between; and the status has its type.
THEOREM ReadyIsEarnedBySize == Spec => []ReadyMeansSizedAboveZero
<1>1. Inv => ReadyMeansSizedAboveZero
  <2> SUFFICES ASSUME Inv PROVE ReadyMeansSizedAboveZero
    OBVIOUS
  <2>1. /\ Types /\ Sized /\ CopyOK(pool) /\ CopyOK(cache)
        /\ pool \in PoolRecord /\ cache \in PoolRecord
    BY DEF Inv, Copies, Types
  <2>2. ASSUME NEW p \in PoolRecord, CopyOK(p)
        PROVE  /\ p.gen \in 1 .. Budget + 1 /\ p.observed \in 0 .. p.gen
               /\ p.replicas \in Totals /\ p.valid \in BOOLEAN /\ p.paused \in BOOLEAN
               /\ \A g \in Group : p.rows[g].target \in Nat \cup {Nil}
                                   /\ p.rows[g].age \in {Nil} \cup 0 .. Deadline
               /\ DOMAIN p.conds = Conditions
    <3>1. p.gen <= pool.gen /\ p.observed <= p.gen
      BY <2>1, <2>2 DEF CopyOK, PoolRecord
    <3>2. p.gen \in 1 .. Budget + 1 /\ p.observed \in 0 .. p.gen
      BY <2>1, <3>1, BudgetAssumption DEF Types, PoolRecord
    <3>3. /\ p.replicas \in Totals /\ p.valid \in BOOLEAN /\ p.paused \in BOOLEAN
          /\ p.rows \in [Group -> RowRecord] /\ DOMAIN p.conds = Conditions
      BY DEF PoolRecord
    <3>4. \A g \in Group : p.rows[g].target \in Nat \cup {Nil}
                           /\ p.rows[g].age \in {Nil} \cup 0 .. Deadline
      BY <3>3 DEF RowRecord
    <3>5. QED
      BY <3>2, <3>3, <3>4
  <2>3. TypeOK
    BY <2>1, <2>2 DEF TypeOK, Types
  <2>4. pool.replicas > 0 => ReadyMeansSized
    <3>1. SUFFICES ASSUME pool.replicas > 0, pool.conds["Ready"].status,
                          pool.conds["Ready"].gen = pool.gen, NEW g \in Group
                   PROVE  Greater(0, asked[g]) = Distribute[pool.replicas].Targets[g]
      BY DEF ReadyMeansSized
    <3>2. pool.conds["Ready"].status = TRUE
      <4>1. pool.conds["Ready"].status \in BOOLEAN
        BY <2>1 DEF PoolRecord, CondRecord, Conditions
      <4>2. QED
        BY <3>1, <4>1
    <3>3. asked[g] = Distribute[pool.replicas].Targets[g]
      BY <2>1, <3>1, <3>2 DEF Sized
    <3>4. asked[g] \in Nat
      BY <2>1, <3>3, TargetsType DEF PoolRecord
    <3>5. QED
      BY <3>3, <3>4 DEF Greater
  <2>5. QED
    BY <2>3, <2>4 DEF ReadyMeansSizedAboveZero
<1>2. QED
  BY <1>1, InvInit, InvNext, PTL DEF Spec

\* A pool is not declared stalled before its deadline has passed since its
\* generation was first acted on, as long as every apply since then succeeded
\* and every pass had read the rows it patched.
THEOREM DeadlinesStartFresh == Spec => []FreshDeadline
<1>1. Inv => FreshDeadline
  BY DEF Inv
<1>2. QED
  BY <1>1, InvInit, InvNext, PTL DEF Spec

\* Every step keeps a running pool due.
LEMMA DueNext == Inv /\ NeverForgotten /\ [Next]_vars => NeverForgotten'
<1> SUFFICES ASSUME Inv, NeverForgotten, [Next]_vars PROVE NeverForgotten'
  OBVIOUS
<1>0. /\ pool \in PoolRecord /\ cache \in PoolRecord
      /\ pass = NoPass \/ pass \in PoolRecord
      /\ pool.paused \in BOOLEAN /\ cache.paused \in BOOLEAN
  BY DEF Inv, Types, PoolRecord
<1>1. ~cache.paused => queued \/ (pass # NoPass /\ ~pass.paused)
  BY DEF NeverForgotten
<1>2. SUFFICES ~cache'.paused => queued' \/ (pass' # NoPass /\ ~pass'.paused)
  BY DEF NeverForgotten
<1>3. CASE UNCHANGED vars
  BY <1>1, <1>3 DEF vars
<1>4. CASE Read
  <2>1. pass' # NoPass
    BY <1>0, <1>4, NoPassIsNoPool DEF Read
  <2>2. QED
    BY <1>4, <2>1 DEF Read
<1>5. CASE exitPaused
  BY <1>1, <1>5 DEF exitPaused
<1>6. CASE exitInvalid \/ exitWatchFailed \/ exitSilent
  BY <1>6 DEF exitInvalid, exitWatchFailed, exitSilent
<1>7. CASE reconcileGroups \/ groupsFail \/ patchFails
  BY <1>7 DEF reconcileGroups, groupsFail, patchFails, Complete
<1>8. CASE \E g \in Group : PodReady(g) \/ PodGone(g)
  BY <1>8 DEF PodReady, PodGone
<1>9. CASE syncPool
  <2>1. CASE queued
    BY <1>9, <2>1 DEF syncPool
  <2>2. CASE pool.paused = cache.paused
    BY <1>1, <1>9, <2>2 DEF syncPool
  <2>3. CASE pool.paused # cache.paused
    BY <1>9, <2>3 DEF syncPool
  <2>4. QED
    BY <2>2, <2>3
<1>10. CASE EditReplicas \/ EditTemplate \/ Pause
  BY <1>1, <1>10 DEF EditReplicas, EditTemplate, Pause
<1>11. CASE Tick
  <2>1. cache'.paused = cache.paused
    BY <1>0, <1>11 DEF Tick, AgeRows, PoolRecord
  <2>2. QED
    BY <1>1, <1>11, <2>1 DEF Tick
<1>12. QED
  BY <1>3, <1>4, <1>5, <1>6, <1>7, <1>8, <1>9, <1>10, <1>11 DEF Next, Reconcile, Finish

\* A pool the informer does not show paused always has its name queued or a
\* pass under way that will requeue it, whatever pauses, resumes, failures and
\* deliveries came in between: the part of StatusEventuallyTrue that is safety.
THEOREM RunningPoolsAreNeverForgotten == Spec => []NeverForgotten
<1>1. Init => NeverForgotten
  BY DEF Init, NeverForgotten
<1>2. QED
  BY <1>1, InvInit, InvNext, DueNext, PTL DEF Spec

=============================================================================
