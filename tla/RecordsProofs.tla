---------------------------- MODULE RecordsProofs ----------------------------
(***************************************************************************)
(* No deletion goes unnoticed, for any set of groups and condition types   *)
(* and any number of edits, deletions, lost writes, stale copies and       *)
(* restarts.                                                               *)
(***************************************************************************)
EXTENDS Records, TLAPS

-----------------------------------------------------------------------------
(* Pools and series.                                                       *)

Status == [pool : BOOLEAN, groups : SUBSET Groups, types : SUBSET Types]

\* Pools list a group; Gone and NoPass do not.
LEMMA NotPools == Gone \notin Pool /\ NoPass \notin Pool
<1>1. ASSUME NEW p, p.groups = {}
      PROVE  p \notin Pool
  BY <1>1 DEF Pool
<1>2. Gone.groups = {} /\ NoPass.groups = {}
  BY DEF Gone, NoPass
<1>3. QED
  BY <1>1, <1>2, Zenon

\* What is in a pool, and what a write to one of its parts leaves.
LEMMA PoolFacts ==
    ASSUME NEW p \in Pool
    PROVE  /\ p.groups \in (SUBSET Groups) \ {{}} /\ p.rows \in SUBSET Groups
           /\ p.types \in SUBSET Types /\ p.paused \in BOOLEAN /\ p.dying \in BOOLEAN
           /\ \A gs \in (SUBSET Groups) \ {{}} : [p EXCEPT !.groups = gs] \in Pool
           /\ \A b \in BOOLEAN : [p EXCEPT !.paused = b] \in Pool
           /\ \A b \in BOOLEAN : [p EXCEPT !.dying = b] \in Pool
           /\ \A ts \in SUBSET Types : [p EXCEPT !.types = ts] \in Pool
           /\ \A rs \in SUBSET Groups, ts \in SUBSET Types :
                 [p EXCEPT !.rows = rs, !.types = ts] \in Pool
BY DEF Pool

\* A pool that is created, and one an earlier version left.
LEMMA NewFacts ==
    ASSUME NEW gs \in (SUBSET Groups) \ {{}}, NEW ts \in SUBSET Types
    PROVE  New(gs) \in Pool /\ [New(gs) EXCEPT !.rows = gs, !.types = ts] \in Pool
<1>1. ASSUME NEW b \in BOOLEAN, NEW c \in BOOLEAN
      PROVE  LET gone == [groups |-> {}, paused |-> b, dying |-> c, rows |-> {}, types |-> {}]
             IN  [gone EXCEPT !.groups = gs] \in Pool
  BY DEF Pool
<1>2. New(gs) \in Pool
  BY <1>1, Zenon DEF New, Gone
<1>3. [New(gs) EXCEPT !.rows = gs, !.types = ts] \in Pool
  BY <1>2, PoolFacts
<1>4. QED
  BY <1>2, <1>3

\* The empty series.
LEMMA NoSeriesType == NoSeries \in Status
<1>1. \A b \in BOOLEAN : [pool |-> b, groups |-> {}, types |-> {}] \in Status
  BY DEF Status
<1>2. QED
  BY <1>1, Zenon DEF NoSeries

\* Recording adds the series of a status; deleting takes some away.
LEMMA SeriesFacts ==
    ASSUME NEW s \in Status, NEW p \in Pool, NEW A, NEW B
    PROVE  /\ recordPoolMetricsFromStatus(s, p) \in Status
           /\ deleteStaleGroupMetrics(s, A, B) \in Status
           /\ deleteStaleConditionMetrics(s, A, B) \in Status
<1>1. \A b \in BOOLEAN : [pool |-> b, groups |-> s.groups \cup p.rows,
                          types |-> s.types \cup p.types] \in Status
  BY PoolFacts DEF Status
<1>2. recordPoolMetricsFromStatus(s, p) \in Status
  BY <1>1, Zenon DEF recordPoolMetricsFromStatus
<1>3. deleteStaleGroupMetrics(s, A, B) \in Status
  BY DEF Status, deleteStaleGroupMetrics
<1>4. deleteStaleConditionMetrics(s, A, B) \in Status
  BY DEF Status, deleteStaleConditionMetrics
<1>5. QED
  BY <1>2, <1>3, <1>4

\* A disturbance uses up the scenario's budget.
LEMMA DisturbFacts ==
    ASSUME NEW what, Disturb(what),
           \E s \in Scenarios : s.of = budget.of /\ budget.left \in 0 .. s.left
    PROVE  \E s \in Scenarios : s.of = budget'.of /\ budget'.left \in 0 .. s.left
BY ScenariosAssumption DEF Disturb

-----------------------------------------------------------------------------
(* The steps.                                                              *)

Notice == cached = Gone /\ (pass # NoPass \/ ~Forgotten) => queued

Budgeted == \E s \in Scenarios : s.of = budget.of /\ budget.left \in 0 .. s.left

\* The invariant with its parts named.
LEMMA Parts ==
    ASSUME DeletionNoticed
    PROVE  /\ Notice /\ Budgeted
           /\ pool \in Pool \/ pool = Gone
           /\ cached \in Pool \/ cached = Gone
           /\ pass \in Pool \/ pass = NoPass
           /\ queued \in BOOLEAN /\ series \in Status
           /\ probes \in SUBSET Opportunistic /\ warned \in SUBSET Erratic
BY DEF DeletionNoticed, TypeOK, Notice, Budgeted, Status

\* The initial states.
LEMMA InitNoticed == Init => DeletionNoticed
<1> SUFFICES ASSUME Init PROVE DeletionNoticed
  OBVIOUS
<1>1. pool \in Pool \cup {Gone}
  <2>1. CASE pool = Gone
    BY <2>1
  <2>2. ASSUME pool # Gone PROVE pool \in Pool
    <3>1. PICK gs \in (SUBSET Groups) \ {{}}, ts \in SUBSET Retired :
             pool = [New(gs) EXCEPT !.rows = gs, !.types = ts]
      BY <2>2, Zenon DEF Init
    <3>2. ts \in SUBSET Types
      BY TypesAssumption
    <3>3. QED
      BY <3>1, <3>2, NewFacts
  <2>3. QED
    BY <2>1, <2>2
<1>2. series \in Status
  BY NoSeriesType DEF Init
<1>3. Budgeted
  <2>1. budget \in Scenarios
    BY DEF Init
  <2>2. budget.left \in 0 .. budget.left
    BY <2>1, ScenariosAssumption
  <2>3. QED
    BY <2>1, <2>2 DEF Budgeted
<1>4. TypeOK
  BY <1>1, <1>2, <1>3 DEF Init, TypeOK, Status, Budgeted
<1>5. Notice
  BY DEF Init, Notice, Forgotten
<1>6. QED
  BY <1>4, <1>5 DEF DeletionNoticed, Notice

\* A copy whose status a pass has filled in is a pool.
LEMMA AfterFacts ==
    ASSUME pass \in Pool
    PROVE  /\ setConditions(pass) \in Pool
           /\ [setConditions(pass) EXCEPT !.rows = pass.groups] \in Pool
<1>1. setConditions(pass) \in Pool
  BY PoolFacts DEF setConditions
<1>2. setConditions(pass).groups = pass.groups
  BY DEF setConditions, Pool
<1>3. QED
  BY <1>1, <1>2 DEF Pool

\* The end of a pass: a pool that is gone stays gone, and the name stays
\* queued if it was.
LEMMA PublishFacts ==
    ASSUME DeletionNoticed, pass \in Pool, NEW s \in Status, NEW after \in Pool,
           NEW again \in BOOLEAN, NEW halt \in BOOLEAN, PublishAndPatch(s, after, again, halt),
           probes' \in SUBSET Opportunistic, warned' \in SUBSET Erratic
    PROVE  DeletionNoticed'
<1>1. /\ Notice /\ Budgeted
      /\ pool \in Pool \/ pool = Gone
      /\ cached \in Pool \/ cached = Gone
      /\ queued \in BOOLEAN
  BY Parts
<1>2. series' \in Status
  <2>1. deleteStaleConditionMetrics(s, after.types, pass.types) \in Status
    BY SeriesFacts
  <2>2. QED
    BY <2>1, SeriesFacts DEF PublishAndPatch
<1>3. pass' = NoPass /\ cached' = cached
  BY DEF PublishAndPatch
<1>4. pool' \in Pool \/ pool' = Gone
  <2>1. pool # Gone => patchStatus(after) \in Pool
    <3> DEFINE rs == IF after.rows # pass.rows THEN after.rows ELSE pool.rows
               ts == IF after.types # pass.types THEN after.types ELSE pool.types
    <3>1. SUFFICES ASSUME pool \in Pool PROVE patchStatus(after) \in Pool
      BY <1>1
    <3>2. rs \in SUBSET Groups /\ ts \in SUBSET Types
      BY <3>1, PoolFacts
    <3>3. patchStatus(after) = [pool EXCEPT !.rows = rs, !.types = ts]
      BY DEF patchStatus
    <3> HIDE DEF rs, ts
    <3>4. QED
      BY ONLY <3>1, <3>2, <3>3 DEF Pool
  <2>2. QED
    BY <1>1, <2>1 DEF PublishAndPatch
<1>5. queued' \in BOOLEAN /\ (queued => queued')
  BY <1>1 DEF PublishAndPatch
<1>6. Budgeted'
  BY <1>1, DisturbFacts DEF PublishAndPatch, Budgeted
<1>7. pass # NoPass
  BY NotPools
<1>8. TypeOK'
  BY <1>1, <1>2, <1>3, <1>4, <1>5, <1>6 DEF TypeOK, Status, Budgeted
<1>9. cached' = Gone => queued'
  BY <1>1, <1>3, <1>5, <1>7 DEF Notice
<1>10. QED
  BY <1>8, <1>9 DEF DeletionNoticed

\* A user's or another writer's write.
LEMMA WriteFacts ==
    ASSUME DeletionNoticed, NEW what, NEW new, new \in Pool \/ new = Gone, Write(what, new)
    PROVE  DeletionNoticed'
<1>1. /\ Notice /\ Budgeted
      /\ cached \in Pool \/ cached = Gone
      /\ pass \in Pool \/ pass = NoPass
      /\ queued \in BOOLEAN /\ series \in Status
      /\ probes \in SUBSET Opportunistic /\ warned \in SUBSET Erratic
  BY Parts
<1>2. pool' = new /\ UNCHANGED <<cached, queued, pass, series, probes, warned>>
  BY DEF Write, memory
<1>3. Budgeted'
  BY <1>1, DisturbFacts DEF Write, Budgeted
<1>4. TypeOK'
  BY <1>1, <1>2, <1>3 DEF TypeOK, Status, Budgeted
<1>5. Notice'
  BY <1>1, <1>2 DEF Notice, Forgotten
<1>6. QED
  BY <1>4, <1>5 DEF DeletionNoticed, Notice

-----------------------------------------------------------------------------
(* The theorem.                                                            *)

\* Every step keeps the invariant.
LEMMA NextNoticed == DeletionNoticed /\ [Next]_vars => DeletionNoticed'
<1> SUFFICES ASSUME DeletionNoticed, [Next]_vars PROVE DeletionNoticed'
  OBVIOUS
<1>0. /\ Notice /\ Budgeted
      /\ pool \in Pool \/ pool = Gone
      /\ cached \in Pool \/ cached = Gone
      /\ pass \in Pool \/ pass = NoPass
      /\ queued \in BOOLEAN /\ series \in Status
      /\ probes \in SUBSET Opportunistic /\ warned \in SUBSET Erratic
  BY Parts
<1>1. CASE UNCHANGED vars
  <2>1. TypeOK'
    BY <1>1 DEF DeletionNoticed, TypeOK, vars
  <2>2. Notice'
    BY <1>0, <1>1 DEF Notice, Forgotten, vars
  <2>3. QED
    BY <2>1, <2>2 DEF DeletionNoticed, Notice
<1>2. CASE PassBegins
  <2>1. /\ cached # Gone /\ cached' = cached /\ pass' = cached /\ queued' = FALSE
        /\ UNCHANGED <<pool, series, probes, warned>>
    BY <1>2 DEF PassBegins, memory
  <2>2. Budgeted'
    BY <1>0, <1>2, DisturbFacts DEF PassBegins, Budgeted
  <2>3. TypeOK'
    BY <1>0, <2>1, <2>2 DEF TypeOK, Status, Budgeted
  <2>4. QED
    BY <2>1, <2>3 DEF DeletionNoticed
<1>3. CASE PassFindsNothing
  <2>1. /\ UNCHANGED <<pool, cached, pass, budget>> /\ queued' = FALSE /\ pass = NoPass
        /\ \/ /\ cached = Gone
              /\ series' = NoSeries /\ probes' = {} /\ warned' = {}
           \/ cached # Gone /\ UNCHANGED <<series, probes, warned>>
    BY <1>3 DEF PassFindsNothing, deletePoolMetrics, memory
  <2>2. TypeOK'
    BY <1>0, <2>1, NoSeriesType DEF TypeOK, Status, Budgeted
  <2>3. Notice'
    BY <2>1 DEF Notice, Forgotten
  <2>4. QED
    BY <2>2, <2>3 DEF DeletionNoticed, Notice
<1>4. CASE PausedPass
  <2>1. pass \in Pool
    BY <1>0, <1>4 DEF PausedPass
  <2>2. PublishAndPatch(series, setConditions(pass), FALSE, FALSE)
        /\ UNCHANGED <<probes, warned>>
    BY <1>4 DEF PausedPass
  <2>3. FALSE \in BOOLEAN
    OBVIOUS
  <2>4. QED
    BY <1>0, <2>1, <2>2, <2>3, AfterFacts, PublishFacts, Zenon
<1>5. CASE HaltedPass
  <2>1. pass \in Pool
    BY <1>0, <1>5 DEF HaltedPass
  <2>2. PICK after \in {pass, setConditions(pass)} :
           PublishAndPatch(series, after, TRUE, TRUE)
    BY <1>5 DEF HaltedPass
  <2>3. after \in Pool /\ UNCHANGED <<probes, warned>>
    BY <1>5, <2>1, AfterFacts DEF HaltedPass
  <2>4. TRUE \in BOOLEAN
    OBVIOUS
  <2>5. QED
    BY <1>0, <2>1, <2>2, <2>3, <2>4, PublishFacts, Zenon
<1>6. ASSUME NEW bad \in SUBSET Erratic, FullPass(bad)
      PROVE  DeletionNoticed'
  <2> DEFINE after == [setConditions(pass) EXCEPT !.rows = pass.groups]
             s == deleteStaleGroupMetrics(series, after.rows, pass.rows)
  <2>1. pass \in Pool
    BY <1>0, <1>6 DEF FullPass
  <2>2. /\ PublishAndPatch(s, after, TRUE, FALSE)
        /\ probes' = probes \cup (Opportunistic \cap pass.groups)
        /\ warned' = (warned \ pass.groups) \cup bad
    BY <1>6 DEF FullPass
  <2>3. after \in Pool
    BY <2>1, AfterFacts
  <2>4. s \in Status
    BY <1>0, <2>1, SeriesFacts
  <2> HIDE DEF after, s
  <2>5. probes' \in SUBSET Opportunistic /\ warned' \in SUBSET Erratic
    BY <1>0, <1>6, <2>2
  <2>6. TRUE \in BOOLEAN /\ FALSE \in BOOLEAN
    OBVIOUS
  <2>7. QED
    BY <2>1, <2>2, <2>3, <2>4, <2>5, <2>6, PublishFacts, Zenon
<1>7. CASE CacheCatchesUp
  <2>1. /\ cached' = pool /\ UNCHANGED <<pool, pass, series, probes, warned, budget>>
        /\ queued' = (queued \/ <<pool.groups, pool.paused, pool.dying>>
                               # <<cached.groups, cached.paused, cached.dying>>)
        /\ cached # pool
    BY <1>7 DEF CacheCatchesUp, memory
  <2>2. queued' \in BOOLEAN
    BY <2>1
  <2>3. TypeOK'
    BY <1>0, <2>1, <2>2 DEF TypeOK, Status, Budgeted
  <2>4. pool = Gone => queued'
    <3>1. SUFFICES ASSUME pool = Gone PROVE pool.groups # cached.groups
      BY <2>1
    <3>2. cached.groups # {}
      BY <1>0, <2>1, <3>1, PoolFacts
    <3>3. pool.groups = {}
      BY <3>1 DEF Gone
    <3>4. QED
      BY <3>2, <3>3
  <2>5. QED
    BY <2>1, <2>3, <2>4 DEF DeletionNoticed
<1>8. ASSUME NEW gs \in (SUBSET Groups) \ {{}}, UserEdits(gs) \/ UserCreates(gs)
      PROVE  DeletionNoticed'
  <2>1. CASE UserEdits(gs)
    <3>1. pool \in Pool /\ Write("edit", [pool EXCEPT !.groups = gs])
      BY <1>0, <2>1 DEF UserEdits
    <3>2. [pool EXCEPT !.groups = gs] \in Pool
      BY <3>1, PoolFacts
    <3>3. QED
      BY <3>1, <3>2, WriteFacts
  <2>2. CASE UserCreates(gs)
    <3>1. Write("create", New(gs))
      BY <2>2 DEF UserCreates
    <3>2. New(gs) \in Pool
      BY NewFacts
    <3>3. QED
      BY <3>1, <3>2, WriteFacts
  <2>3. QED
    BY <1>8, <2>1, <2>2
<1>9. CASE UserPauses
  <2>1. pool \in Pool /\ Write("pause", [pool EXCEPT !.paused = ~pool.paused])
    BY <1>0, <1>9 DEF UserPauses
  <2>2. [pool EXCEPT !.paused = ~pool.paused] \in Pool
    BY <2>1, PoolFacts
  <2>3. QED
    BY <2>1, <2>2, WriteFacts
<1>10. CASE UserDeletes
  <2>1. pool \in Pool
    BY <1>0, <1>10 DEF UserDeletes
  <2>2. PICK new \in {Gone, [pool EXCEPT !.dying = TRUE]} : Write("delete", new)
    BY <1>10 DEF UserDeletes
  <2>3. [pool EXCEPT !.dying = TRUE] \in Pool
    BY <2>1, PoolFacts, Zenon
  <2>4. QED
    BY <2>2, <2>3, WriteFacts
<1>11. CASE PoolVanishes
  <2>1. pool' = Gone /\ UNCHANGED <<cached, queued, pass, series, probes, warned, budget>>
    BY <1>11 DEF PoolVanishes, memory
  <2>2. TypeOK'
    BY <1>0, <2>1 DEF TypeOK, Status, Budgeted
  <2>3. Notice'
    BY <1>0, <2>1 DEF Notice, Forgotten
  <2>4. QED
    BY <2>2, <2>3 DEF DeletionNoticed, Notice
<1>12. ASSUME NEW t \in Types \ Retired, OthersSetCondition(t)
       PROVE  DeletionNoticed'
  <2> DEFINE ts == IF t \in pool.types THEN pool.types \ {t} ELSE pool.types \cup {t}
  <2>1. pool \in Pool /\ Write("condition", [pool EXCEPT !.types = ts])
    BY <1>0, <1>12 DEF OthersSetCondition
  <2>2. ts \in SUBSET Types
    BY <2>1, PoolFacts
  <2> HIDE DEF ts
  <2>3. [pool EXCEPT !.types = ts] \in Pool
    BY <2>1, <2>2, PoolFacts
  <2>4. QED
    BY <2>1, <2>3, WriteFacts
<1>13. CASE Restart
  <2>1. /\ series' = NoSeries /\ probes' = {} /\ warned' = {} /\ pass' = NoPass
        /\ cached' = pool /\ queued' = (pool # Gone) /\ pool' = pool
    BY <1>13 DEF Restart
  <2>2. Budgeted'
    BY <1>0, <1>13, DisturbFacts DEF Restart, Budgeted
  <2>3. TypeOK'
    BY <1>0, <2>1, <2>2, NoSeriesType DEF TypeOK, Status, Budgeted
  <2>4. Notice'
    BY <2>1 DEF Notice, Forgotten
  <2>5. QED
    BY <2>3, <2>4 DEF DeletionNoticed, Notice
<1>14. QED
  BY <1>1, <1>2, <1>3, <1>4, <1>5, <1>6, <1>7, <1>8, <1>9, <1>10, <1>11, <1>12, <1>13
     DEF Next, Reconcile

\* Once the cache has lost a pool of which anything is or is about to be
\* remembered, its name is queued, so a pass will clean up after it; and the
\* records have their types.
THEOREM DeletionsAreNoticed == Spec => []DeletionNoticed
BY InitNoticed, NextNoticed, PTL DEF Spec

=============================================================================
