------------------------- MODULE OpportunisticProofs -------------------------
(***************************************************************************)
(* What the sizing of an opportunistic group promises, for every floor,    *)
(* every total, every amount of room and every sequence of disturbances    *)
(* that each theorem allows.                                               *)
(***************************************************************************)
EXTENDS Opportunistic, DistributionProofs, TLAPS

-----------------------------------------------------------------------------
(* The distribution over the pool's two groups.                            *)

\* One loop over two groups, in numbers.
LEMMA LoopOfTwo ==
    ASSUME NEW p \in 1 .. 4, NEW t, NEW groups, NEW observed,
           Arguments(t, groups, observed), Len(groups) = 2, NEW start \in State(2)
    PROVE  LET end == Loop(p, t, groups, observed, start)
               x   == start.targets[1]
               y   == start.targets[2]
               r   == start.remaining
               g   == Share(Asks(p, t, groups[1], observed[1], x, r) - x, r)
               h   == Share(Asks(p, t, groups[2], observed[2], y, r - g) - y, r - g)
           IN  /\ end \in State(2)
               /\ end.targets[1] = x + g /\ end.targets[2] = y + h
               /\ end.remaining = (r - g) - h
<1>1. PICK f : /\ Run(p, t, groups, observed, f)
               /\ f[0] = start
               /\ f[2] = Loop(p, t, groups, observed, start)
  <2>1. start \in State(Len(groups)) /\ p \in 1 .. 4 /\ Arguments(t, groups, observed)
    OBVIOUS
  <2>2. PICK f : /\ Run(p, t, groups, observed, f)
                 /\ f[0] = start
                 /\ f[Len(groups)] = Loop(p, t, groups, observed, start)
    BY ONLY <2>1, LoopRuns
  <2>3. QED
    BY <2>2
<1>2. Handed(2, f[0], 1, AskIn(p, t, groups, observed, f[0], 1), f[1])
  <2>1. 0 \in 0 .. Len(groups) - 1 /\ 0 + 1 = 1
    OBVIOUS
  <2>2. Handed(Len(groups), f[0], 0 + 1, AskIn(p, t, groups, observed, f[0], 0 + 1), f[0 + 1])
    BY <1>1, <2>1, RunNext
  <2>3. QED
    BY <2>1, <2>2
<1>3. Handed(2, f[1], 2, AskIn(p, t, groups, observed, f[1], 2), f[2])
  <2>1. 1 \in 0 .. Len(groups) - 1 /\ 1 + 1 = 2
    OBVIOUS
  <2>2. Handed(Len(groups), f[1], 1 + 1, AskIn(p, t, groups, observed, f[1], 1 + 1), f[1 + 1])
    BY <1>1, <2>1, RunNext
  <2>3. QED
    BY <2>1, <2>2
<1> DEFINE x == start.targets[1]
           y == start.targets[2]
           r == start.remaining
           g == Share(Asks(p, t, groups[1], observed[1], x, r) - x, r)
           h == Share(Asks(p, t, groups[2], observed[2], y, r - g) - y, r - g)
<1>4. f[1].targets[1] = x + g /\ f[1].targets[2] = y /\ f[1].remaining = r - g
  <2>1. 2 \in 1 .. 2 \ {1}
    OBVIOUS
  <2>2. QED
    BY <1>1, <1>2, <2>1 DEF Handed, AskIn
<1>5. /\ f[2] \in State(2) /\ f[2].targets[2] = y + h /\ f[2].targets[1] = x + g
      /\ f[2].remaining = (r - g) - h
  <2>1. 1 \in 1 .. 2 \ {2}
    OBVIOUS
  <2>2. QED
    BY <1>3, <1>4, <2>1 DEF Handed, AskIn
<1>6. QED
  BY <1>1, <1>5

\* The floor comes first, then the capacity, and the burst group is left with
\* the rest: every replica is given to one of the two.
LEMMA TwoGroupTargets ==
    ASSUME NEW t \in Nat, NEW capacity \in Nat \cup {Nil}
    PROVE  LET targets == ComputeGroupTargets(t, Groups, <<capacity, Nil>>).Targets
           IN  /\ targets[1] \in Nat /\ targets[2] \in Nat
               /\ targets[1] + targets[2] = t
               /\ targets[1] >= Lesser(Floor, t)
               /\ capacity # Nil => targets[1] <= Greater(Lesser(Floor, t), capacity)
<1> DEFINE obs == <<capacity, Nil>>
           zero == [targets |-> [k \in DOMAIN Groups |-> 0],
                    remaining |-> IF t <= 0 THEN 0 ELSE t]
           p1 == Loop(1, t, Groups, obs, zero)
           p2 == Loop(2, t, Groups, obs, p1)
           p3 == Loop(3, t, Groups, obs, p2)
           p4 == Loop(4, t, Groups, obs, p3)
           m  == Lesser(Floor, t)
<1>1. /\ Groups \in Seq(Scaling) /\ Len(Groups) = 2
      /\ obs \in [1 .. 2 -> Nat \cup {Nil}]
      /\ Arguments(t, Groups, obs)
  BY FloorAssumption DEF Groups, Scaling, Nil, Arguments
<1>2. /\ Groups[1].min = Floor /\ Groups[1].max = Nil /\ Groups[1].target = Nil
      /\ Groups[1].opportunistic = TRUE
      /\ Groups[2].min = Nil /\ Groups[2].max = Nil /\ Groups[2].target = Nil
      /\ Groups[2].opportunistic = FALSE
      /\ obs[1] = capacity /\ obs[2] = Nil
  BY DEF Groups
<1>3. zero \in State(2) /\ zero.targets[1] = 0 /\ zero.targets[2] = 0 /\ zero.remaining = t
  BY <1>1 DEF State
<1>4. ComputeGroupTargets(t, Groups, obs).Targets = p4.targets
  BY DEF ComputeGroupTargets
<1>5. m \in Nat /\ m <= t /\ m <= Floor /\ (m = Floor \/ m = t)
  BY FloorAssumption DEF Lesser
<1> HIDE DEF obs, zero, m
<1>6. /\ p1 \in State(2)
      /\ p1.targets[1] = m /\ p1.targets[2] = 0 /\ p1.remaining = t - m
  <2>1. Asks(1, t, Groups[1], obs[1], 0, t) = Floor /\ \A r : Asks(1, t, Groups[2], obs[2], 0, r) = 0
    BY <1>2, FloorAssumption DEF Asks, GroupFloor, Nil
  <2>2. Share(Floor - 0, t) = m /\ \A r : Share(0 - 0, r) = 0
    BY <1>5, FloorAssumption DEF Share, Lesser, m
  <2>3. QED
    BY <1>1, <1>3, <1>5, <2>1, <2>2, LoopOfTwo
<1> HIDE DEF p1
<1>7. \A x \in Nat : \A r :
          /\ Asks(2, t, Groups[1], obs[1], x, r) = 0
          /\ Asks(2, t, Groups[2], obs[2], x, r) = 0
          /\ Asks(3, t, Groups[2], obs[2], x, r) = 0
          /\ Asks(4, t, Groups[1], obs[1], x, r) = 0
          /\ Share(0 - x, r) = 0
  BY <1>2 DEF Asks, TargetReadable, IsOpportunistic, Share, Nil
<1>8. /\ p2 \in State(2)
      /\ p2.targets[1] = m /\ p2.targets[2] = 0 /\ p2.remaining = t - m
  BY <1>1, <1>5, <1>6, <1>7, LoopOfTwo
<1> HIDE DEF p2
<1> DEFINE want == IF capacity = Nil THEN t - m ELSE capacity
           g == Share(want - m, t - m)
<1>9. Asks(3, t, Groups[1], obs[1], m, t - m) = want
  BY <1>2 DEF Asks, IsOpportunistic
<1>10. g \in Nat /\ g <= t - m /\ (capacity # Nil => m + g <= Greater(m, capacity))
  BY <1>5 DEF Share, Lesser, Greater, Nil
<1> HIDE DEF want
<1>11. /\ p3 \in State(2)
       /\ p3.targets[1] = m + g /\ p3.targets[2] = 0 /\ p3.remaining = (t - m) - g
  BY <1>1, <1>5, <1>7, <1>8, <1>9, <1>10, LoopOfTwo
<1> HIDE DEF p3, g
<1>12. p4.targets[1] = m + g /\ p4.targets[2] = (t - m) - g
  <2>1. Asks(4, t, Groups[2], obs[2], 0, (t - m) - g) = 0 + ((t - m) - g)
    BY <1>2 DEF Asks, IsOpportunistic, hasStaticCeiling
  <2>2. Share((0 + ((t - m) - g)) - 0, (t - m) - g) = (t - m) - g
    BY <1>5, <1>10 DEF Share, Lesser
  <2>3. m + g \in Nat /\ ((t - m) - g) - 0 = (t - m) - g
    BY <1>5, <1>10
  <2>4. QED
    BY <1>1, <1>5, <1>7, <1>10, <1>11, <2>1, <2>2, <2>3, LoopOfTwo
<1>13. QED
  BY <1>4, <1>5, <1>10, <1>12 DEF m, obs

-----------------------------------------------------------------------------
(* The pass.                                                               *)

Observation == [found : BOOLEAN, foreign : BOOLEAN, asked : Nat, ready : Nat,
                unschedulable : Nat]

Record == [outstanding : BOOLEAN, failedAge : 0 .. Heartbeat, startedAge : 0 .. VerdictTimeout]

\* A probe that is started, judged or withdrawn leaves a probe record.
LEMMA RecordUpdate ==
    ASSUME NEW st \in Record, NEW flag \in BOOLEAN
    PROVE  /\ [st EXCEPT !.outstanding = flag, !.startedAge = 0] \in Record
           /\ [st EXCEPT !.outstanding = flag, !.startedAge = 0].outstanding = flag
<1>1. 0 \in 0 .. VerdictTimeout
  BY TimerAssumption
<1>2. ASSUME NEW A, NEW B, NEW C, NEW r \in [outstanding : A, failedAge : B, startedAge : C],
             NEW a \in A, NEW c \in C
      PROVE  /\ [r EXCEPT !.outstanding = a, !.startedAge = c]
                  \in [outstanding : A, failedAge : B, startedAge : C]
             /\ [r EXCEPT !.outstanding = a, !.startedAge = c].outstanding = a
  OBVIOUS
<1>3. QED
  BY <1>1, <1>2 DEF Record

\* The probe record stays a record, and a size above the distribution's own
\* target is the one replica of a probe that is outstanding.
LEMMA DecideFacts ==
    ASSUME NEW target \in Nat, NEW obs \in Observation, NEW before \in Record
    PROVE  LET d == decideProbe(target, obs, before)
           IN  /\ d.st \in Record
               /\ d.target \in {target, target + 1}
               /\ d.target = target + 1 => d.st.outstanding
<1> DEFINE st == Judged(obs, before)
           d == decideProbe(target, obs, before)
<1>1. st \in Record
  <2>1. [outstanding |-> FALSE, failedAge |-> 0, startedAge |-> 0] \in Record
    BY TimerAssumption DEF Record
  <2>2. [before EXCEPT !.outstanding = FALSE, !.startedAge = 0] \in Record
    BY RecordUpdate
  <2>3. QED
    BY <2>1, <2>2 DEF Judged
<1> HIDE DEF st
<1>2. CASE st.outstanding /\ st.startedAge >= VerdictTimeout
  <2>1. d = [target |-> target, st |-> [outstanding |-> FALSE, failedAge |-> 0, startedAge |-> 0]]
    BY <1>2 DEF decideProbe, st
  <2>2. QED
    BY <2>1, TimerAssumption DEF Record
<1>3. CASE st.outstanding /\ ~(st.startedAge >= VerdictTimeout)
  <2>1. d = [target |-> IF obs.found THEN target + 1 ELSE target, st |-> st]
    BY <1>3 DEF decideProbe, st
  <2>2. QED
    BY <1>1, <1>3, <2>1
<1>4. CASE ~st.outstanding
  <2>1. \/ d = [target |-> target + 1, st |-> [st EXCEPT !.outstanding = TRUE, !.startedAge = 0]]
        \/ d = [target |-> target, st |-> st]
    BY <1>4 DEF decideProbe, st
  <2>2. /\ [st EXCEPT !.outstanding = TRUE, !.startedAge = 0] \in Record
        /\ [st EXCEPT !.outstanding = TRUE, !.startedAge = 0].outstanding = TRUE
    BY <1>1, RecordUpdate
  <2>4. CASE d = [target |-> target, st |-> st]
    BY <1>1, <2>4
  <2>5. CASE d = [target |-> target + 1, st |-> [st EXCEPT !.outstanding = TRUE, !.startedAge = 0]]
    <3>1. d.st = [st EXCEPT !.outstanding = TRUE, !.startedAge = 0] /\ d.target = target + 1
      BY <2>5
    <3>2. QED
      BY <2>2, <3>1
  <2>6. QED
    BY <2>1, <2>4, <2>5
<1>5. QED
  BY <1>2, <1>3, <1>4

\* What an observation offers to the distribution.
LEMMA CapacityFacts ==
    ASSUME NEW obs \in Observation, NEW st \in Record, obs.unschedulable <= obs.asked
    PROVE  LET c == capacityFrom(obs, st)
           IN  /\ c \in Nat \cup {Nil}
               /\ obs.found /\ ~obs.foreign =>
                    /\ c # Nil /\ c <= obs.asked
                    /\ st.outstanding /\ obs.ready < obs.asked => c <= obs.asked - 1
<1>1. /\ obs.asked \in Nat /\ obs.ready \in Nat /\ obs.unschedulable \in Nat
      /\ obs.found \in BOOLEAN /\ obs.foreign \in BOOLEAN /\ st.outstanding \in BOOLEAN
  BY DEF Observation, Record
<1>2. QED
  BY <1>1 DEF capacityFrom, Greater, Nil

\* The pass in progress: what it read and what it is about to write.
PassType ==
    /\ pass \in [pc : {"idle", "list", "decide", "scavenger", "burst"}, total : Nat,
                 obs : Observation, want : Nat \X Nat]
    /\ pass.pc = "list" => pass.obs.ready < pass.obs.asked
    /\ pass.obs.unschedulable <= pass.obs.asked
    /\ ~(pass.obs.found /\ pass.obs.foreign)

\* The sizes a pass writes add up to the spec.replicas it read, or to one
\* more; a child the pool owns has received its part when burst's is written.
\* (A child is never taken for another owner's while it is the pool's.)
WritesAddUp ==
    /\ child.owner = "pool" => cache.owner # "other"
    /\ pass.pc \in {"scavenger", "burst"} =>
          pass.want[1] + pass.want[2] \in {pass.total, pass.total + 1}
    /\ pass.pc = "burst" /\ child.owner = "pool" => child.asked = pass.want[1]

\* Faults under which every pass that starts to write completes its writes.
WritesComplete == "apply" \notin Faults /\ "restart" \notin Faults

SurplusInv == OnlyTheProbeIsSurplus /\ PassType /\ WritesAddUp

\* The pass starts to read with nothing read before.
LEMMA IdleType == Idle \in [pc : {"idle", "list", "decide", "scavenger", "burst"}, total : Nat,
                            obs : Observation, want : Nat \X Nat]
BY DEF Idle, Unread, Observation

\* Nothing has been asked for at the start.
LEMMA InitSurplus == Init => SurplusInv
<1> SUFFICES ASSUME Init PROVE SurplusInv
  OBVIOUS
<1>1. PassType
  BY IdleType DEF Init, PassType, Idle, Unread
<1>2. TypeOK
  BY TimerAssumption, BudgetAssumption
  DEF Init, TypeOK, NoChild, NoPods, NoProbe, Idle, Unread
<1>3. QED
  BY <1>1, <1>2 DEF Init, SurplusInv, OnlyTheProbeIsSurplus, WritesAddUp, NoChild, Idle

\* A disturbance leaves no more than the budget.
LEMMA DisturbType ==
    ASSUME budget \in 0 .. Budget, NEW kind, Disturb(kind)
    PROVE  budget' \in 0 .. Budget /\ kind \in Faults
BY BudgetAssumption DEF Disturb

\* What a pass reads of the child.
LEMMA CountsFacts ==
    ASSUME TypeOK
    PROVE  /\ childCounts \in Observation
           /\ childCounts.unschedulable = 0
           /\ ~(childCounts.found /\ childCounts.foreign)
           /\ childCounts.found => seen.owner = "pool" /\ childCounts.asked = seen.asked
                                   /\ childCounts.ready = seen.ready
<1>1. seen \in [owner : {"none", "pool", "other"}, asked : Nat, ready : Nat]
  BY DEF TypeOK, seen
<1> HIDE DEF seen
<1>2. CASE seen.owner = "none"
  BY <1>2 DEF childCounts, Unread, Observation
<1>3. CASE seen.owner = "other"
  BY <1>3 DEF childCounts, Unread, Observation
<1>4. CASE seen.owner = "pool"
  <2>1. childCounts = [found |-> TRUE, foreign |-> FALSE, asked |-> seen.asked,
                       ready |-> seen.ready, unschedulable |-> 0]
    BY <1>4 DEF childCounts, Unread
  <2>2. QED
    BY <1>1, <1>4, <2>1 DEF Observation
<1>5. QED
  BY <1>1, <1>2, <1>3, <1>4

\* A pass starts: nothing is written.
LEMMA ObserveSurplus == SurplusInv /\ observeOpportunistic => SurplusInv'
<1> SUFFICES ASSUME SurplusInv, observeOpportunistic PROVE SurplusInv'
  OBVIOUS
<1>1. TypeOK /\ PassType
  BY DEF SurplusInv, OnlyTheProbeIsSurplus
<1>2. /\ childCounts \in Observation /\ childCounts.unschedulable = 0
      /\ ~(childCounts.found /\ childCounts.foreign)
  BY <1>1, CountsFacts
<1>3. childCounts.asked \in Nat /\ childCounts.ready \in Nat /\ total \in Nat
  BY <1>1, <1>2, SizesAssumption DEF Observation, TypeOK
<1>4. pass' = [pc    |-> IF childCounts.found /\ childCounts.ready < childCounts.asked
                         THEN "list" ELSE "decide",
               total |-> total, obs |-> childCounts, want |-> pass.want]
  BY <1>1 DEF observeOpportunistic, PassType
<1> HIDE DEF childCounts
<1>5. PassType'
  BY <1>1, <1>2, <1>3, <1>4 DEF PassType
<1>6. budget' \in 0 .. Budget
  BY <1>1, DisturbType DEF observeOpportunistic, Read, TypeOK
<1>7. TypeOK'
  <2>1. pass'.pc \in {"idle", "list", "decide", "scavenger", "burst"}
        /\ pass'.obs.unschedulable \in 0 .. pass'.obs.asked
    BY <1>2, <1>3, <1>4
  <2>2. QED
    BY <1>1, <1>6, <2>1 DEF observeOpportunistic, TypeOK, cluster, world
<1>8. pass.pc = "idle" /\ pass'.pc \in {"list", "decide"}
  BY <1>4 DEF observeOpportunistic
<1>9. QED
  BY <1>5, <1>7, <1>8
  DEF SurplusInv, OnlyTheProbeIsSurplus, WritesAddUp, observeOpportunistic, cluster

\* The scheduler's refusals are counted, or the list fails.
LEMMA CountSurplus == SurplusInv /\ (countUnschedulable \/ countFails) => SurplusInv'
<1> SUFFICES ASSUME SurplusInv, countUnschedulable \/ countFails PROVE SurplusInv'
  OBVIOUS
<1>1. TypeOK /\ PassType
  BY DEF SurplusInv, OnlyTheProbeIsSurplus
<1>2. pass.pc = "list" /\ pass.obs \in Observation
      /\ pass.obs.asked \in Nat /\ pass.obs.ready \in Nat /\ pass.obs.ready < pass.obs.asked
  BY <1>1 DEF countUnschedulable, countFails, PassType, Observation
<1>3. UNCHANGED <<world, cluster, probe>> /\ budget' \in 0 .. Budget
  BY <1>1, DisturbType DEF countUnschedulable, countFails, TypeOK
<1>4. \E n \in 0 .. pass.obs.asked :
         pass' = [pass EXCEPT !.pc = "decide", !.obs.unschedulable = n]
  <2>1. CASE countUnschedulable
    <3>1. PICK n \in Greater(0, pods.refused - Greater(0, pods.refused + pods.fresh
                                   - Lesser(pass.obs.asked - pass.obs.ready, MaxUnschedulable)))
                     .. Lesser(pods.refused, Lesser(pass.obs.asked - pass.obs.ready, MaxUnschedulable)) :
               pass' = [pass EXCEPT !.pc = "decide", !.obs.unschedulable = n]
      BY <2>1 DEF countUnschedulable
    <3>2. pods.refused \in Nat /\ pods.fresh \in Nat
      BY <1>1 DEF TypeOK
    <3>3. n \in 0 .. pass.obs.asked
      BY <1>2, <3>2, PageAssumption DEF Greater, Lesser
    <3>4. QED
      BY <3>1, <3>3
  <2>2. CASE countFails
    <3>1. pass.obs.unschedulable \in 0 .. pass.obs.asked
      BY <1>1 DEF TypeOK
    <3>2. pass' = [pass EXCEPT !.pc = "decide", !.obs.unschedulable = pass.obs.unschedulable]
      <4>1. pass' = [pass EXCEPT !.pc = "decide"]
        BY <2>2 DEF countFails
      <4>2. [pass EXCEPT !.pc = "decide"] = [pass EXCEPT !.pc = "decide", !.obs = pass.obs]
        BY <1>1 DEF PassType
      <4>3. pass.obs = [pass.obs EXCEPT !.unschedulable = pass.obs.unschedulable]
        BY <1>2 DEF Observation
      <4>4. QED
        BY <4>1, <4>2, <4>3
    <3>3. QED
      BY <3>1, <3>2
  <2>3. QED
    BY <2>1, <2>2
<1>5. PICK n \in 0 .. pass.obs.asked :
         pass' = [pass EXCEPT !.pc = "decide", !.obs.unschedulable = n]
  BY <1>4
<1> DEFINE o == [pass.obs EXCEPT !.unschedulable = n]
<1>6. pass' = [pc |-> "decide", total |-> pass.total, obs |-> o, want |-> pass.want]
  BY <1>1, <1>5 DEF PassType
<1>7. /\ o \in Observation /\ o.unschedulable = n /\ o.asked = pass.obs.asked
      /\ o.found = pass.obs.found /\ o.foreign = pass.obs.foreign
  BY <1>2 DEF Observation
<1> HIDE DEF o
<1>8. PassType' /\ pass'.obs.unschedulable \in 0 .. pass'.obs.asked /\ pass'.pc = "decide"
  <2>1. pass'.obs = o /\ pass'.pc = "decide"
    BY <1>6
  <2>2. pass' \in [pc : {"idle", "list", "decide", "scavenger", "burst"}, total : Nat,
                   obs : Observation, want : Nat \X Nat]
    BY <1>1, <1>6, <1>7 DEF PassType
  <2>3. ~(o.found /\ o.foreign) /\ o.unschedulable \in 0 .. o.asked
    BY <1>1, <1>7 DEF PassType
  <2>4. o.unschedulable <= o.asked
    BY <1>2, <1>7
  <2>5. QED
    BY <2>1, <2>2, <2>3, <2>4 DEF PassType
<1>9. TypeOK'
  BY <1>1, <1>3, <1>8 DEF TypeOK, world, cluster
<1>10. QED
  BY <1>2, <1>3, <1>8, <1>9 DEF SurplusInv, OnlyTheProbeIsSurplus, WritesAddUp, cluster

\* What a pass decides to write.
Decided(targets, d) ==
    /\ targets[1] \in Nat /\ targets[2] \in Nat
    /\ targets[1] + targets[2] = pass.total
    /\ targets[1] >= Lesser(Floor, pass.total)
    /\ LET c == capacityFrom(pass.obs, probe)
       IN  c # Nil => targets[1] <= Greater(Lesser(Floor, pass.total), c)
    /\ d.st \in Record /\ probe' = d.st
    /\ d.target \in {targets[1], targets[1] + 1}
    /\ d.target = targets[1] + 1 => d.st.outstanding
    /\ pass' = [pc |-> "scavenger", total |-> pass.total, obs |-> pass.obs,
                want |-> <<d.target, targets[2]>>]

\* applyProbes decides on sizes of this form.
LEMMA ProbesDecide ==
    ASSUME TypeOK, PassType, applyProbes
    PROVE  \E targets, d : Decided(targets, d)
<1> DEFINE c == capacityFrom(pass.obs, probe)
           targets == ComputeGroupTargets(pass.total, Groups, <<c, Nil>>).Targets
           d == decideProbe(targets[1], pass.obs, probe)
<1>1. probe \in Record /\ pass.obs \in Observation /\ pass.total \in Nat
      /\ pass.obs.unschedulable <= pass.obs.asked
  BY DEF TypeOK, PassType, Record
<1>2. c \in Nat \cup {Nil}
  BY <1>1, CapacityFacts
<1>3. probe' = d.st /\ pass' = [pass EXCEPT !.pc = "scavenger", !.want = <<d.target, targets[2]>>]
  BY DEF applyProbes
<1> HIDE DEF c
<1>4. /\ targets[1] \in Nat /\ targets[2] \in Nat
      /\ targets[1] + targets[2] = pass.total
      /\ targets[1] >= Lesser(Floor, pass.total)
      /\ c # Nil => targets[1] <= Greater(Lesser(Floor, pass.total), c)
  BY <1>1, <1>2, TwoGroupTargets
<1> HIDE DEF targets
<1>5. d.st \in Record /\ d.target \in {targets[1], targets[1] + 1}
      /\ (d.target = targets[1] + 1 => d.st.outstanding)
  BY <1>1, <1>4, DecideFacts
<1> HIDE DEF d
<1>6. pass' = [pc |-> "scavenger", total |-> pass.total, obs |-> pass.obs,
               want |-> <<d.target, targets[2]>>]
  BY <1>3 DEF PassType
<1>7. Decided(targets, d)
  BY <1>3, <1>4, <1>5, <1>6 DEF Decided, c
<1>8. QED
  BY <1>7

\* The sizes are decided: nothing is written yet.
LEMMA ProbesSurplus == SurplusInv /\ applyProbes => SurplusInv'
<1> SUFFICES ASSUME SurplusInv, applyProbes PROVE SurplusInv'
  OBVIOUS
<1>1. TypeOK /\ PassType
  BY DEF SurplusInv, OnlyTheProbeIsSurplus
<1>2. PICK targets, d : Decided(targets, d)
  BY <1>1, ProbesDecide
<1>3. /\ targets[1] \in Nat /\ targets[2] \in Nat /\ d.target \in Nat
      /\ targets[1] + targets[2] = pass.total
      /\ d.target \in {targets[1], targets[1] + 1}
      /\ probe' \in Record
      /\ pass' = [pc |-> "scavenger", total |-> pass.total, obs |-> pass.obs,
                  want |-> <<d.target, targets[2]>>]
  BY <1>2 DEF Decided
<1>4. PassType' /\ pass'.pc = "scavenger" /\ pass'.obs = pass.obs
  BY <1>1, <1>3 DEF PassType
<1>5. TypeOK'
  BY <1>1, <1>3, <1>4 DEF TypeOK, Record, applyProbes, world, cluster
<1>6. WritesAddUp'
  <2>1. pass'.want[1] + pass'.want[2] \in {pass'.total, pass'.total + 1}
    BY <1>3
  <2>2. QED
    BY <1>4, <2>1 DEF SurplusInv, WritesAddUp, applyProbes, cluster
<1>7. QED
  BY <1>4, <1>5, <1>6 DEF SurplusInv, OnlyTheProbeIsSurplus

\* A new child is still a child, and the burst group's write comes next.
LEMMA ScavengerSurplus == SurplusInv /\ applyScavenger => SurplusInv'
<1> SUFFICES ASSUME SurplusInv, applyScavenger PROVE SurplusInv'
  OBVIOUS
<1>1. TypeOK /\ PassType /\ WritesAddUp
  BY DEF SurplusInv, OnlyTheProbeIsSurplus
<1>2. pass' = [pc |-> "burst", total |-> pass.total, obs |-> pass.obs, want |-> pass.want]
  BY <1>1 DEF applyScavenger, PassType
<1>3. PassType'
  BY <1>1, <1>2 DEF PassType
<1>4. pass.want[1] \in Nat
  BY <1>1 DEF PassType
<1>5. CASE "other" \in {seen.owner, child.owner}
  <2>1. child' = child /\ child.owner # "pool"
    BY <1>1, <1>5 DEF applyScavenger, WritesAddUp, seen
  <2>2. QED
    BY <1>1, <1>2, <1>3, <2>1
    DEF SurplusInv, OnlyTheProbeIsSurplus, WritesAddUp, TypeOK, applyScavenger, world
<1>6. CASE "other" \notin {seen.owner, child.owner}
  <2>1. child' = [owner |-> "pool", asked |-> pass.want[1], ready |-> child.ready]
    BY <1>1, <1>6 DEF applyScavenger, TypeOK
  <2>2. cache.owner # "other"
    BY <1>6 DEF seen
  <2>3. QED
    BY <1>1, <1>2, <1>3, <1>4, <2>1, <2>2
    DEF SurplusInv, OnlyTheProbeIsSurplus, WritesAddUp, TypeOK, applyScavenger, world
<1>7. QED
  BY <1>5, <1>6

\* The last write of a pass makes the two sizes add up.
LEMMA BurstSurplus == SurplusInv /\ applyBurst => SurplusInv'
<1> SUFFICES ASSUME SurplusInv, applyBurst PROVE SurplusInv'
  OBVIOUS
<1>1. TypeOK /\ PassType /\ WritesAddUp
  BY DEF SurplusInv, OnlyTheProbeIsSurplus
<1>2. PassType' /\ pass'.pc = "idle" /\ pass'.obs.unschedulable = 0 /\ pass'.obs.asked = 0
  BY IdleType DEF applyBurst, PassType, Idle, Unread
<1>3. pass.want[1] \in Nat /\ pass.want[2] \in Nat /\ pass.total \in Nat
  BY <1>1 DEF PassType
<1>4. TypeOK'
  BY <1>1, <1>2, <1>3 DEF TypeOK, applyBurst, world
<1>5. child'.owner = "pool" => /\ child'.asked + burst' <= burstTotal' + 1
                               /\ child'.asked + burst' >= burstTotal'
  BY <1>1, <1>3 DEF WritesAddUp, applyBurst
<1>6. WritesAddUp'
  BY <1>1, <1>2 DEF WritesAddUp, applyBurst
<1>7. QED
  BY <1>2, <1>4, <1>5, <1>6 DEF SurplusInv, OnlyTheProbeIsSurplus

\* The cluster, the clock and the users leave a pass alone, and change a
\* child the pool owns in its ready count only.
LEMMA WorldSurplus ==
    ASSUME SurplusInv, TypeOK', UNCHANGED <<pass, burst, burstTotal>>,
           child'.owner = "pool" => child.owner = "pool" /\ child'.asked = child.asked,
           child'.owner = "pool" /\ cache'.owner = "other" => cache.owner = "other"
    PROVE  SurplusInv'
BY DEF SurplusInv, OnlyTheProbeIsSurplus, PassType, WritesAddUp

\* The workload controller, the scheduler, the informer, the users and the
\* clock keep the types.
LEMMA WorldType ==
    ASSUME TypeOK,
           \/ Rescale \/ PublishReady \/ Schedule \/ CacheSync \/ FitChanges \/ Edit
           \/ ChildTaken \/ Tick \/ UNCHANGED vars \/ observeFails
    PROVE  TypeOK'
<1>0. /\ child \in [owner : {"none", "pool", "other"}, asked : Nat, ready : Nat]
      /\ pods \in [ready : Nat, refused : Nat, fresh : Nat]
      /\ pods.ready \in Nat /\ pods.refused \in Nat /\ pods.fresh \in Nat /\ child.asked \in Nat
      /\ fit \in Nat
  BY SizesAssumption DEF TypeOK
<1>1. CASE Rescale
  <2>1. pods' \in [ready : Nat, refused : Nat, fresh : Nat]
    <3>1. CASE /\ PodCount < child.asked
               /\ pods' = [pods EXCEPT !.fresh = @ + child.asked - PodCount]
      BY <1>0, <3>1 DEF PodCount
    <3>2. CASE /\ PodCount > child.asked
               /\ LET excess == PodCount - child.asked
                      idle   == Lesser(excess, pods.refused + pods.fresh)
                  IN  \E r \in 0 .. pods.refused, f \in 0 .. pods.fresh :
                         /\ r + f = idle
                         /\ pods' = [ready   |-> pods.ready - (excess - idle),
                                     refused |-> pods.refused - r,
                                     fresh   |-> pods.fresh - f]
      <4> DEFINE excess == PodCount - child.asked
                 idle   == Lesser(excess, pods.refused + pods.fresh)
      <4>1. PICK r \in 0 .. pods.refused, f \in 0 .. pods.fresh :
                    pods' = [ready   |-> pods.ready - (excess - idle),
                             refused |-> pods.refused - r,
                             fresh   |-> pods.fresh - f]
        BY <3>2
      <4>2. pods.ready - (excess - idle) \in Nat
        BY <1>0, <3>2 DEF PodCount, Lesser
      <4> HIDE DEF excess, idle
      <4>3. pods.refused - r \in Nat /\ pods.fresh - f \in Nat
        BY <1>0
      <4>4. QED
        BY <4>1, <4>2, <4>3
    <3>3. QED
      BY <1>1, <3>1, <3>2 DEF Rescale
  <2>2. QED
    BY <1>1, <2>1 DEF Rescale, TypeOK, world
<1>2. CASE PublishReady
  BY <1>0, <1>2 DEF PublishReady, TypeOK, world
<1>3. CASE Schedule
  <2>1. pods' \in [ready : Nat, refused : Nat, fresh : Nat]
    <3>1. ASSUME NEW a \in Nat, NEW b \in Nat
          PROVE  /\ [pods EXCEPT !.fresh = a, !.ready = b] \in [ready : Nat, refused : Nat, fresh : Nat]
                 /\ [pods EXCEPT !.fresh = a, !.refused = b] \in [ready : Nat, refused : Nat, fresh : Nat]
                 /\ [pods EXCEPT !.refused = a, !.ready = b] \in [ready : Nat, refused : Nat, fresh : Nat]
      BY <1>0
    <3>2. \/ /\ pods.fresh > 0
             /\ \/ pods' = [pods EXCEPT !.fresh = pods.fresh - 1, !.ready = pods.ready + 1]
                \/ pods' = [pods EXCEPT !.fresh = pods.fresh - 1, !.refused = pods.refused + 1]
          \/ /\ pods.refused > 0
             /\ pods' = [pods EXCEPT !.refused = pods.refused - 1, !.ready = pods.ready + 1]
      BY <1>3 DEF Schedule
    <3>3. /\ pods.fresh > 0 => pods.fresh - 1 \in Nat
          /\ pods.refused > 0 => pods.refused - 1 \in Nat
          /\ pods.ready + 1 \in Nat /\ pods.refused + 1 \in Nat
      BY <1>0
    <3>4. QED
      BY <3>1, <3>2, <3>3
  <2>2. QED
    BY <1>3, <2>1 DEF Schedule, TypeOK, world
<1>4. CASE CacheSync
  BY <1>4 DEF CacheSync, TypeOK, world
<1>5. CASE FitChanges
  <2>1. fit' \in Fits /\ Lesser(pods.ready, fit') \in Nat
    BY <1>0, <1>5, SizesAssumption DEF FitChanges, Lesser
  <2>2. budget' \in 0 .. Budget
    BY <1>5, DisturbType DEF FitChanges, TypeOK
  <2>3. pods' \in [ready : Nat, refused : Nat, fresh : Nat]
    BY <1>0, <1>5, <2>1 DEF FitChanges
  <2>4. QED
    BY <1>5, <2>1, <2>2, <2>3 DEF FitChanges, TypeOK
<1>6. CASE Edit
  <2>1. budget' \in 0 .. Budget
    BY <1>6, DisturbType DEF Edit, TypeOK
  <2>2. QED
    BY <1>6, <2>1 DEF Edit, TypeOK, cluster
<1>7. CASE ChildTaken
  <2>1. budget' \in 0 .. Budget
    BY <1>7, DisturbType DEF ChildTaken, TypeOK
  <2>2. child' \in [owner : {"none", "pool", "other"}, asked : Nat, ready : Nat]
        /\ pods' \in [ready : Nat, refused : Nat, fresh : Nat]
    BY <1>7 DEF ChildTaken, NoChild, NoPods
  <2>3. QED
    BY <1>7, <2>1, <2>2 DEF ChildTaken, TypeOK, world
<1>8. CASE Tick
  <2>1. budget' \in 0 .. Budget
    BY <1>8, DisturbType DEF Tick, TypeOK
  <2>2. probe' \in Record
    <3>1. probe \in Record /\ probe.failedAge \in 0 .. Heartbeat
          /\ probe.startedAge \in 0 .. VerdictTimeout
      BY DEF TypeOK, Record
    <3>2. /\ Lesser(Heartbeat, probe.failedAge + 1) \in 0 .. Heartbeat
          /\ Lesser(VerdictTimeout, probe.startedAge + 1) \in 0 .. VerdictTimeout
          /\ 0 \in 0 .. VerdictTimeout
      BY <3>1, TimerAssumption DEF Lesser
    <3>3. PICK a \in 0 .. Heartbeat, b \in 0 .. VerdictTimeout :
             probe' = [probe EXCEPT !.failedAge = a, !.startedAge = b]
      BY <1>8, <3>2 DEF Tick
    <3>4. QED
      BY <3>1, <3>3 DEF Record
  <2>3. QED
    BY <1>8, <2>1, <2>2 DEF Tick, Record, TypeOK, world, cluster
<1>9. CASE UNCHANGED vars
  BY <1>9 DEF vars, TypeOK
<1>10. CASE observeFails
  <2>1. budget' \in 0 .. Budget
    BY <1>10, DisturbType DEF observeFails, TypeOK
  <2>2. QED
    BY <1>10, <2>1 DEF observeFails, TypeOK, world, cluster
<1>11. QED
  BY <1>1, <1>2, <1>3, <1>4, <1>5, <1>6, <1>7, <1>8, <1>9, <1>10

\* Every step keeps the invariant, as long as the pass completes its writes.
LEMMA NextSurplus == WritesComplete /\ SurplusInv /\ [Next]_vars => SurplusInv'
<1> SUFFICES ASSUME WritesComplete, SurplusInv, [Next]_vars PROVE SurplusInv'
  OBVIOUS
<1>1. TypeOK /\ WritesAddUp
  BY DEF SurplusInv, OnlyTheProbeIsSurplus
<1>2. CASE observeOpportunistic \/ countUnschedulable \/ countFails \/ applyProbes
           \/ applyScavenger \/ applyBurst
  BY <1>2, ObserveSurplus, CountSurplus, ProbesSurplus, ScavengerSurplus, BurstSurplus
<1>3. CASE applyFails \/ Restart
  BY <1>3 DEF applyFails, Restart, Disturb, WritesComplete
<1>4. CASE Rescale \/ PublishReady \/ Schedule \/ FitChanges \/ Edit \/ Tick
           \/ UNCHANGED vars \/ observeFails
  <2>1. /\ UNCHANGED <<pass, burst, burstTotal, cache>>
        /\ child'.owner = child.owner /\ child'.asked = child.asked
    BY <1>1, <1>4 DEF Rescale, PublishReady, Schedule, FitChanges, Edit, Tick, vars,
                     observeFails, cluster, TypeOK
  <2>2. QED
    BY <1>1, <1>4, <2>1, WorldType, WorldSurplus
<1>5. CASE CacheSync
  <2>1. UNCHANGED <<pass, burst, burstTotal, child>> /\ cache' = child
    BY <1>5 DEF CacheSync
  <2>2. QED
    BY <1>1, <1>5, <2>1, WorldType, WorldSurplus
<1>6. CASE ChildTaken
  <2>1. UNCHANGED <<pass, burst, burstTotal>> /\ child'.owner # "pool"
    BY <1>6 DEF ChildTaken, NoChild
  <2>2. QED
    BY <1>1, <1>6, <2>1, WorldType, WorldSurplus
<1>7. QED
  BY <1>2, <1>3, <1>4, <1>5, <1>6 DEF Next, Reconcile

\* Whatever the cluster, the informer and the users do, and whatever reads
\* and lists fail: while every write of a pass is carried out, the replicas
\* asked for are spec.replicas and at most the probe on top of it.
THEOREM ProbeIsTheOnlySurplus == WritesComplete => (Spec => []OnlyTheProbeIsSurplus)
<1> SUFFICES ASSUME WritesComplete PROVE Spec => []OnlyTheProbeIsSurplus
  OBVIOUS
<1>1. SurplusInv /\ [Next]_vars => SurplusInv'
  BY NextSurplus
<1>2. SurplusInv => OnlyTheProbeIsSurplus
  BY DEF SurplusInv
<1>3. QED
  BY <1>1, <1>2, InitSurplus, PTL DEF Spec

-----------------------------------------------------------------------------
(* No replica is taken from burst on speculation.                          *)

\* What the last complete pass left: a share for burst that leaves scavenger
\* its floor, and a probe on record for every replica too many.
Accounted(asked) ==
    /\ asked + burst \in {burstTotal, burstTotal + 1}
    /\ asked + burst = burstTotal + 1 => probe.outstanding

\* What a pass read of a child it owns is still accounted for when it
\* decides, and what it has decided takes from burst only what it saw Ready.
KillInv ==
    /\ burst <= burstTotal - Lesser(Floor, burstTotal)
    /\ pass.pc \notin {"scavenger", "burst"} /\ child.owner = "pool" => Accounted(child.asked)
    /\ pass.pc \in {"list", "decide"} /\ pass.obs.found => Accounted(pass.obs.asked)
    /\ pass.pc \in {"scavenger", "burst"} =>
          /\ pass.want[1] + pass.want[2] = pass.total + 1 => probe.outstanding
          /\ pass.want[2] <= pass.total - Lesser(Floor, pass.total)
          /\ pass.obs.found /\ pass.total = burstTotal /\ pass.want[2] < burst =>
                pass.obs.ready >= burstTotal - pass.want[2]

\* Faults under which a pass also reads what it wrote last.
ReadsOwnWrites == WritesComplete /\ "lag" \notin Faults

\* At the start burst has nothing.
LEMMA InitKill == Init => KillInv
BY FloorAssumption DEF Init, KillInv, NoChild, Idle, Lesser

\* The observation is the child as it is.
LEMMA ObserveKill ==
    ASSUME ReadsOwnWrites, SurplusInv, KillInv, observeOpportunistic
    PROVE  KillInv'
<1>1. TypeOK /\ PassType
  BY DEF SurplusInv, OnlyTheProbeIsSurplus
<1>2. cache = child
  BY DEF observeOpportunistic, Read, Disturb, ReadsOwnWrites
<1>3. childCounts.found => child.owner = "pool" /\ childCounts.asked = child.asked
  BY <1>1, <1>2, CountsFacts DEF seen
<1> HIDE DEF childCounts
<1>4. pass.pc = "idle" /\ pass'.pc \in {"list", "decide"} /\ pass'.obs = childCounts
  BY <1>1 DEF observeOpportunistic, PassType
<1>5. UNCHANGED <<child, burst, burstTotal, probe>>
  BY DEF observeOpportunistic, cluster
<1>6. QED
  BY <1>3, <1>4, <1>5 DEF KillInv, Accounted

\* The decision.  The case that matters: burst holds one replica more than
\* scavenger leaves it, because of a probe; only a Ready probe takes it.
LEMMA ProbesKill ==
    ASSUME SurplusInv, KillInv, applyProbes
    PROVE  KillInv'
<1>1. TypeOK /\ PassType
  BY DEF SurplusInv, OnlyTheProbeIsSurplus
<1>2. PICK targets, d : Decided(targets, d)
  BY <1>1, ProbesDecide
<1> DEFINE c == capacityFrom(pass.obs, probe)
           m == Lesser(Floor, pass.total)
<1>3. /\ targets[1] \in Nat /\ targets[2] \in Nat
      /\ targets[1] + targets[2] = pass.total
      /\ targets[1] >= m
      /\ c # Nil => targets[1] <= Greater(m, c)
      /\ probe' = d.st
      /\ d.target \in {targets[1], targets[1] + 1}
      /\ d.target = targets[1] + 1 => d.st.outstanding
      /\ pass' = [pc |-> "scavenger", total |-> pass.total, obs |-> pass.obs,
                  want |-> <<d.target, targets[2]>>]
  BY <1>2 DEF Decided
<1>4. /\ pass.obs \in Observation /\ pass.total \in Nat /\ burst \in Nat /\ burstTotal \in Nat
      /\ pass.obs.asked \in Nat /\ pass.obs.ready \in Nat /\ m \in Nat
      /\ pass.obs.unschedulable <= pass.obs.asked /\ probe \in Record
      /\ ~(pass.obs.found /\ pass.obs.foreign)
  BY <1>1, FloorAssumption DEF TypeOK, PassType, Observation, Record, Lesser
<1>5. /\ c \in Nat \cup {Nil}
      /\ pass.obs.found =>
            /\ c # Nil /\ c <= pass.obs.asked
            /\ probe.outstanding /\ pass.obs.ready < pass.obs.asked => c <= pass.obs.asked - 1
  BY <1>4, CapacityFacts
<1>6. UNCHANGED <<child, burst, burstTotal>> /\ pass.pc = "decide"
  BY DEF applyProbes, cluster
<1> HIDE DEF c
<1>7. ASSUME pass.obs.found, pass.total = burstTotal, targets[2] < burst
      PROVE  pass.obs.ready >= burstTotal - targets[2]
  <2>1. Accounted(pass.obs.asked) /\ burst <= burstTotal - m
    BY <1>6, <1>7 DEF KillInv
  <2>2. /\ pass.obs.asked + burst \in {burstTotal, burstTotal + 1}
        /\ pass.obs.asked + burst = burstTotal + 1 => probe.outstanding
    BY <2>1 DEF Accounted
  <2> HIDE DEF m
  <2>3. c \in Nat /\ (targets[1] <= m \/ targets[1] <= c)
    BY <1>3, <1>4, <1>5, <1>7 DEF Greater
  <2>4. targets[1] > burstTotal - burst
    BY <1>3, <1>4, <1>7
  <2>5. targets[1] <= c
    BY <1>3, <1>4, <2>1, <2>3, <2>4
  <2>6. probe.outstanding /\ targets[1] = pass.obs.asked
    BY <1>3, <1>4, <1>5, <1>7, <2>2, <2>3, <2>4, <2>5
  <2>7. pass.obs.ready >= pass.obs.asked
    BY <1>3, <1>4, <1>5, <1>7, <2>3, <2>5, <2>6
  <2>8. QED
    BY <1>3, <1>4, <1>7, <2>6, <2>7
<1>8. /\ d.target + targets[2] = pass.total + 1 => probe'.outstanding
      /\ targets[2] <= pass.total - m
  BY <1>3, <1>4
<1>9. pass'.pc = "scavenger" /\ pass'.obs = pass.obs /\ pass'.total = pass.total
      /\ pass'.want[1] = d.target /\ pass'.want[2] = targets[2]
  BY <1>3
<1>10. QED
  BY <1>6, <1>7, <1>8, <1>9 DEF KillInv

\* The last write.
LEMMA BurstKill ==
    ASSUME SurplusInv, KillInv, applyBurst
    PROVE  KillInv'
<1>1. TypeOK /\ PassType /\ WritesAddUp
  BY DEF SurplusInv, OnlyTheProbeIsSurplus
<1>2. pass'.pc = "idle"
  BY DEF applyBurst, Idle
<1>3. pass.want[1] \in Nat /\ pass.want[2] \in Nat /\ pass.total \in Nat
  BY <1>1 DEF PassType
<1>4. /\ burst' = pass.want[2] /\ burstTotal' = pass.total
      /\ UNCHANGED <<child, probe>> /\ pass.pc = "burst"
  BY DEF applyBurst
<1>5. child.owner = "pool" => child.asked = pass.want[1]
  BY <1>1, <1>4 DEF WritesAddUp
<1>6. QED
  BY <1>1, <1>2, <1>3, <1>4, <1>5 DEF KillInv, Accounted, WritesAddUp

\* The other steps.
LEMMA NextKill == ReadsOwnWrites /\ SurplusInv /\ KillInv /\ [Next]_vars => KillInv'
<1> SUFFICES ASSUME ReadsOwnWrites, SurplusInv, KillInv, [Next]_vars PROVE KillInv'
  OBVIOUS
<1>1. TypeOK /\ PassType /\ WritesAddUp
  BY DEF SurplusInv, OnlyTheProbeIsSurplus
<1>2. CASE observeOpportunistic \/ applyProbes \/ applyBurst
  BY <1>2, ObserveKill, ProbesKill, BurstKill
<1>3. CASE applyFails \/ Restart
  BY <1>3 DEF applyFails, Restart, Disturb, ReadsOwnWrites, WritesComplete
<1>4. CASE countUnschedulable \/ countFails
  <2>1. /\ pass.pc = "list" /\ pass'.pc = "decide"
        /\ pass'.obs.found = pass.obs.found /\ pass'.obs.asked = pass.obs.asked
    <3>1. CASE countUnschedulable
      <4>1. \E n : pass' = [pass EXCEPT !.pc = "decide", !.obs.unschedulable = n]
        BY <3>1 DEF countUnschedulable
      <4>2. PICK n : pass' = [pass EXCEPT !.pc = "decide", !.obs.unschedulable = n]
        BY <4>1
      <4>3. pass'.pc = "decide" /\ pass'.obs = [pass.obs EXCEPT !.unschedulable = n]
        BY <1>1, <4>2 DEF PassType
      <4>4. pass.obs \in Observation
        BY <1>1 DEF PassType
      <4>5. QED
        BY <3>1, <4>3, <4>4 DEF countUnschedulable, Observation
    <3>2. CASE countFails
      BY <1>1, <3>2 DEF countFails, PassType
    <3>3. QED
      BY <1>4, <3>1, <3>2
  <2>2. UNCHANGED <<child, burst, burstTotal, probe>>
    BY <1>4 DEF countUnschedulable, countFails, cluster
  <2>3. QED
    BY <2>1, <2>2 DEF KillInv, Accounted
<1>5. CASE applyScavenger
  <2>1. /\ pass.pc = "scavenger" /\ pass'.pc = "burst"
        /\ pass'.obs = pass.obs /\ pass'.want = pass.want /\ pass'.total = pass.total
    BY <1>1, <1>5 DEF applyScavenger, PassType
  <2>2. UNCHANGED <<burst, burstTotal, probe>>
    BY <1>5 DEF applyScavenger
  <2>3. QED
    BY <2>1, <2>2 DEF KillInv
<1>6. CASE Rescale \/ PublishReady \/ Schedule \/ FitChanges \/ Edit \/ Tick
           \/ UNCHANGED vars \/ observeFails \/ CacheSync \/ ChildTaken
  <2>1. /\ UNCHANGED <<pass, burst, burstTotal>>
        /\ child'.owner = "pool" => child.owner = "pool" /\ child'.asked = child.asked
    BY <1>1, <1>6 DEF Rescale, PublishReady, Schedule, FitChanges, Edit, Tick, vars,
                     observeFails, CacheSync, ChildTaken, NoChild, cluster, TypeOK
  <2>2. probe'.outstanding = probe.outstanding
    BY <1>1, <1>6 DEF Rescale, PublishReady, Schedule, FitChanges, Edit, Tick, vars,
                     observeFails, CacheSync, ChildTaken, TypeOK
  <2>3. QED
    BY <2>1, <2>2 DEF KillInv, Accounted
<1>7. QED
  BY <1>2, <1>3, <1>4, <1>5, <1>6 DEF Next, Reconcile

\* Only applyBurst changes burst, and it takes replicas away only if scavenger
\* was seen with every replica of the larger share Ready.
LEMMA KillStep ==
    ASSUME ReadsOwnWrites, SurplusInv, KillInv, [Next]_vars
    PROVE  burst' < burst /\ burstTotal' = burstTotal /\ pass.obs.found
             => pass.obs.ready >= burstTotal - burst'
<1>1. TypeOK /\ PassType
  BY DEF SurplusInv, OnlyTheProbeIsSurplus
<1>2. CASE applyBurst
  BY <1>2 DEF applyBurst, KillInv
<1>3. CASE ~applyBurst
  <2>1. burst' = burst
    BY <1>3 DEF Next, Reconcile, observeOpportunistic, observeFails, countUnschedulable,
                countFails, applyProbes, applyScavenger, applyFails, Restart, Rescale,
                PublishReady, Schedule, CacheSync, FitChanges, Edit, ChildTaken, Tick,
                cluster, vars
  <2>2. QED
    BY <1>1, <2>1 DEF TypeOK
<1>4. QED
  BY <1>2, <1>3

\* "The speculative burst-pod kill this design exists to prevent" does not
\* happen, for every floor, total and sequence of refusals, preemptions,
\* edits, takeovers, slow verdicts and failed lists, as long as passes
\* complete and the cache shows them what they wrote.
THEOREM NoKillOnSpeculation == ReadsOwnWrites => (Spec => NoSpeculativeKill)
<1> SUFFICES ASSUME ReadsOwnWrites PROVE Spec => NoSpeculativeKill
  OBVIOUS
<1> DEFINE Inv == SurplusInv /\ KillInv
           Kill == burst' < burst /\ burstTotal' = burstTotal /\ pass.obs.found
                     => pass.obs.ready >= burstTotal - burst'
<1>1. Init => Inv
  BY InitSurplus, InitKill
<1>2. Inv /\ [Next]_vars => Inv'
  BY NextSurplus, NextKill DEF ReadsOwnWrites
<1>3. Inv /\ [Next]_vars => [Kill]_vars
  BY KillStep
<1> HIDE DEF Inv, Kill
<1>4. Spec => [][Kill]_vars
  BY <1>1, <1>2, <1>3, PTL DEF Spec
<1>5. QED
  BY <1>4 DEF Kill, NoSpeculativeKill
=============================================================================
