------------------------- MODULE DistributionProofs -------------------------
(***************************************************************************)
(* What ComputeGroupTargets returns, for every pool: the recursive function *)
(* in Loop is unrolled into the states its iterations leave, and what holds *)
(* along them is shown by induction on the iteration.                       *)
(***************************************************************************)
EXTENDS Distribution, WellFoundedInduction, TLAPS

-----------------------------------------------------------------------------
(* Induction over an interval, for a set in place of a predicate.          *)

\* Every non-empty set of numbers has a least one.
LEMMA LeastNumber ==
    ASSUME NEW S \in SUBSET Nat, S # {}
    PROVE  \E n \in S : \A m \in S : n <= m
<1> DEFINE R == {ss \in Nat \X Nat : ss[1] < ss[2]}
<1>1. IsWellFoundedOn(R, Nat)
  BY NatLessThanWellFounded DEF OpToRel
<1>2. PICK x \in S : \A y \in S : ~(<<y, x>> \in R)
  BY <1>1, WFMin, Zenon
<1>3. \A y, z \in Nat : y < z => <<y, z>> \in R
  <2>1. TAKE y, z \in Nat
  <2>2. <<y, z>>[1] = y /\ <<y, z>>[2] = z /\ <<y, z>> \in Nat \X Nat
    OBVIOUS
  <2>3. QED
    BY <2>2, Zenon
<1>4. \A y \in S : ~(y < x)
  BY <1>2, <1>3, Zenon
<1>5. QED
  BY <1>4

\* What holds at the start and is handed on holds to the end.
LEMMA IntervalInduction ==
    ASSUME NEW a \in Nat, NEW n \in Nat, NEW S, a \in S,
           \A k \in a .. n - 1 : k \in S => k + 1 \in S
    PROVE  \A k \in a .. n : k \in S
<1> DEFINE Bad == {k \in a .. n : k \notin S}
<1>1. SUFFICES ASSUME Bad # {} PROVE FALSE
  OBVIOUS
<1>2. PICK m \in Bad : \A j \in Bad : m <= j
  <2>1. Bad \in SUBSET Nat
    OBVIOUS
  <2> HIDE DEF Bad
  <2>2. QED
    BY <1>1, <2>1, LeastNumber
<1>3. m \in a + 1 .. n /\ m - 1 \notin Bad
  BY <1>2
<1>4. m - 1 \in S /\ m - 1 \in a .. n - 1
  BY <1>3
<1>5. (m - 1) + 1 \in S
  BY <1>4
<1>6. QED
  BY <1>2, <1>3, <1>5

\* The states that n applications of the step functions G lead through.
Iterates(n, S, start, G) ==
    \E f \in [0 .. n -> S] : f[0] = start /\ \A k \in 1 .. n : f[k] = G[k][f[k - 1]]

\* A step function can be iterated.
LEMMA Iterate ==
    ASSUME NEW n \in Nat, NEW S, NEW start \in S, NEW G \in [1 .. n -> [S -> S]]
    PROVE  Iterates(n, S, start, G)
<1> DEFINE Goes(m) == \E f \in [0 .. m -> S] :
                         f[0] = start /\ \A k \in 1 .. m : f[k] = G[k][f[k - 1]]
           T == {m \in 0 .. n : Goes(m)}
<1>1. Goes(0)
  <2> DEFINE h == [k \in 0 .. 0 |-> start]
  <2>1. h \in [0 .. 0 -> S] /\ h[0] = start
    OBVIOUS
  <2>2. \A k \in 1 .. 0 : h[k] = G[k][h[k - 1]]
    OBVIOUS
  <2> HIDE DEF h
  <2>3. QED
    BY <2>1, <2>2
<1>2. ASSUME NEW m \in 0 .. n - 1, Goes(m) PROVE Goes(m + 1)
  <2>1. PICK f \in [0 .. m -> S] : f[0] = start /\ \A k \in 1 .. m : f[k] = G[k][f[k - 1]]
    BY <1>2
  <2> DEFINE h == [k \in 0 .. m + 1 |-> IF k = m + 1 THEN G[m + 1][f[m]] ELSE f[k]]
  <2>2. f[m] \in S /\ G[m + 1] \in [S -> S]
    OBVIOUS
  <2>3. h \in [0 .. m + 1 -> S]
    BY <2>2
  <2>4. h[0] = start /\ h[m + 1] = G[m + 1][h[m]]
    BY <2>1
  <2>5. ASSUME NEW k \in 1 .. m PROVE h[k] = G[k][h[k - 1]]
    <3>1. h[k] = f[k] /\ h[k - 1] = f[k - 1]
      OBVIOUS
    <3>2. QED
      BY <2>1, <3>1
  <2>6. \A k \in 1 .. m + 1 : h[k] = G[k][h[k - 1]]
    <3>1. TAKE k \in 1 .. m + 1
    <3>2. CASE k = m + 1
      BY <3>2, <2>4
    <3>3. CASE k \in 1 .. m
      BY <3>3, <2>5
    <3>4. QED
      BY <3>2, <3>3
  <2> HIDE DEF h
  <2>7. QED
    BY <2>3, <2>4, <2>6
<1> HIDE DEF Goes
<1>3. \A m \in 0 .. n : m \in T
  <2>1. 0 \in T /\ \A m \in 0 .. n - 1 : m \in T => m + 1 \in T
    BY <1>1, <1>2
  <2> HIDE DEF T
  <2>2. QED
    BY <2>1, IntervalInduction
<1>4. QED
  BY <1>3 DEF Goes, Iterates

-----------------------------------------------------------------------------
(* The operators of algorithm.go.                                          *)

\* What a group declares about its size is a natural number, and its target
\* never exceeds its ceiling: GroupTarget and GroupCeiling agree.
LEMMA ScalingFacts ==
    ASSUME NEW t \in Nat, NEW s \in Scaling
    PROVE  /\ GroupFloor(s) \in Nat
           /\ GroupCeiling(t, s) \in Nat
           /\ TargetReadable(s) => /\ GroupTarget(t, s) \in Nat
                                   /\ GroupTarget(t, s) <= GroupCeiling(t, s)
                                   /\ hasStaticCeiling(s)
<1>1. /\ s.min \in Nat \cup {Nil} /\ s.max \in Nat \cup {Nil}
      /\ s.target \in Nat \cup {Nil}
  BY DEF Scaling
<1>2. GroupFloor(s) \in Nat
  BY <1>1 DEF GroupFloor, Nil
<1>3. TargetReadable(s) => /\ percentOf(t, s.target) \in Nat
                           /\ ceilPercentOf(t, s.target) \in Nat
  <2>1. SUFFICES ASSUME TargetReadable(s)
                 PROVE  /\ percentOf(t, s.target) \in Nat
                        /\ ceilPercentOf(t, s.target) \in Nat
    OBVIOUS
  <2>2. s.target \in Nat
    BY <2>1 DEF TargetReadable
  <2>3. t * s.target \in Nat
    BY <2>2
  <2>4. \A x \in Nat : x \div 100 \in Nat
    OBVIOUS
  <2>5. QED
    BY <2>3, <2>4 DEF percentOf, ceilPercentOf
<1>4. QED
  BY <1>1, <1>2, <1>3
  DEF GroupCeiling, GroupTarget, TargetReadable, hasStaticCeiling, Lesser, Nil

\* One iteration moves at most what is left and at most what is wanted, and
\* all that is wanted whenever something is left over.
LEMMA ShareFacts ==
    ASSUME NEW want \in Int, NEW held \in Nat, NEW rest \in Nat
    PROVE  LET give == Share(want - held, rest)
           IN  /\ give \in Nat
               /\ give <= rest
               /\ held + give <= Greater(held, want)
               /\ rest - give > 0 => held + give >= want
BY DEF Share, Lesser, Greater

-----------------------------------------------------------------------------
(* The loops, unrolled.                                                    *)

\* The locals of ComputeGroupTargets for n groups.
State(n) == [targets : [1 .. n -> Nat], remaining : Nat]

\* What a pool of groups is called with.
Arguments(total, groups, observed) ==
    /\ total \in Nat
    /\ groups \in Seq(Scaling)
    /\ observed \in [1 .. Len(groups) -> Nat \cup {Nil}]

\* f[k] is the state that loop p leaves after its iterations 1 to k.
Run(p, total, groups, observed, f) ==
    /\ f \in [0 .. Len(groups) -> State(Len(groups))]
    /\ \A k \in 1 .. Len(groups) :
          f[k] = TopUp(f[k - 1], k, Asks(p, total, groups[k], observed[k],
                                         f[k - 1].targets[k], f[k - 1].remaining))

\* Every loop asks for a natural number.
LEMMA AsksType ==
    ASSUME NEW p \in 1 .. 4, NEW total \in Nat, NEW s \in Scaling,
           NEW capacity \in Nat \cup {Nil}, NEW held \in Nat, NEW rest \in Nat
    PROVE  Asks(p, total, s, capacity, held, rest) \in Nat
<1>1. /\ GroupFloor(s) \in Nat /\ GroupCeiling(total, s) \in Nat
      /\ TargetReadable(s) => GroupTarget(total, s) \in Nat
  BY ScalingFacts
<1>2. p \in {1, 2, 3, 4}
  OBVIOUS
<1>3. QED
  BY <1>1, <1>2 DEF Asks

\* An iteration changes one group, and moves to it what the remainder loses.
Handed(n, st, k, want, after) ==
    LET give == Share(want - st.targets[k], st.remaining)
    IN  /\ st \in State(n) /\ after \in State(n)
        /\ want \in Nat
        /\ give \in Nat
        /\ after.remaining = st.remaining - give
        /\ after.targets[k] = st.targets[k] + give
        /\ \A j \in 1 .. n \ {k} : after.targets[j] = st.targets[j]
        /\ give = 0 => after = st

\* TopUp is such an iteration.
LEMMA TopUpFacts ==
    ASSUME NEW n \in Nat, NEW st \in State(n), NEW k \in 1 .. n, NEW want \in Nat
    PROVE  Handed(n, st, k, want, TopUp(st, k, want))
<1> DEFINE give == Share(want - st.targets[k], st.remaining)
<1>1. st.targets \in [1 .. n -> Nat] /\ st.remaining \in Nat
  BY DEF State
<1>2. give \in Nat /\ give <= st.remaining
  BY <1>1 DEF Share, Lesser
<1> HIDE DEF give
<1>3. TopUp(st, k, want) = [targets   |-> [st.targets EXCEPT ![k] = @ + give],
                            remaining |-> st.remaining - give]
  BY DEF TopUp, give
<1>4. ASSUME give = 0 PROVE TopUp(st, k, want) = st
  <2>1. [st.targets EXCEPT ![k] = @ + give] = st.targets
    BY <1>1, <1>4
  <2>2. QED
    BY <1>1, <1>3, <1>4, <2>1 DEF State
<1>5. QED
  BY <1>1, <1>2, <1>3, <1>4 DEF State, give, Handed

\* The recursive function in Loop is well defined: its value at k is the state
\* after k iterations.
LEMMA LoopRuns ==
    ASSUME NEW p \in 1 .. 4, NEW total, NEW groups, NEW observed,
           Arguments(total, groups, observed), NEW start \in State(Len(groups))
    PROVE  \E f : /\ Run(p, total, groups, observed, f)
                  /\ f[0] = start
                  /\ f[Len(groups)] = Loop(p, total, groups, observed, start)
<1> DEFINE n == Len(groups)
           S == State(n)
           W(k, st) == Asks(p, total, groups[k], observed[k], st.targets[k], st.remaining)
           G == [k \in 1 .. n |-> [st \in S |-> TopUp(st, k, W(k, st))]]
           Body(g) == [k \in 0 .. n |->
                          IF k = 0 THEN start
                          ELSE CHOOSE next \in {TopUp(st, k, W(k, st)) : st \in {g[k - 1]}} : TRUE]
           after == CHOOSE g : g = Body(g)
<1>1. n \in Nat /\ start \in S
  BY DEF Arguments
<1>2. ASSUME NEW k \in 1 .. n, NEW st \in S PROVE TopUp(st, k, W(k, st)) \in S
  <2>1. /\ groups[k] \in Scaling /\ observed[k] \in Nat \cup {Nil} /\ total \in Nat
        /\ st.targets[k] \in Nat /\ st.remaining \in Nat
    BY DEF Arguments, State
  <2>2. W(k, st) \in Nat
    BY <2>1, AsksType
  <2> HIDE DEF W
  <2>3. QED
    BY <1>1, <2>2, TopUpFacts DEF Handed
<1>3. G \in [1 .. n -> [S -> S]]
  BY <1>2
<1>4. PICK f \in [0 .. n -> S] : f[0] = start /\ \A k \in 1 .. n : f[k] = G[k][f[k - 1]]
  <2>1. Iterates(n, S, start, G)
    <3> HIDE DEF n, S, G
    <3>1. QED
      BY <1>1, <1>3, Iterate, Zenon
  <2> HIDE DEF n, S, G
  <2>2. QED
    BY <2>1 DEF Iterates
<1>5. \A g, k : (CHOOSE next \in {TopUp(st, k, W(k, st)) : st \in {g[k - 1]}} : TRUE)
                    = TopUp(g[k - 1], k, W(k, g[k - 1]))
  <2> HIDE DEF W
  <2>1. QED
    OBVIOUS
<1>6. f = Body(f)
  <2>1. \A k \in 1 .. n : f[k] = TopUp(f[k - 1], k, W(k, f[k - 1]))
    <3>1. TAKE k \in 1 .. n
    <3>2. f[k - 1] \in S
      BY <1>1
    <3> HIDE DEF W
    <3>3. QED
      BY <1>4, <3>2
  <2> HIDE DEF W
  <2>2. QED
    BY <1>1, <1>4, <1>5, <2>1
<1>7. after = Body(after)
  BY <1>6, Zenon
<1>8. Loop(p, total, groups, observed, start) = after[n]
  BY DEF Loop
<1>9. after[0] = start /\ \A k \in 1 .. n : after[k] = TopUp(after[k - 1], k, W(k, after[k - 1]))
  <2> HIDE DEF after, W
  <2>1. QED
    BY <1>1, <1>5, <1>7
<1>10. after \in [0 .. n -> S]
  <2> DEFINE T == {k \in 0 .. n : after[k] \in S}
  <2> HIDE DEF after
  <2>1. 0 \in T
    BY <1>1, <1>9
  <2>2. \A k \in 0 .. n - 1 : k \in T => k + 1 \in T
    <3>1. SUFFICES ASSUME NEW k \in 0 .. n - 1, after[k] \in S
                   PROVE  after[k + 1] \in S
      BY <1>1
    <3>2. k + 1 \in 1 .. n /\ (k + 1) - 1 = k
      BY <1>1
    <3> HIDE DEF W, S
    <3>3. QED
      BY <1>2, <1>9, <3>1, <3>2
  <2>3. \A k \in 0 .. n : k \in T
    <3> HIDE DEF T
    <3>1. QED
      BY <1>1, <2>1, <2>2, IntervalInduction
  <2> HIDE DEF W, S
  <2>4. QED
    BY <1>7, <2>3
<1>11. QED
  <2> HIDE DEF after
  <2>1. Run(p, total, groups, observed, after)
    BY <1>9, <1>10 DEF Run
  <2>2. QED
    BY <1>8, <1>9, <2>1
\* What loop p asks for group k out of the state st.
AskIn(p, total, groups, observed, st, k) ==
    Asks(p, total, groups[k], observed[k], st.targets[k], st.remaining)

\* One iteration of a run.
LEMMA RunStep ==
    ASSUME NEW p \in 1 .. 4, NEW total, NEW groups, NEW observed, NEW f,
           Arguments(total, groups, observed), Run(p, total, groups, observed, f),
           NEW k \in 1 .. Len(groups)
    PROVE  Handed(Len(groups), f[k - 1], k, AskIn(p, total, groups, observed, f[k - 1], k), f[k])
<1> DEFINE n == Len(groups)
           st == f[k - 1]
           want == AskIn(p, total, groups, observed, st, k)
<1>1. n \in Nat /\ st \in State(n) /\ f[k] = TopUp(st, k, want)
  BY DEF Arguments, Run, AskIn
<1>2. want \in Nat
  <2>1. /\ groups[k] \in Scaling /\ observed[k] \in Nat \cup {Nil} /\ total \in Nat
        /\ st.targets[k] \in Nat /\ st.remaining \in Nat
    BY <1>1 DEF Arguments, State
  <2>2. QED
    BY <2>1, AsksType DEF AskIn
<1> HIDE DEF st, want
<1>3. QED
  BY <1>1, <1>2, TopUpFacts DEF st, want

\* The same, from the iteration before.
LEMMA RunNext ==
    ASSUME NEW p \in 1 .. 4, NEW total, NEW groups, NEW observed, NEW f,
           Arguments(total, groups, observed), Run(p, total, groups, observed, f),
           NEW b \in 0 .. Len(groups) - 1
    PROVE  Handed(Len(groups), f[b], b + 1, AskIn(p, total, groups, observed, f[b], b + 1), f[b + 1])
<1>1. b + 1 \in 1 .. Len(groups) /\ (b + 1) - 1 = b
  BY DEF Arguments
<1>2. Handed(Len(groups), f[(b + 1) - 1], b + 1,
             AskIn(p, total, groups, observed, f[(b + 1) - 1], b + 1), f[b + 1])
  BY <1>1, RunStep
<1>3. QED
  BY <1>1, <1>2

\* The states of a run.
LEMMA RunType ==
    ASSUME NEW p, NEW total, NEW groups, NEW observed, NEW f,
           Arguments(total, groups, observed), Run(p, total, groups, observed, f)
    PROVE  /\ Len(groups) \in Nat
           /\ \A b \in 0 .. Len(groups) : f[b] \in State(Len(groups)) /\ f[b].remaining \in Nat
<1>1. Len(groups) \in Nat /\ f \in [0 .. Len(groups) -> State(Len(groups))]
  BY DEF Arguments, Run
<1>2. QED
  BY <1>1 DEF State

\* Along a run the remainder never grows.
LEMMA RunShrinks ==
    ASSUME NEW p \in 1 .. 4, NEW total, NEW groups, NEW observed, NEW f,
           Arguments(total, groups, observed), Run(p, total, groups, observed, f),
           NEW a \in 0 .. Len(groups)
    PROVE  \A b \in a .. Len(groups) : f[b].remaining <= f[a].remaining
<1> DEFINE n == Len(groups)
           T == {b \in a .. n : f[b].remaining <= f[a].remaining}
<1>1. n \in Nat /\ a \in Nat /\ \A b \in 0 .. n : f[b].remaining \in Nat
  BY RunType
<1>2. a \in T
  BY <1>1
<1>3. \A b \in a .. n - 1 : b \in T => b + 1 \in T
  <2>1. SUFFICES ASSUME NEW b \in a .. n - 1, f[b].remaining <= f[a].remaining
                 PROVE  f[b + 1].remaining <= f[a].remaining
    BY <1>1
  <2>2. b \in 0 .. n - 1
    BY <1>1
  <2>3. Handed(n, f[b], b + 1, AskIn(p, total, groups, observed, f[b], b + 1), f[b + 1])
    BY <2>2, RunNext
  <2>4. \E give \in Nat : f[b + 1].remaining = f[b].remaining - give
    BY <2>3 DEF Handed
  <2>5. QED
    BY <1>1, <2>1, <2>2, <2>4
<1>4. \A b \in a .. n : b \in T
  <2> HIDE DEF T
  <2>1. QED
    BY <1>1, <1>2, <1>3, IntervalInduction
<1>5. QED
  BY <1>4

\* A run changes a group in the iteration that is its own and in no other.
LEMMA RunServesOnce ==
    ASSUME NEW p \in 1 .. 4, NEW total, NEW groups, NEW observed, NEW f,
           Arguments(total, groups, observed), Run(p, total, groups, observed, f),
           NEW k \in 1 .. Len(groups)
    PROVE  /\ f[k - 1].targets[k] = f[0].targets[k]
           /\ f[Len(groups)].targets[k] = f[k].targets[k]
<1> DEFINE n == Len(groups)
           T == {b \in 0 .. k - 1 : f[b].targets[k] = f[0].targets[k]}
           U == {b \in k .. n : f[b].targets[k] = f[k].targets[k]}
<1>1. n \in Nat
  BY RunType
<1>2. ASSUME NEW b \in 0 .. n - 1, b # k - 1 PROVE f[b + 1].targets[k] = f[b].targets[k]
  <2>1. k \in 1 .. n \ {b + 1}
    BY <1>1, <1>2
  <2>2. Handed(n, f[b], b + 1, AskIn(p, total, groups, observed, f[b], b + 1), f[b + 1])
    BY RunNext
  <2>3. QED
    BY <2>1, <2>2 DEF Handed
<1>3. f[k - 1].targets[k] = f[0].targets[k]
  <2>1. 0 \in T /\ \A b \in 0 .. (k - 1) - 1 : b \in T => b + 1 \in T
    BY <1>1, <1>2
  <2>2. \A b \in 0 .. k - 1 : b \in T
    <3>1. k - 1 \in Nat
      BY <1>1
    <3> HIDE DEF T
    <3>2. QED
      BY <2>1, <3>1, IntervalInduction
  <2>3. QED
    BY <1>1, <2>2
<1>4. f[n].targets[k] = f[k].targets[k]
  <2>1. k \in U /\ \A b \in k .. n - 1 : b \in U => b + 1 \in U
    BY <1>1, <1>2
  <2>2. \A b \in k .. n : b \in U
    <3>1. k \in Nat
      BY <1>1
    <3> HIDE DEF U
    <3>2. QED
      BY <1>1, <2>1, <3>1, IntervalInduction
  <2>3. QED
    BY <1>1, <2>2
<1>5. QED
  BY <1>3, <1>4

\* Once nothing remains, a run changes nothing any more.
LEMMA RunRests ==
    ASSUME NEW p \in 1 .. 4, NEW total, NEW groups, NEW observed, NEW f,
           Arguments(total, groups, observed), Run(p, total, groups, observed, f),
           NEW a \in 0 .. Len(groups), f[a].remaining = 0
    PROVE  f[Len(groups)] = f[a]
<1> DEFINE n == Len(groups)
           T == {b \in a .. n : f[b] = f[a]}
<1>1. n \in Nat /\ a \in Nat /\ \A b \in 0 .. n : f[b] \in State(n)
  BY RunType
<1>2. a \in T
  BY <1>1
<1>3. \A b \in a .. n - 1 : b \in T => b + 1 \in T
  <2>1. SUFFICES ASSUME NEW b \in a .. n - 1, f[b] = f[a]
                 PROVE  f[b + 1] = f[a]
    BY <1>1
  <2>2. b \in 0 .. n - 1 /\ b + 1 \in 1 .. n
    BY <1>1
  <2> DEFINE want == AskIn(p, total, groups, observed, f[b], b + 1)
  <2>3. Handed(n, f[b], b + 1, want, f[b + 1])
    BY <2>2, RunNext
  <2>4. f[b].targets[b + 1] \in Nat
    <3>1. f[b] \in State(n)
      BY <1>1, <2>2
    <3>2. QED
      BY <2>2, <3>1 DEF State
  <2> HIDE DEF want
  <2>5. want \in Nat
    BY <2>3 DEF Handed
  <2>6. Share(want - f[b].targets[b + 1], f[b].remaining) = 0
    BY <2>1, <2>4, <2>5 DEF Share, Lesser
  <2>7. QED
    BY <2>1, <2>3, <2>6 DEF Handed
<1>4. \A b \in a .. n : b \in T
  <2> HIDE DEF T
  <2>1. QED
    BY <1>1, <1>2, <1>3, IntervalInduction
<1>5. QED
  BY <1>1, <1>4

-----------------------------------------------------------------------------
(* What a loop, and the four of them, return.                              *)

\* Loop p leads from start to end: each group was served once, out of what
\* the groups before it had left, and at least the final remainder was left
\* behind it.
Leads(p, total, groups, observed, start, end) ==
    /\ end \in State(Len(groups))
    /\ end.remaining <= start.remaining
    /\ start.remaining = 0 => end = start
    /\ \A k \in 1 .. Len(groups) : \E rest \in Nat :
          LET give == Share(Asks(p, total, groups[k], observed[k], start.targets[k], rest)
                                - start.targets[k], rest)
          IN  /\ give \in Nat
              /\ end.targets[k] = start.targets[k] + give
              /\ rest <= start.remaining /\ end.remaining <= rest - give

\* Every loop does.
LEMMA LoopLeads ==
    ASSUME NEW p \in 1 .. 4, NEW total, NEW groups, NEW observed,
           Arguments(total, groups, observed), NEW start \in State(Len(groups))
    PROVE  Leads(p, total, groups, observed, start, Loop(p, total, groups, observed, start))
<1> DEFINE n == Len(groups)
<1>1. PICK f : /\ Run(p, total, groups, observed, f)
               /\ f[0] = start
               /\ f[n] = Loop(p, total, groups, observed, start)
  BY LoopRuns
<1>2. n \in Nat /\ \A b \in 0 .. n : f[b] \in State(n) /\ f[b].remaining \in Nat
  BY <1>1, RunType
<1>3. 0 \in 0 .. n /\ n \in 0 .. n
  BY <1>2
<1>4. f[n].remaining <= f[0].remaining
  BY <1>1, <1>2, <1>3, RunShrinks
<1>5. f[0].remaining = 0 => f[n] = f[0]
  BY <1>1, <1>3, RunRests
<1>6. ASSUME NEW k \in 1 .. n
      PROVE  \E rest \in Nat :
                LET give == Share(Asks(p, total, groups[k], observed[k], f[0].targets[k], rest)
                                      - f[0].targets[k], rest)
                IN  /\ give \in Nat
                    /\ f[n].targets[k] = f[0].targets[k] + give
                    /\ rest <= f[0].remaining /\ f[n].remaining <= rest - give
  <2> DEFINE rest == f[k - 1].remaining
             want == Asks(p, total, groups[k], observed[k], f[0].targets[k], rest)
             give == Share(want - f[0].targets[k], rest)
  <2>1. k - 1 \in 0 .. n /\ k \in 0 .. n /\ n \in k .. n /\ k - 1 \in 0 .. n
    BY <1>2
  <2>2. f[k - 1].targets[k] = f[0].targets[k] /\ f[n].targets[k] = f[k].targets[k]
    BY <1>1, RunServesOnce
  <2>3. Handed(n, f[k - 1], k, AskIn(p, total, groups, observed, f[k - 1], k), f[k])
    BY <1>1, RunStep
  <2>4. AskIn(p, total, groups, observed, f[k - 1], k) = want
    BY <2>2 DEF AskIn
  <2> HIDE DEF want
  <2>5. /\ give \in Nat /\ f[k].remaining = rest - give
        /\ f[k].targets[k] = f[0].targets[k] + give
    BY <2>2, <2>3, <2>4 DEF Handed
  <2>6. rest \in Nat /\ rest <= f[0].remaining
    BY <1>1, <1>2, <1>3, <2>1, RunShrinks
  <2>7. f[n].remaining <= f[k].remaining
    BY <1>1, <2>1, RunShrinks
  <2> HIDE DEF give, rest
  <2>8. give \in Nat /\ f[n].targets[k] = f[0].targets[k] + give
        /\ rest <= f[0].remaining /\ f[n].remaining <= rest - give
    BY <2>2, <2>5, <2>6, <2>7
  <2>9. QED
    BY <2>6, <2>8 DEF give, want
<1> DEFINE end == Loop(p, total, groups, observed, start)
<1>7. f[n] = end /\ f[0] = start /\ end \in State(n)
  BY <1>1, <1>2, <1>3
<1> HIDE DEF end
<1>8. Leads(p, total, groups, observed, start, end)
  BY <1>4, <1>5, <1>6, <1>7 DEF Leads
<1>9. QED
  BY <1>8 DEF end

\* The state ComputeGroupTargets starts from.
Zero(total, groups) ==
    [targets |-> [k \in 1 .. Len(groups) |-> 0], remaining |-> total]

\* The four loops in a row.
LEMMA ComputeLeads ==
    ASSUME NEW total, NEW groups, NEW observed, Arguments(total, groups, observed)
    PROVE  \E p1, p2, p3, p4 \in State(Len(groups)) :
              /\ Zero(total, groups) \in State(Len(groups))
              /\ Leads(1, total, groups, observed, Zero(total, groups), p1)
              /\ Leads(2, total, groups, observed, p1, p2)
              /\ Leads(3, total, groups, observed, p2, p3)
              /\ Leads(4, total, groups, observed, p3, p4)
              /\ ComputeGroupTargets(total, groups, observed) =
                    [Targets |-> p4.targets, Unplaced |-> p4.remaining,
                     TargetDegraded |-> checkTargetDegraded(total, p4.targets, groups)]
<1> DEFINE zero == [targets   |-> [k \in DOMAIN groups |-> 0],
                    remaining |-> IF total <= 0 THEN 0 ELSE total]
           p1 == Loop(1, total, groups, observed, zero)
           p2 == Loop(2, total, groups, observed, p1)
           p3 == Loop(3, total, groups, observed, p2)
           p4 == Loop(4, total, groups, observed, p3)
<1>1. zero = Zero(total, groups) /\ zero \in State(Len(groups))
  BY DEF Zero, State, Arguments
<1>2. ComputeGroupTargets(total, groups, observed) =
         [Targets |-> p4.targets, Unplaced |-> p4.remaining,
          TargetDegraded |-> checkTargetDegraded(total, p4.targets, groups)]
  BY DEF ComputeGroupTargets
<1> HIDE DEF zero
<1>3. Leads(1, total, groups, observed, zero, p1)
  BY <1>1, LoopLeads
<1>4. p1 \in State(Len(groups))
  BY <1>3 DEF Leads
<1> HIDE DEF p1
<1>5. Leads(2, total, groups, observed, p1, p2)
  BY <1>4, LoopLeads
<1>6. p2 \in State(Len(groups))
  BY <1>5 DEF Leads
<1> HIDE DEF p2
<1>7. Leads(3, total, groups, observed, p2, p3)
  BY <1>6, LoopLeads
<1>8. p3 \in State(Len(groups))
  BY <1>7 DEF Leads
<1> HIDE DEF p3
<1>9. Leads(4, total, groups, observed, p3, p4)
  BY <1>8, LoopLeads
<1>10. p4 \in State(Len(groups))
  BY <1>9 DEF Leads
<1> HIDE DEF p4
<1>11. QED
  BY <1>1, <1>2, <1>3, <1>4, <1>5, <1>6, <1>7, <1>8, <1>9, <1>10

\* The targets are one natural number for each group, and no more than total
\* is left over.
LEMMA ComputeType ==
    ASSUME NEW total, NEW groups, NEW observed, Arguments(total, groups, observed)
    PROVE  LET d == ComputeGroupTargets(total, groups, observed)
           IN  d.Targets \in [1 .. Len(groups) -> Nat] /\ d.Unplaced \in 0 .. total
<1>1. PICK p1, p2, p3, p4 \in State(Len(groups)) :
              /\ Leads(1, total, groups, observed, Zero(total, groups), p1)
              /\ Leads(2, total, groups, observed, p1, p2)
              /\ Leads(3, total, groups, observed, p2, p3)
              /\ Leads(4, total, groups, observed, p3, p4)
              /\ ComputeGroupTargets(total, groups, observed) =
                    [Targets |-> p4.targets, Unplaced |-> p4.remaining,
                     TargetDegraded |-> checkTargetDegraded(total, p4.targets, groups)]
  BY ComputeLeads
<1>2. /\ p1.remaining <= Zero(total, groups).remaining
      /\ p2.remaining <= p1.remaining /\ p3.remaining <= p2.remaining
      /\ p4.remaining <= p3.remaining
  BY <1>1 DEF Leads
<1>3. /\ \A p \in {p1, p2, p3, p4} : p.remaining \in Nat
      /\ p4.targets \in [1 .. Len(groups) -> Nat]
      /\ Zero(total, groups).remaining = total /\ total \in Nat
  BY DEF State, Zero, Arguments
<1>4. QED
  BY <1>1, <1>2, <1>3

\* A pool with an unbounded group places every replica.
LEMMA UnboundedTakesAll ==
    ASSUME NEW total, NEW groups, NEW observed, Arguments(total, groups, observed),
           NEW k \in 1 .. Len(groups), ~IsBounded(groups[k])
    PROVE  ComputeGroupTargets(total, groups, observed).Unplaced = 0
<1>1. PICK p1, p2, p3, p4 \in State(Len(groups)) :
              /\ Zero(total, groups) \in State(Len(groups))
              /\ Leads(1, total, groups, observed, Zero(total, groups), p1)
              /\ Leads(2, total, groups, observed, p1, p2)
              /\ Leads(3, total, groups, observed, p2, p3)
              /\ Leads(4, total, groups, observed, p3, p4)
              /\ ComputeGroupTargets(total, groups, observed) =
                    [Targets |-> p4.targets, Unplaced |-> p4.remaining,
                     TargetDegraded |-> checkTargetDegraded(total, p4.targets, groups)]
  BY ComputeLeads
<1>2. PICK rest \in Nat :
         LET give == Share(Asks(4, total, groups[k], observed[k], p3.targets[k], rest)
                               - p3.targets[k], rest)
         IN  give \in Nat /\ p4.remaining <= rest - give
  BY <1>1 DEF Leads
<1>3. p3.targets[k] \in Nat /\ p4.remaining \in Nat
  BY DEF State
<1>4. Asks(4, total, groups[k], observed[k], p3.targets[k], rest) = p3.targets[k] + rest
  BY DEF Asks, IsBounded
<1>5. Share((p3.targets[k] + rest) - p3.targets[k], rest) = rest
  BY <1>3 DEF Share, Lesser
<1>6. p4.remaining = 0
  BY <1>2, <1>3, <1>4, <1>5
<1>7. QED
  BY <1>1, <1>6

\* A loop that asks for nothing gives nothing.
LEMMA LeadsPast ==
    ASSUME NEW p, NEW total, NEW groups, NEW observed,
           NEW start \in State(Len(groups)), NEW end,
           Leads(p, total, groups, observed, start, end), NEW k \in 1 .. Len(groups),
           \A rest \in Nat : Asks(p, total, groups[k], observed[k], start.targets[k], rest) = 0
    PROVE  end.targets[k] = start.targets[k]
<1>1. PICK rest \in Nat :
         end.targets[k] = start.targets[k]
             + Share(Asks(p, total, groups[k], observed[k], start.targets[k], rest)
                         - start.targets[k], rest)
  BY DEF Leads
<1>2. start.targets[k] \in Nat
  BY DEF State
<1>3. Share(0 - start.targets[k], rest) = 0
  BY <1>2 DEF Share
<1>4. QED
  BY <1>1, <1>2, <1>3

\* A group whose target cannot be read stays at its min, unless a max or
\* observed capacity lets it grow.
LEMMA UnreadableStaysAtFloor ==
    ASSUME NEW total, NEW groups, NEW observed, Arguments(total, groups, observed),
           NEW k \in 1 .. Len(groups),
           groups[k].target # Nil, ~TargetReadable(groups[k]),
           groups[k].max = Nil, ~IsOpportunistic(groups[k])
    PROVE  ComputeGroupTargets(total, groups, observed).Targets[k] <= GroupFloor(groups[k])
<1>1. PICK p1, p2, p3, p4 \in State(Len(groups)) :
              /\ Zero(total, groups) \in State(Len(groups))
              /\ Leads(1, total, groups, observed, Zero(total, groups), p1)
              /\ Leads(2, total, groups, observed, p1, p2)
              /\ Leads(3, total, groups, observed, p2, p3)
              /\ Leads(4, total, groups, observed, p3, p4)
              /\ ComputeGroupTargets(total, groups, observed) =
                    [Targets |-> p4.targets, Unplaced |-> p4.remaining,
                     TargetDegraded |-> checkTargetDegraded(total, p4.targets, groups)]
  BY ComputeLeads
<1>2. GroupFloor(groups[k]) \in Nat
  <2>1. total \in Nat /\ groups[k] \in Scaling
    BY DEF Arguments
  <2>2. QED
    BY <2>1, ScalingFacts
<1>3. p1.targets[k] <= GroupFloor(groups[k])
  <2>1. PICK rest \in Nat :
           p1.targets[k] = Zero(total, groups).targets[k]
               + Share(Asks(1, total, groups[k], observed[k], Zero(total, groups).targets[k], rest)
                           - Zero(total, groups).targets[k], rest)
    BY <1>1 DEF Leads
  <2>2. Zero(total, groups).targets[k] = 0
    BY DEF Zero
  <2>3. QED
    BY <1>2, <2>1, <2>2 DEF Asks, Share, Lesser
<1>4. p2.targets[k] = p1.targets[k]
  BY <1>1, LeadsPast DEF Asks
<1>5. p3.targets[k] = p2.targets[k]
  BY <1>1, LeadsPast DEF Asks
<1>6. p4.targets[k] = p3.targets[k]
  <2>1. \A rest \in Nat : Asks(4, total, groups[k], observed[k], p3.targets[k], rest) = 0
    BY DEF Asks, hasStaticCeiling, GroupCeiling
  <2>2. QED
    BY <1>1, <2>1, LeadsPast
<1>7. QED
  BY <1>1, <1>3, <1>4, <1>5, <1>6
=============================================================================
