--------------------------- MODULE WorkloadProofs ---------------------------
(***************************************************************************)
(* Package internal/workload: proofs about the distribution's loops        *)
(* (algorithm.go: Distributor, against the abstract Allocation, the        *)
(* function ComputeGroupTargets and the closed form) and about the         *)
(* rendering of children (render.go: Documents).                           *)
(***************************************************************************)
EXTENDS DistributionReference, Documents, DistributionProofs, FiniteSetTheorems, TLAPS

-----------------------------------------------------------------------------
(* The account: replicas as slots.                                        *)

\* The slots a group at size a gains when it is handed give more.
Slots(k, a, give) == {k} \X (a + 1 .. a + give)

\* They are as many as it was handed.
LEMMA SlotsOfOneGroup ==
    \A k \in Group, a, give \in Nat :
        IsFiniteSet(Slots(k, a, give)) /\ Cardinality(Slots(k, a, give)) = give
<1> SUFFICES ASSUME NEW k \in Group, NEW a \in Nat, NEW give \in Nat
             PROVE  /\ IsFiniteSet(Slots(k, a, give))
                    /\ Cardinality(Slots(k, a, give)) = give
  OBVIOUS
<1> DEFINE I == a + 1 .. a + give
           S == {k} \X I
           f == [r \in I |-> <<k, r>>]
<1>1. IsFiniteSet(I) /\ Cardinality(I) = give
  BY FS_Interval
<1>2. f \in Bijection(I, S)
  <2>1. f \in [I -> S]
    OBVIOUS
  <2>2. \A x, y \in I : f[x] = f[y] => x = y
    OBVIOUS
  <2>3. \A t \in S : \E x \in I : f[x] = t
    OBVIOUS
  <2>4. QED
    BY <2>1, <2>2, <2>3 DEF Bijection, Injection, Surjection, IsInjective
<1>3. IsFiniteSet(S) /\ Cardinality(S) = give
  BY <1>1, <1>2, FS_Bijection DEF ExistsBijection
<1>4. QED
  BY <1>3 DEF Slots

\* Moving "give" replicas from the remainder to group k keeps the account.
LEMMA GiveKeepsAccount ==
    ASSUME TypeOK, Room, EveryReplicaAccountedFor,
           NEW k \in Group, NEW give \in Nat, give <= remaining,
           targets' = [targets EXCEPT ![k] = targets[k] + give],
           remaining' = remaining - give,
           total' = total
    PROVE  Room' /\ EveryReplicaAccountedFor'
<1> DEFINE New == Slots(k, targets[k], give)
<1>1. /\ total \in Nat /\ remaining \in Nat
      /\ targets \in [Group -> Nat] /\ targets' \in [Group -> Nat]
  BY DEF TypeOK
<1>2. targets[k] \in Nat /\ targets[k] + give <= total
  BY <1>1 DEF Room
<1>3. Room'
  BY <1>1 DEF Room
<1>4. Placed' = Placed \cup New
  BY <1>1, <1>2 DEF Placed, Slots
<1>5. Placed \cap New = {}
  BY <1>1, <1>2 DEF Placed, Slots
<1>6. IsFiniteSet(New) /\ Cardinality(New) = give
  BY <1>2, SlotsOfOneGroup
<1>7. IsFiniteSet(Placed) /\ Cardinality(Placed) + remaining = total
  BY DEF EveryReplicaAccountedFor
<1>8. /\ IsFiniteSet(Placed \cup New)
      /\ Cardinality(Placed \cup New) = Cardinality(Placed) + give
  <2>1. /\ IsFiniteSet(Placed \cup New)
        /\ Cardinality(Placed \cup New)
             = Cardinality(Placed) + Cardinality(New) - Cardinality(Placed \cap New)
    BY <1>6, <1>7, FS_Union
  <2>2. Cardinality(Placed \cap New) = 0
    BY <1>5, FS_EmptySet
  <2>3. Cardinality(Placed) \in Nat
    BY <1>7, FS_CardinalityType
  <2> HIDE DEF New
  <2>4. QED
    BY <2>1, <2>2, <2>3, <1>6
<1>9. Cardinality(Placed) \in Nat
  BY <1>7, FS_CardinalityType
<1>10. IsFiniteSet(Placed') /\ Cardinality(Placed') + remaining' = total'
  BY <1>1, <1>4, <1>7, <1>8, <1>9
<1>11. QED
  BY <1>3, <1>10 DEF EveryReplicaAccountedFor

\* The sizes a group's constraints name in a given call.
LEMMA BoundFacts ==
    ASSUME TypeOK, NEW k \in Group
    PROVE  /\ GroupFloor(groups[k]) \in Nat
           /\ observed[k] \in Int
           /\ GroupCeiling(total, groups[k]) \in Nat
           /\ Declares(k) => /\ Want(k) \in Nat
                             /\ Want(k) <= Bound(k)
           /\ Bound(k) \in Nat
           /\ GroupFloor(groups[k]) <= Bound(k)
           /\ IsOpportunistic(groups[k]) => observed[k] <= Bound(k)
           /\ ~IsOpportunistic(groups[k]) => GroupCeiling(total, groups[k]) <= Bound(k)
<1>1. total \in Nat /\ groups[k] \in Scaling /\ observed[k] \in Int
  BY DEF TypeOK, Nil
<1>2. QED
  BY <1>1, ScalingFacts DEF Bound, Greater, Want, Declares

-----------------------------------------------------------------------------
(* The initial state.                                                      *)

\* Before the first loop nothing is handed out and everything remains.
LEMMA InitInv == Init => Inv
<1> SUFFICES ASSUME Init PROVE Inv
  OBVIOUS
<1> USE NAssumption, ScalingsAssumption, TotalsAssumption, CapacityAssumption
<1>1. TypeOK
  <2>1. total \in Nat /\ remaining \in Nat
    BY DEF Init
  <2>2. groups \in [Group -> Scaling]
    BY DEF Init
  <2>3. observed \in [Group -> Nat \cup {Nil}]
    BY DEF Init
  <2>4. i \in 1 .. N + 1
    BY DEF Init
  <2>5. phase \in Phases /\ targets \in [Group -> Nat] /\ degraded \in BOOLEAN
    BY DEF Init, Phases
  <2>6. QED
    BY <2>1, <2>2, <2>3, <2>4, <2>5 DEF TypeOK
<1>2. \A k \in Group : GroupFloor(groups[k]) \in Nat
  BY <1>1, BoundFacts
<1>3. \A k \in Group : targets[k] <= Bound(k)
  BY <1>1, BoundFacts DEF Init
<1>4. FloorLoop /\ TargetLoop /\ OpportunisticLoop /\ OverflowLoop
  BY DEF Init, FloorLoop, TargetLoop, OpportunisticLoop, OverflowLoop, Through
<1>5. NotYet
  BY <1>2 DEF Init, NotYet
<1>6. Room
  BY <1>1 DEF Init, Room, TypeOK
<1>7. EveryReplicaAccountedFor
  <2>1. Placed = {}
    BY DEF Init, Placed
  <2>2. QED
    BY <2>1, <1>1, FS_EmptySet DEF Init, EveryReplicaAccountedFor, TypeOK
<1>8. CeilingHonoured
  BY <1>3 DEF CeilingHonoured
<1>9. CascadeOrder /\ DeclaredShareFirst /\ FreeCapacityFirst
  BY <1>2 DEF Init, CascadeOrder, DeclaredShareFirst, FreeCapacityFirst
<1>10. QED
  BY <1>1, <1>4, <1>5, <1>6, <1>7, <1>8, <1>9 DEF Inv

-----------------------------------------------------------------------------
(* One iteration of any loop hands "give" replicas to one group.           *)

Hands(k, give) ==
    /\ give \in Nat
    /\ give <= remaining
    /\ targets' = [targets EXCEPT ![k] = targets[k] + give]
    /\ remaining' = remaining - give
    /\ UNCHANGED args

\* Place hands over a share of the want.
LEMMA PlaceHands ==
    ASSUME TypeOK, NEW k \in Group, NEW want \in Int, Place(k, want), UNCHANGED args
    PROVE  \E give \in Nat :
              /\ Hands(k, give)
              /\ targets[k] + give <= Greater(targets[k], want)
              /\ remaining' > 0 => targets'[k] >= want
<1> DEFINE give == Share(want - targets[k], remaining)
<1>1. targets \in [Group -> Nat] /\ remaining \in Nat
  BY DEF TypeOK
<1>2. /\ give \in Nat /\ give <= remaining
      /\ targets[k] + give <= Greater(targets[k], want)
      /\ remaining - give > 0 => targets[k] + give >= want
  BY <1>1, ShareFacts
<1>3. /\ targets' = [targets EXCEPT ![k] = targets[k] + give]
      /\ remaining' = remaining - give
  BY DEF Place
<1> HIDE DEF give
<1>4. Hands(k, give)
  BY <1>2, <1>3 DEF Hands
<1>5. targets'[k] = targets[k] + give
  BY <1>1, <1>3
<1>6. QED
  BY <1>2, <1>3, <1>4, <1>5

\* The arguments of the call fix what its groups declare.
LEMMA Frame ==
    ASSUME UNCHANGED args, NEW k \in Group
    PROVE  /\ total' = total /\ groups' = groups /\ observed' = observed
           /\ Declares(k)' = Declares(k)
           /\ Want(k)' = Want(k)
           /\ Bound(k)' = Bound(k)
BY DEF args, Declares, Want, Bound

\* No group loses a replica, and only group k gains any.
LEMMA HandsFacts ==
    ASSUME TypeOK, Room, EveryReplicaAccountedFor,
           NEW k \in Group, NEW give \in Nat, Hands(k, give)
    PROVE  /\ total' \in Nat /\ groups' \in [Group -> Scaling]
           /\ observed' \in [Group -> Nat \cup {Nil}]
           /\ targets' \in [Group -> Nat] /\ remaining' \in Nat
           /\ remaining' <= remaining
           /\ give > 0 => remaining > 0
           /\ targets'[k] = targets[k] + give
           /\ \A j \in Group : targets'[j] >= targets[j]
           /\ \A j \in Group : j # k => targets'[j] = targets[j]
           /\ Room' /\ EveryReplicaAccountedFor'
<1>1. targets \in [Group -> Nat] /\ remaining \in Nat
  BY DEF TypeOK
<1>2. Room' /\ EveryReplicaAccountedFor'
  BY GiveKeepsAccount DEF Hands, args
<1>3. QED
  BY <1>1, <1>2 DEF Hands, args, TypeOK

\* The order promises survive an iteration that hands replicas over only
\* when the groups entitled before k have had theirs.
LEMMA OrderKept ==
    ASSUME Inv, NEW k \in Group, NEW give \in Nat, Hands(k, give),
           give > 0 => \A a \in Group :
              a < k => targets[a] >= GroupFloor(groups[a]),
           \/ Declares(k)
           \/ targets'[k] <= GroupFloor(groups[k])
           \/ \A a \in Group : Declares(a) => targets[a] >= Want(a),
           \/ IsOpportunistic(groups[k])
           \/ targets'[k] <= GroupFloor(groups[k])
           \/ Declares(k) /\ targets'[k] <= Want(k)
           \/ \A a \in Group : IsOpportunistic(groups[a]) => targets[a] >= observed[a],
           \/ ~IsBounded(groups[k])
           \/ targets'[k] <= Bound(k)
           \/ IsOpportunistic(groups[k]) /\ observed[k] = Nil
    PROVE  CascadeOrder' /\ DeclaredShareFirst' /\ FreeCapacityFirst'
           /\ CeilingHonoured'
<1>1. /\ targets \in [Group -> Nat] /\ targets' \in [Group -> Nat]
      /\ \A j \in Group : targets'[j] >= targets[j]
      /\ \A j \in Group : j # k => targets'[j] = targets[j]
      /\ targets'[k] = targets[k] + give
  BY HandsFacts DEF Inv, TypeOK
<1>2. /\ total' = total /\ groups' = groups /\ observed' = observed
      /\ \A j \in Group : /\ Declares(j)' = Declares(j)
                          /\ Want(j)' = Want(j)
                          /\ Bound(j)' = Bound(j)
  BY Frame DEF Hands
<1>3. \A j \in Group : /\ GroupFloor(groups[j]) \in Nat
                       /\ observed[j] \in Int
                       /\ Declares(j) => Want(j) \in Nat
                       /\ Bound(j) \in Nat
  BY BoundFacts DEF Inv
<1>0. \A j \in Group, x \in Int : targets[j] >= x => targets'[j] >= x
  <2>1. SUFFICES ASSUME NEW j \in Group, NEW x \in Int, targets[j] >= x
                 PROVE  targets'[j] >= x
    OBVIOUS
  <2>2. targets[j] \in Int /\ targets'[j] \in Int /\ targets'[j] >= targets[j]
    BY <1>1
  <2>3. QED
    BY <2>1, <2>2
<1>4. CascadeOrder'
  <2>1. SUFFICES ASSUME NEW a \in Group, NEW b \in Group, a < b, targets'[b] > 0
                 PROVE  targets'[a] >= GroupFloor(groups[a])
    BY <1>2 DEF CascadeOrder
  <2>2. targets[b] > 0 => targets[a] >= GroupFloor(groups[a])
    BY <2>1 DEF Inv, CascadeOrder
  <2>3. targets[b] > 0 \/ (b = k /\ give > 0)
    BY <1>1, <2>1
  <2>4. targets[a] >= GroupFloor(groups[a])
    BY <2>1, <2>2, <2>3
  <2>5. QED
    BY <1>0, <1>3, <2>4
<1>5. DeclaredShareFirst'
  <2>1. SUFFICES ASSUME NEW a \in Group, NEW b \in Group,
                        Declares(a), ~Declares(b), targets'[b] > GroupFloor(groups[b])
                 PROVE  targets'[a] >= Want(a)
    BY <1>2 DEF DeclaredShareFirst
  <2>2. targets[b] > GroupFloor(groups[b]) => targets[a] >= Want(a)
    BY <2>1 DEF Inv, DeclaredShareFirst
  <2>3. targets[a] >= Want(a)
    <3>1. CASE b = k
      <4>1. ~Declares(k) /\ ~(targets'[k] <= GroupFloor(groups[k]))
        BY <1>1, <1>3, <2>1, <3>1
      <4>2. QED
        BY <2>1, <4>1
    <3>2. CASE b # k
      BY <1>1, <2>1, <2>2, <3>2
    <3>3. QED
      BY <3>1, <3>2
  <2>4. QED
    BY <1>0, <1>3, <2>1, <2>3
<1>6. FreeCapacityFirst'
  <2>1. SUFFICES ASSUME NEW a \in Group, NEW b \in Group,
                        IsOpportunistic(groups[a]), ~IsOpportunistic(groups[b]),
                        targets'[b] > GroupFloor(groups[b]),
                        Declares(b) => targets'[b] > Want(b)
                 PROVE  targets'[a] >= observed[a]
    BY <1>2 DEF FreeCapacityFirst
  <2>2. targets[a] >= observed[a]
    <3>1. CASE b = k
      <4>1. /\ ~IsOpportunistic(groups[k])
            /\ ~(targets'[k] <= GroupFloor(groups[k]))
            /\ ~(Declares(k) /\ targets'[k] <= Want(k))
        BY <1>1, <1>3, <2>1, <3>1
      <4>2. QED
        BY <2>1, <4>1
    <3>2. CASE b # k
      <4>1. targets'[b] = targets[b]
        BY <1>1, <3>2
      <4>2. QED
        BY <2>1, <4>1 DEF Inv, FreeCapacityFirst
    <3>3. QED
      BY <3>1, <3>2
  <2>3. QED
    BY <1>0, <1>3, <2>2
<1>7. CeilingHonoured'
  BY <1>1, <1>2, <1>3 DEF Inv, CeilingHonoured
<1>8. QED
  BY <1>4, <1>5, <1>6, <1>7

-----------------------------------------------------------------------------
(* The loops, one lemma each.                                              *)

\* The index of a running loop names a group.
LEMMA IndexInLoop ==
    ASSUME TypeOK, i <= N
    PROVE  i \in Group /\ i + 1 \in 1 .. N + 1 /\ N + 1 \in 1 .. N + 1
BY NAssumption DEF TypeOK, Group

\* What an iteration hands over keeps the loop invariants of the loops
\* already completed and of groups the running loop has passed.
LEMMA PassedKept ==
    ASSUME TypeOK, Room, EveryReplicaAccountedFor,
           NEW k \in Group, NEW give \in Nat, Hands(k, give),
           NEW j \in Group, NEW x \in Int, remaining' > 0,
           remaining > 0 => targets[j] >= x
    PROVE  targets'[j] >= x
<1>1. /\ targets[j] \in Nat /\ targets'[j] \in Nat /\ targets'[j] >= targets[j]
      /\ remaining \in Nat /\ remaining' \in Nat /\ remaining' <= remaining
  BY HandsFacts DEF TypeOK
<1>2. QED
  BY <1>1

\* Phase 1 keeps the invariant.
LEMMA FloorStepInv == Inv /\ FloorStep => Inv'
<1> SUFFICES ASSUME Inv, FloorStep PROVE Inv'
  OBVIOUS
<1>1. /\ TypeOK /\ Room /\ EveryReplicaAccountedFor /\ NotYet
      /\ phase = "floors" /\ phase' = "floors" /\ i' = i + 1
      /\ i \in Group /\ i' \in 1 .. N + 1 /\ degraded' = degraded
  BY IndexInLoop DEF Inv, FloorStep
<1>2. GroupFloor(groups[i]) \in Nat
  BY <1>1, BoundFacts
<1>3. PICK give \in Nat :
         /\ Hands(i, give)
         /\ targets[i] + give <= Greater(targets[i], GroupFloor(groups[i]))
         /\ remaining' > 0 => targets'[i] >= GroupFloor(groups[i])
  BY <1>1, <1>2, PlaceHands DEF FloorStep
<1>4. /\ total' \in Nat /\ groups' \in [Group -> Scaling]
      /\ observed' \in [Group -> Nat \cup {Nil}]
      /\ targets' \in [Group -> Nat] /\ remaining' \in Nat
      /\ remaining' <= remaining /\ (give > 0 => remaining > 0)
      /\ targets'[i] = targets[i] + give
      /\ \A j \in Group : targets'[j] >= targets[j]
      /\ \A j \in Group : j # i => targets'[j] = targets[j]
      /\ Room' /\ EveryReplicaAccountedFor'
  BY <1>1, <1>3, HandsFacts
<1>5. /\ total' = total /\ groups' = groups /\ observed' = observed
      /\ \A j \in Group : /\ Declares(j)' = Declares(j)
                          /\ Want(j)' = Want(j)
                          /\ Bound(j)' = Bound(j)
  BY <1>1, <1>3, Frame DEF Hands
<1>6. targets'[i] <= GroupFloor(groups[i])
  <2>1. targets[i] \in Nat /\ targets[i] <= GroupFloor(groups[i])
    BY <1>1 DEF NotYet, TypeOK
  <2>2. QED
    BY <1>2, <1>3, <1>4, <2>1 DEF Greater
<1>7. TypeOK'
  BY <1>1, <1>4 DEF TypeOK, Phases
<1>8. FloorLoop'
  <2>1. SUFFICES ASSUME NEW k \in Group, remaining' > 0, k < i + 1
                 PROVE  targets'[k] >= GroupFloor(groups[k])
    BY <1>1, <1>5 DEF FloorLoop, Through
  <2>2. CASE k = i
    BY <1>3, <2>1, <2>2
  <2>3. CASE k # i
    <3>1. k < i
      BY <1>1, <2>1, <2>3 DEF Group
    <3>2. remaining > 0 => targets[k] >= GroupFloor(groups[k])
      BY <1>1, <3>1 DEF Inv, FloorLoop, Through
    <3>3. GroupFloor(groups[k]) \in Int
      BY <1>1, BoundFacts
    <3>4. QED
      BY <1>1, <1>3, <2>1, <3>2, <3>3, PassedKept
  <2>4. QED
    BY <2>2, <2>3
<1>9. TargetLoop' /\ OpportunisticLoop' /\ OverflowLoop'
  BY <1>1 DEF TargetLoop, OpportunisticLoop, OverflowLoop, Through
<1>10. NotYet'
  <2>1. SUFFICES ASSUME NEW k \in Group
                 PROVE  /\ k >= i + 1 => targets'[k] = 0
                        /\ targets'[k] <= GroupFloor(groups[k])
    BY <1>1, <1>5 DEF NotYet
  <2>2. /\ k >= i => targets[k] = 0
        /\ targets[k] <= GroupFloor(groups[k])
    BY <1>1 DEF NotYet
  <2>3. CASE k = i
    BY <1>1, <1>6, <2>3 DEF Group
  <2>4. CASE k # i
    BY <1>1, <1>4, <2>2, <2>4 DEF Group
  <2>5. QED
    BY <2>3, <2>4
<1>11. CascadeOrder' /\ DeclaredShareFirst' /\ FreeCapacityFirst' /\ CeilingHonoured'
  <2>1. give > 0 => \A a \in Group : a < i => targets[a] >= GroupFloor(groups[a])
    BY <1>1, <1>4 DEF Inv, FloorLoop, Through
  <2>2. targets'[i] <= Bound(i)
    <3>1. GroupFloor(groups[i]) <= Bound(i) /\ Bound(i) \in Nat
      BY <1>1, BoundFacts
    <3>2. targets'[i] \in Nat
      BY <1>1, <1>4
    <3>3. QED
      BY <1>2, <1>6, <3>1, <3>2
  <2>3. QED
    BY <1>1, <1>3, <1>6, <2>1, <2>2, OrderKept
<1>12. QED
  BY <1>4, <1>7, <1>8, <1>9, <1>10, <1>11 DEF Inv

\* Phase 2 keeps the invariant, whether or not it breaks out.
LEMMA TargetStepInv == Inv /\ TargetStep => Inv'
<1> SUFFICES ASSUME Inv, TargetStep PROVE Inv'
  OBVIOUS
<1>1. /\ TypeOK /\ Room /\ EveryReplicaAccountedFor /\ NotYet
      /\ phase = "targets" /\ phase' = "targets" /\ degraded' = degraded
      /\ i \in Group /\ i + 1 \in 1 .. N + 1 /\ N + 1 \in 1 .. N + 1
  BY IndexInLoop DEF Inv, TargetStep
<1>2. /\ targets[i] \in Nat /\ remaining \in Nat
      /\ GroupFloor(groups[i]) \in Nat /\ Bound(i) \in Nat
      /\ GroupFloor(groups[i]) <= Bound(i)
      /\ Declares(i) => Want(i) \in Nat /\ Want(i) <= Bound(i)
  BY <1>1, BoundFacts DEF TypeOK
<1>3. PICK give \in Nat :
         /\ Hands(i, give)
         /\ Declares(i) => /\ targets[i] + give <= Greater(targets[i], Want(i))
                           /\ remaining' > 0 => targets'[i] >= Want(i)
         /\ ~Declares(i) => give = 0
  <2>1. UNCHANGED args
    BY DEF TargetStep
  <2>2. CASE Declares(i)
    <3>1. Place(i, Want(i))
      BY <2>2 DEF TargetStep, Declares, Want
    <3>2. QED
      BY <1>1, <1>2, <2>1, <2>2, <3>1, PlaceHands
  <2>3. CASE ~Declares(i)
    <3>1. targets' = targets /\ remaining' = remaining
      BY <2>3 DEF TargetStep, Declares
    <3>2. Hands(i, 0)
      BY <1>1, <1>2, <2>1, <3>1 DEF Hands, TypeOK
    <3>3. QED
      BY <2>3, <3>2
  <2>4. QED
    BY <2>2, <2>3
<1>4. /\ total' \in Nat /\ groups' \in [Group -> Scaling]
      /\ observed' \in [Group -> Nat \cup {Nil}]
      /\ targets' \in [Group -> Nat] /\ remaining' \in Nat
      /\ remaining' <= remaining /\ (give > 0 => remaining > 0)
      /\ targets'[i] = targets[i] + give
      /\ \A j \in Group : targets'[j] >= targets[j]
      /\ \A j \in Group : j # i => targets'[j] = targets[j]
      /\ Room' /\ EveryReplicaAccountedFor'
  BY <1>1, <1>3, HandsFacts
<1>5. /\ total' = total /\ groups' = groups /\ observed' = observed
      /\ \A j \in Group : /\ Declares(j)' = Declares(j)
                          /\ Want(j)' = Want(j)
                          /\ Bound(j)' = Bound(j)
  BY <1>1, <1>3, Frame DEF Hands
<1>6. \/ i' = i + 1
      \/ i' = N + 1 /\ remaining' <= 0
  BY DEF TargetStep
<1>7. TypeOK'
  BY <1>1, <1>4, <1>6 DEF TypeOK, Phases
<1>8. \/ targets'[i] <= GroupFloor(groups[i])
      \/ Declares(i) /\ targets'[i] <= Want(i)
  <2>1. \/ targets[i] <= GroupFloor(groups[i])
        \/ Declares(i) /\ targets[i] <= Want(i)
    BY <1>1 DEF NotYet
  <2>2. QED
    BY <1>2, <1>3, <1>4, <2>1 DEF Greater
<1>9. FloorLoop'
  <2>1. SUFFICES ASSUME NEW k \in Group, remaining' > 0
                 PROVE  targets'[k] >= GroupFloor(groups[k])
    BY <1>5 DEF FloorLoop
  <2>2. remaining > 0 => targets[k] >= GroupFloor(groups[k])
    BY <1>1 DEF Inv, FloorLoop, Through
  <2>3. GroupFloor(groups[k]) \in Int
    BY <1>1, BoundFacts
  <2>4. QED
    BY <1>1, <1>3, <2>1, <2>2, <2>3, PassedKept
<1>10. TargetLoop'
  <2>1. SUFFICES ASSUME NEW k \in Group, remaining' > 0, k < i + 1, Declares(k)
                 PROVE  targets'[k] >= Want(k)
    BY <1>1, <1>4, <1>5, <1>6 DEF TargetLoop, Through
  <2>2. CASE k = i
    BY <1>3, <2>1, <2>2
  <2>3. CASE k # i
    <3>1. k < i
      BY <1>1, <2>1, <2>3 DEF Group
    <3>2. remaining > 0 => targets[k] >= Want(k)
      BY <1>1, <2>1, <3>1 DEF Inv, TargetLoop, Through
    <3>3. Want(k) \in Int
      BY <1>1, <2>1, BoundFacts
    <3>4. QED
      BY <1>1, <1>3, <2>1, <3>2, <3>3, PassedKept
  <2>4. QED
    BY <2>2, <2>3
<1>11. OpportunisticLoop' /\ OverflowLoop'
  BY <1>1 DEF OpportunisticLoop, OverflowLoop, Through
<1>12. NotYet'
  <2>1. SUFFICES ASSUME NEW k \in Group
                 PROVE  \/ targets'[k] <= GroupFloor(groups[k])
                        \/ Declares(k) /\ targets'[k] <= Want(k)
    BY <1>1, <1>5 DEF NotYet
  <2>2. CASE k = i
    BY <1>8, <2>2
  <2>3. CASE k # i
    BY <1>1, <1>4, <2>3 DEF NotYet
  <2>4. QED
    BY <2>2, <2>3
<1>13. CascadeOrder' /\ DeclaredShareFirst' /\ FreeCapacityFirst' /\ CeilingHonoured'
  <2>1. give > 0 => \A a \in Group : a < i => targets[a] >= GroupFloor(groups[a])
    BY <1>1, <1>4 DEF Inv, FloorLoop, Through
  <2>2. targets'[i] <= Bound(i)
    BY <1>2, <1>4, <1>8
  <2>3. Declares(i) \/ targets'[i] <= GroupFloor(groups[i])
    BY <1>8
  <2>4. QED
    BY <1>1, <1>3, <1>8, <2>1, <2>2, <2>3, OrderKept
<1>14. QED
  BY <1>4, <1>7, <1>9, <1>10, <1>11, <1>12, <1>13 DEF Inv

\* Phase 3 keeps the invariant, for groups sized and never sized.
LEMMA OpportunisticStepInv == Inv /\ OpportunisticStep => Inv'
<1> SUFFICES ASSUME Inv, OpportunisticStep PROVE Inv'
  OBVIOUS
<1>1. /\ TypeOK /\ Room /\ EveryReplicaAccountedFor /\ NotYet
      /\ phase = "opportunistic" /\ phase' = "opportunistic" /\ i' = i + 1
      /\ i \in Group /\ i' \in 1 .. N + 1 /\ degraded' = degraded
      /\ remaining > 0
  BY IndexInLoop DEF Inv, OpportunisticStep
<1>2. /\ targets[i] \in Nat /\ remaining \in Nat /\ observed[i] \in Int
      /\ Bound(i) \in Nat
      /\ IsOpportunistic(groups[i]) => observed[i] <= Bound(i)
  BY <1>1, BoundFacts DEF TypeOK
<1>3. PICK give \in Nat :
         /\ Hands(i, give)
         /\ IsOpportunistic(groups[i]) /\ observed[i] # Nil =>
               /\ targets[i] + give <= Greater(targets[i], observed[i])
               /\ remaining' > 0 => targets'[i] >= observed[i]
         /\ ~IsOpportunistic(groups[i]) => give = 0
  <2>1. UNCHANGED args
    BY DEF OpportunisticStep
  <2>2. CASE IsOpportunistic(groups[i])
    <3> DEFINE want == IF observed[i] = Nil THEN remaining ELSE observed[i]
    <3>1. Place(i, want) /\ want \in Int
      BY <1>2, <2>2 DEF OpportunisticStep
    <3>2. observed[i] # Nil => want = observed[i]
      OBVIOUS
    <3> HIDE DEF want
    <3>3. \E give \in Nat :
             /\ Hands(i, give)
             /\ targets[i] + give <= Greater(targets[i], want)
             /\ remaining' > 0 => targets'[i] >= want
      BY <1>1, <2>1, <3>1, PlaceHands
    <3>4. QED
      BY <2>2, <3>2, <3>3
  <2>3. CASE ~IsOpportunistic(groups[i])
    <3>1. targets' = targets /\ remaining' = remaining
      BY <2>3 DEF OpportunisticStep
    <3>2. Hands(i, 0)
      BY <1>1, <1>2, <2>1, <3>1 DEF Hands, TypeOK
    <3>3. QED
      BY <2>3, <3>2
  <2>4. QED
    BY <2>2, <2>3
<1>4. /\ total' \in Nat /\ groups' \in [Group -> Scaling]
      /\ observed' \in [Group -> Nat \cup {Nil}]
      /\ targets' \in [Group -> Nat] /\ remaining' \in Nat
      /\ remaining' <= remaining /\ (give > 0 => remaining > 0)
      /\ targets'[i] = targets[i] + give
      /\ \A j \in Group : targets'[j] >= targets[j]
      /\ \A j \in Group : j # i => targets'[j] = targets[j]
      /\ Room' /\ EveryReplicaAccountedFor'
  BY <1>1, <1>3, HandsFacts
<1>5. /\ total' = total /\ groups' = groups /\ observed' = observed
      /\ \A j \in Group : /\ Declares(j)' = Declares(j)
                          /\ Want(j)' = Want(j)
                          /\ Bound(j)' = Bound(j)
  BY <1>1, <1>3, Frame DEF Hands
<1>6. TypeOK'
  BY <1>1, <1>4 DEF TypeOK, Phases
<1>7. FloorLoop'
  <2>1. SUFFICES ASSUME NEW k \in Group, remaining' > 0
                 PROVE  targets'[k] >= GroupFloor(groups[k])
    BY <1>5 DEF FloorLoop
  <2>2. remaining > 0 => targets[k] >= GroupFloor(groups[k])
    BY <1>1 DEF Inv, FloorLoop, Through
  <2>3. GroupFloor(groups[k]) \in Int
    BY <1>1, BoundFacts
  <2>4. QED
    BY <1>1, <1>3, <2>1, <2>2, <2>3, PassedKept
<1>8. TargetLoop'
  <2>1. SUFFICES ASSUME NEW k \in Group, remaining' > 0, Declares(k)
                 PROVE  targets'[k] >= Want(k)
    BY <1>5 DEF TargetLoop
  <2>2. remaining > 0 => targets[k] >= Want(k)
    BY <1>1, <2>1 DEF Inv, TargetLoop, Through
  <2>3. Want(k) \in Int
    BY <1>1, <2>1, BoundFacts
  <2>4. QED
    BY <1>1, <1>3, <2>1, <2>2, <2>3, PassedKept
<1>9. OpportunisticLoop'
  <2>1. SUFFICES ASSUME NEW k \in Group, remaining' > 0, k < i + 1,
                        IsOpportunistic(groups[k])
                 PROVE  targets'[k] >= observed[k]
    BY <1>1, <1>5 DEF OpportunisticLoop, Through
  <2>2. CASE k = i
    <3>1. CASE observed[i] = Nil
      <4>1. targets'[i] \in Nat
        BY <1>1, <1>4
      <4>2. QED
        BY <2>2, <3>1, <4>1 DEF Nil
    <3>2. CASE observed[i] # Nil
      BY <1>3, <2>1, <2>2, <3>2
    <3>3. QED
      BY <3>1, <3>2
  <2>3. CASE k # i
    <3>1. k < i
      BY <1>1, <2>1, <2>3 DEF Group
    <3>2. remaining > 0 => targets[k] >= observed[k]
      BY <1>1, <2>1, <3>1 DEF Inv, OpportunisticLoop, Through
    <3>3. observed[k] \in Int
      BY <1>1, BoundFacts
    <3>4. QED
      BY <1>1, <1>3, <2>1, <3>2, <3>3, PassedKept
  <2>4. QED
    BY <2>2, <2>3
<1>10. OverflowLoop'
  BY <1>1 DEF OverflowLoop, Through
<1>11. NotYet'
  <2>1. SUFFICES ASSUME NEW k \in Group, ~IsOpportunistic(groups[k])
                 PROVE  \/ targets'[k] <= GroupFloor(groups[k])
                        \/ Declares(k) /\ targets'[k] <= Want(k)
    BY <1>1, <1>5 DEF NotYet
  <2>2. targets'[k] = targets[k]
    BY <1>1, <1>2, <1>3, <1>4, <2>1
  <2>3. QED
    BY <1>1, <2>1, <2>2 DEF NotYet
<1>12. CascadeOrder' /\ DeclaredShareFirst' /\ FreeCapacityFirst' /\ CeilingHonoured'
  <2>1. give > 0 => \A a \in Group : a < i => targets[a] >= GroupFloor(groups[a])
    BY <1>1 DEF Inv, FloorLoop, Through
  <2>2. \A a \in Group : Declares(a) => targets[a] >= Want(a)
    BY <1>1 DEF Inv, TargetLoop, Through
  <2>3. CASE IsOpportunistic(groups[i])
    <3>1. \/ ~IsBounded(groups[i])
          \/ targets[i] <= Bound(i)
          \/ IsOpportunistic(groups[i]) /\ observed[i] = Nil
      BY <1>1 DEF Inv, CeilingHonoured
    <3>2. \/ ~IsBounded(groups[i])
          \/ targets'[i] <= Bound(i)
          \/ IsOpportunistic(groups[i]) /\ observed[i] = Nil
      BY <1>2, <1>3, <1>4, <2>3, <3>1 DEF Greater
    <3>3. QED
      BY <1>1, <1>3, <2>1, <2>2, <2>3, <3>2, OrderKept
  <2>4. CASE ~IsOpportunistic(groups[i])
    <3>1. targets'[i] = targets[i]
      BY <1>2, <1>3, <1>4, <2>4
    <3>2. \/ targets'[i] <= GroupFloor(groups[i])
          \/ Declares(i) /\ targets'[i] <= Want(i)
      BY <1>1, <2>4, <3>1 DEF NotYet
    <3>3. \/ ~IsBounded(groups[i])
          \/ targets'[i] <= Bound(i)
          \/ IsOpportunistic(groups[i]) /\ observed[i] = Nil
      BY <1>1, <3>1 DEF Inv, CeilingHonoured
    <3>4. QED
      BY <1>1, <1>3, <2>1, <2>2, <3>2, <3>3, OrderKept
  <2>5. QED
    BY <2>3, <2>4
<1>13. QED
  BY <1>4, <1>6, <1>7, <1>8, <1>9, <1>10, <1>11, <1>12 DEF Inv

\* Phase 4 keeps the invariant: skipped, unbounded and capped groups.
LEMMA OverflowStepInv == Inv /\ OverflowStep => Inv'
<1> SUFFICES ASSUME Inv, OverflowStep PROVE Inv'
  OBVIOUS
<1>1. /\ TypeOK /\ Room /\ EveryReplicaAccountedFor
      /\ phase = "overflow" /\ phase' = "overflow" /\ i' = i + 1
      /\ i \in Group /\ i' \in 1 .. N + 1 /\ degraded' = degraded
      /\ remaining > 0
  BY IndexInLoop DEF Inv, OverflowStep
<1>2. /\ targets[i] \in Nat /\ remaining \in Nat
      /\ Bound(i) \in Nat /\ GroupCeiling(total, groups[i]) \in Nat
      /\ ~IsOpportunistic(groups[i]) => GroupCeiling(total, groups[i]) <= Bound(i)
  BY <1>1, BoundFacts DEF TypeOK
<1>3. PICK give \in Nat :
         /\ Hands(i, give)
         /\ IsOpportunistic(groups[i]) => give = 0
         /\ ~IsOpportunistic(groups[i]) /\ ~hasStaticCeiling(groups[i])
               => remaining' = 0
         /\ ~IsOpportunistic(groups[i]) /\ hasStaticCeiling(groups[i]) =>
               /\ targets[i] + give
                    <= Greater(targets[i], GroupCeiling(total, groups[i]))
               /\ remaining' > 0 => targets'[i] >= GroupCeiling(total, groups[i])
  <2>1. UNCHANGED args
    BY DEF OverflowStep
  <2>2. CASE IsOpportunistic(groups[i])
    <3>1. targets' = targets /\ remaining' = remaining
      BY <2>2 DEF OverflowStep
    <3>2. Hands(i, 0)
      BY <1>1, <1>2, <2>1, <3>1 DEF Hands, TypeOK
    <3>3. QED
      BY <2>2, <3>2
  <2>3. CASE ~IsOpportunistic(groups[i]) /\ ~hasStaticCeiling(groups[i])
    <3>1. /\ targets' = [targets EXCEPT ![i] = targets[i] + remaining]
          /\ remaining' = 0
      BY <2>3 DEF OverflowStep
    <3>2. Hands(i, remaining)
      BY <1>2, <2>1, <3>1 DEF Hands
    <3>3. QED
      BY <1>2, <2>3, <3>1, <3>2
  <2>4. CASE ~IsOpportunistic(groups[i]) /\ hasStaticCeiling(groups[i])
    <3>1. Place(i, GroupCeiling(total, groups[i]))
      BY <2>4 DEF OverflowStep
    <3>2. QED
      BY <1>1, <1>2, <2>1, <2>4, <3>1, PlaceHands
  <2>5. QED
    BY <2>2, <2>3, <2>4
<1>4. /\ total' \in Nat /\ groups' \in [Group -> Scaling]
      /\ observed' \in [Group -> Nat \cup {Nil}]
      /\ targets' \in [Group -> Nat] /\ remaining' \in Nat
      /\ remaining' <= remaining /\ (give > 0 => remaining > 0)
      /\ targets'[i] = targets[i] + give
      /\ \A j \in Group : targets'[j] >= targets[j]
      /\ \A j \in Group : j # i => targets'[j] = targets[j]
      /\ Room' /\ EveryReplicaAccountedFor'
  BY <1>1, <1>3, HandsFacts
<1>5. /\ total' = total /\ groups' = groups /\ observed' = observed
      /\ \A j \in Group : /\ Declares(j)' = Declares(j)
                          /\ Want(j)' = Want(j)
                          /\ Bound(j)' = Bound(j)
  BY <1>1, <1>3, Frame DEF Hands
<1>6. TypeOK'
  BY <1>1, <1>4 DEF TypeOK, Phases
<1>7. FloorLoop'
  <2>1. SUFFICES ASSUME NEW k \in Group, remaining' > 0
                 PROVE  targets'[k] >= GroupFloor(groups[k])
    BY <1>5 DEF FloorLoop
  <2>2. remaining > 0 => targets[k] >= GroupFloor(groups[k])
    BY <1>1 DEF Inv, FloorLoop, Through
  <2>3. GroupFloor(groups[k]) \in Int
    BY <1>1, BoundFacts
  <2>4. QED
    BY <1>1, <1>3, <2>1, <2>2, <2>3, PassedKept
<1>8. TargetLoop'
  <2>1. SUFFICES ASSUME NEW k \in Group, remaining' > 0, Declares(k)
                 PROVE  targets'[k] >= Want(k)
    BY <1>5 DEF TargetLoop
  <2>2. remaining > 0 => targets[k] >= Want(k)
    BY <1>1, <2>1 DEF Inv, TargetLoop, Through
  <2>3. Want(k) \in Int
    BY <1>1, <2>1, BoundFacts
  <2>4. QED
    BY <1>1, <1>3, <2>1, <2>2, <2>3, PassedKept
<1>9. OpportunisticLoop'
  <2>1. SUFFICES ASSUME NEW k \in Group, remaining' > 0, IsOpportunistic(groups[k])
                 PROVE  targets'[k] >= observed[k]
    BY <1>5 DEF OpportunisticLoop
  <2>2. remaining > 0 => targets[k] >= observed[k]
    BY <1>1, <2>1 DEF Inv, OpportunisticLoop, Through
  <2>3. observed[k] \in Int
    BY <1>1, BoundFacts
  <2>4. QED
    BY <1>1, <1>3, <2>1, <2>2, <2>3, PassedKept
<1>10. OverflowLoop'
  <2>1. SUFFICES ASSUME NEW k \in Group, remaining' > 0, k < i + 1,
                        ~IsOpportunistic(groups[k])
                 PROVE  /\ hasStaticCeiling(groups[k])
                        /\ targets'[k] >= GroupCeiling(total, groups[k])
    BY <1>1, <1>5 DEF OverflowLoop, Through
  <2>2. CASE k = i
    BY <1>3, <2>1, <2>2
  <2>3. CASE k # i
    <3>1. k < i
      BY <1>1, <2>1, <2>3 DEF Group
    <3>2. remaining > 0
      BY <1>1
    <3>3. /\ hasStaticCeiling(groups[k])
          /\ targets[k] >= GroupCeiling(total, groups[k])
      BY <1>1, <2>1, <3>1, <3>2 DEF Inv, OverflowLoop, Through
    <3>4. GroupCeiling(total, groups[k]) \in Int
      BY <1>1, BoundFacts
    <3>5. QED
      BY <1>1, <1>3, <2>1, <3>3, <3>4, PassedKept
  <2>4. QED
    BY <2>2, <2>3
<1>11. NotYet'
  BY <1>1 DEF NotYet
<1>12. CascadeOrder' /\ DeclaredShareFirst' /\ FreeCapacityFirst' /\ CeilingHonoured'
  <2>1. give > 0 => \A a \in Group : a < i => targets[a] >= GroupFloor(groups[a])
    BY <1>1 DEF Inv, FloorLoop, Through
  <2>2. \A a \in Group : Declares(a) => targets[a] >= Want(a)
    BY <1>1 DEF Inv, TargetLoop, Through
  <2>3. \A a \in Group : IsOpportunistic(groups[a]) => targets[a] >= observed[a]
    BY <1>1 DEF Inv, OpportunisticLoop, Through
  <2>4. \/ ~IsBounded(groups[i])
        \/ targets[i] <= Bound(i)
        \/ IsOpportunistic(groups[i]) /\ observed[i] = Nil
    BY <1>1 DEF Inv, CeilingHonoured
  <2>5. \/ ~IsBounded(groups[i])
        \/ targets'[i] <= Bound(i)
        \/ IsOpportunistic(groups[i]) /\ observed[i] = Nil
    BY <1>2, <1>3, <1>4, <2>4 DEF Greater, IsBounded
  <2>6. QED
    BY <1>1, <1>3, <2>1, <2>2, <2>3, <2>5, OrderKept
<1>13. QED
  BY <1>4, <1>6, <1>7, <1>8, <1>9, <1>10, <1>11, <1>12 DEF Inv

-----------------------------------------------------------------------------
(* Entering a loop and returning.                                          *)

\* checkTargetDegraded answers yes or no.
LEMMA DegradedType == checkTargetDegraded(total, targets, groups) \in BOOLEAN
BY DEF checkTargetDegraded

\* Between the loops only the program counter and the verdict change, and
\* a loop is left only with nothing remaining or every group passed.
LEMMA QuietInv ==
    ASSUME Inv, Call \/ FloorsDone \/ TargetsDone \/ OpportunisticDone \/ OverflowDone
    PROVE  Inv'
<1>1. /\ UNCHANGED args /\ targets' = targets /\ remaining' = remaining
      /\ i' = 1 /\ phase' \in Phases /\ degraded' \in BOOLEAN
  BY DegradedType
  DEF Inv, TypeOK, Phases, Call, FloorsDone, TargetsDone, OpportunisticDone,
      OverflowDone, Enter, Return
<1>2. /\ total' = total /\ groups' = groups /\ observed' = observed
  BY <1>1 DEF args
<1>3. /\ TypeOK
      /\ \A k \in Group : ~(k < 1) /\ (i > N => k < i)
      /\ remaining > 0 \/ remaining = 0
      /\ total > 0 \/ total = 0
      /\ total = 0 => remaining = 0
  BY NAssumption DEF Inv, TypeOK, Group, Room
<1>4. TypeOK'
  BY <1>1, <1>2, <1>3, NAssumption DEF TypeOK
<1>5. Placed' = Placed /\ Room'
  BY <1>1, <1>2 DEF Placed, Room, Inv
<1>6. EveryReplicaAccountedFor'
  BY <1>1, <1>2, <1>5 DEF EveryReplicaAccountedFor, Inv
<1>7. CeilingHonoured' /\ CascadeOrder' /\ DeclaredShareFirst' /\ FreeCapacityFirst'
  BY <1>1, <1>2
  DEF Inv, CeilingHonoured, CascadeOrder, DeclaredShareFirst, FreeCapacityFirst,
      Bound, Declares, Want
<1>8. \A k \in Group : Declares(k)' = Declares(k) /\ Want(k)' = Want(k)
  BY <1>1, Frame
<1>9. \/ phase' = "done" /\ remaining = 0
      \/ phase = "call" /\ phase' = "floors"
      \/ phase = "floors" /\ i > N /\ phase' = "targets"
      \/ phase = "targets" /\ i > N /\ phase' = "opportunistic"
      \/ phase = "opportunistic" /\ (i > N \/ remaining = 0) /\ phase' = "overflow"
      \/ phase = "overflow" /\ i > N /\ phase' = "done"
  BY <1>3
  DEF Call, FloorsDone, TargetsDone, OpportunisticDone, OverflowDone, Enter,
      Return, Inv, Room, TypeOK
<1>10. FloorLoop' /\ TargetLoop'
  BY <1>1, <1>2, <1>3, <1>8, <1>9 DEF Inv, FloorLoop, TargetLoop, Through
<1>11. OpportunisticLoop' /\ OverflowLoop'
  BY <1>1, <1>2, <1>3, <1>9 DEF Inv, OpportunisticLoop, OverflowLoop, Through
<1>12. NotYet'
  <2>1. SUFFICES ASSUME NEW k \in Group
                 PROVE  /\ phase' = "floors" => targets[k] = 0
                        /\ phase' = "floors" => targets[k] <= GroupFloor(groups[k])
                        /\ \/ phase' = "targets"
                           \/ phase' = "opportunistic" /\ ~IsOpportunistic(groups[k])
                           => \/ targets[k] <= GroupFloor(groups[k])
                              \/ Declares(k) /\ targets[k] <= Want(k)
    BY <1>1, <1>2, <1>8, <1>9 DEF NotYet
  <2>2. QED
    BY <1>9 DEF Inv, NotYet
<1>13. QED
  BY <1>4, <1>5, <1>6, <1>7, <1>10, <1>11, <1>12 DEF Inv

-----------------------------------------------------------------------------
(* The theorems.                                                           *)

\* Every step of the call keeps the loop invariants.
LEMMA NextInv == Inv /\ [Next]_vars => Inv'
<1>1. SUFFICES ASSUME Inv, [Next]_vars PROVE Inv'
  OBVIOUS
<1>2. CASE FloorStep
  BY <1>1, <1>2, FloorStepInv
<1>3. CASE TargetStep
  BY <1>1, <1>3, TargetStepInv
<1>4. CASE OpportunisticStep
  BY <1>1, <1>4, OpportunisticStepInv
<1>5. CASE OverflowStep
  BY <1>1, <1>5, OverflowStepInv
<1>6. CASE Call \/ FloorsDone \/ TargetsDone \/ OpportunisticDone \/ OverflowDone
  BY <1>1, <1>6, QuietInv
<1>7. CASE UNCHANGED vars
  BY <1>1, <1>7
  DEF vars, Inv, TypeOK, FloorLoop, TargetLoop, OpportunisticLoop, OverflowLoop,
      NotYet, Room, EveryReplicaAccountedFor, Placed, CeilingHonoured,
      CascadeOrder, DeclaredShareFirst, FreeCapacityFirst, Through, Declares,
      Want, Bound
<1>8. QED
  BY <1>1, <1>2, <1>3, <1>4, <1>5, <1>6, <1>7 DEF Next

\* The loop invariants hold throughout every call.
THEOREM Invariance == Spec => []Inv
BY InitInv, NextInv, PTL DEF Spec

\* Every variable of ComputeGroupTargets keeps its type; in particular no
\* target and no remainder ever goes negative.
THEOREM TypeCorrect == Spec => []TypeOK
<1>1. Inv => TypeOK
  BY DEF Inv
<1>2. QED
  BY <1>1, Invariance, PTL

\* Targets and unplaced replicas always add up to spec.replicas.
THEOREM NothingLost == Spec => []EveryReplicaAccountedFor
<1>1. Inv => EveryReplicaAccountedFor
  BY DEF Inv
<1>2. QED
  BY <1>1, Invariance, PTL

\* No bounded group is ever pushed past its ceiling.
THEOREM CeilingsHold == Spec => []CeilingHonoured
<1>1. Inv => CeilingHonoured
  BY DEF Inv
<1>2. QED
  BY <1>1, Invariance, PTL

\* No group holds a replica while an earlier one is short of its min.
THEOREM CascadeHolds == Spec => []CascadeOrder
<1>1. Inv => CascadeOrder
  BY DEF Inv
<1>2. QED
  BY <1>1, Invariance, PTL

\* No group without a percentage outgrows its min before all are met.
THEOREM DeclaredSharesFirst == Spec => []DeclaredShareFirst
<1>1. Inv => DeclaredShareFirst
  BY DEF Inv
<1>2. QED
  BY <1>1, Invariance, PTL

\* Free capacity is used up before any other group absorbs overflow.
THEOREM FreeBeforePaid == Spec => []FreeCapacityFirst
<1>1. Inv => FreeCapacityFirst
  BY DEF Inv
<1>2. QED
  BY <1>1, Invariance, PTL

\* A replica stays unplaced only when every group is full.
THEOREM UnplacedMeansFull == Spec => []UnplacedOnlyAtCeilings
<1>1. Inv => UnplacedOnlyAtCeilings
  BY DEF Inv, UnplacedOnlyAtCeilings, OverflowLoop, OpportunisticLoop, Through,
         IsBounded
<1>2. QED
  BY <1>1, Invariance, PTL

-----------------------------------------------------------------------------
(* The loops compute ComputeGroupTargets.  While loop p runs, the locals    *)
(* are a state of p's run from what the loops before it return; a loop that *)
(* is left early has nothing remaining, and neither it nor any loop after   *)
(* it would have changed anything.                                          *)

\* The locals, and what loop p makes of a state.
Locals   == [targets |-> targets, remaining |-> remaining]
Do(p, st) == Loop(p, total, groups, observed, st)

\* What each loop starts from, and what the last one returns.
Entry1 == Zero(total, groups)
Entry2 == Do(1, Entry1)
Entry3 == Do(2, Entry2)
Entry4 == Do(3, Entry3)
Result == Do(4, Entry4)

\* The locals are what loop p, started in start, has before iteration k.
At(p, start, k) ==
    \E f : /\ Run(p, total, groups, observed, f)
           /\ f[0] = start /\ f[N] = Do(p, start)
           /\ f[k - 1] = Locals

Follows ==
    /\ phase = "call" => Locals = Entry1 /\ degraded = FALSE
    /\ phase = "floors" => At(1, Entry1, i)
    /\ phase = "targets" => At(2, Entry2, i)
    /\ phase = "opportunistic" => At(3, Entry3, i)
    /\ phase = "overflow" => At(4, Entry4, i)
    /\ phase = "done" => /\ Locals = Result
                         /\ degraded = checkTargetDegraded(total, targets, groups)

\* The variables are what the function is called with.
LEMMA CallArguments ==
    ASSUME TypeOK
    PROVE  /\ Arguments(total, groups, observed) /\ Len(groups) = N /\ N \in Nat
           /\ Locals \in State(N)
<1>1. groups \in Seq(Scaling) /\ Len(groups) = N /\ N \in Nat
  BY NAssumption DEF TypeOK, Group
<1>2. QED
  BY <1>1 DEF TypeOK, Group, Arguments, State, Locals

\* A loop returns a state, and the state it started from if nothing remained.
LEMMA DoFacts ==
    ASSUME TypeOK, NEW p \in 1 .. 4, NEW st \in State(N)
    PROVE  Do(p, st) \in State(N) /\ (st.remaining = 0 => Do(p, st) = st)
<1>1. Leads(p, total, groups, observed, st, Do(p, st))
  BY CallArguments, LoopLeads DEF Do
<1>2. QED
  BY <1>1, CallArguments DEF Leads

\* All entries are states.
LEMMA EntryTypes ==
    ASSUME TypeOK
    PROVE  /\ Entry1 \in State(N) /\ Entry2 \in State(N) /\ Entry3 \in State(N)
           /\ Entry4 \in State(N) /\ Result \in State(N)
<1>1. Entry1 \in State(N)
  BY CallArguments DEF Entry1, Zero, State, Arguments
<1>2. Entry2 \in State(N)
  BY <1>1, DoFacts DEF Entry2
<1>3. Entry3 \in State(N)
  BY <1>2, DoFacts DEF Entry3
<1>4. Entry4 \in State(N)
  BY <1>3, DoFacts DEF Entry4
<1>5. QED
  BY <1>1, <1>2, <1>3, <1>4, DoFacts DEF Result

\* A loop begins where the one before it ended.
LEMMA AtStart ==
    ASSUME TypeOK, NEW p \in 1 .. 4, NEW start \in State(N), Locals = start
    PROVE  At(p, start, 1)
<1>1. \E f : /\ Run(p, total, groups, observed, f)
             /\ f[0] = start /\ f[N] = Loop(p, total, groups, observed, start)
  BY CallArguments, LoopRuns
<1>2. QED
  BY <1>1 DEF At, Do

\* It has returned when its last iteration is over or nothing remains.
LEMMA AtEnd ==
    ASSUME TypeOK, NEW p \in 1 .. 4, NEW start, At(p, start, i), i > N \/ remaining = 0
    PROVE  Locals = Do(p, start)
<1>1. PICK f : /\ Run(p, total, groups, observed, f)
               /\ f[0] = start /\ f[N] = Do(p, start)
               /\ f[i - 1] = Locals
  BY DEF At
<1>2. CASE i > N
  <2>1. i - 1 = N
    BY <1>2, NAssumption DEF TypeOK
  <2>2. QED
    BY <1>1, <2>1
<1>3. CASE remaining = 0
  <2>1. i - 1 \in 0 .. Len(groups) /\ f[i - 1].remaining = 0
    BY <1>1, <1>3, CallArguments, NAssumption DEF TypeOK, Locals
  <2>2. f[Len(groups)] = f[i - 1]
    BY <1>1, <2>1, CallArguments, RunRests
  <2>3. QED
    BY <1>1, <2>2, CallArguments
<1>4. QED
  BY <1>2, <1>3

\* One iteration follows the run.
LEMMA AtStep ==
    ASSUME TypeOK, NEW p \in 1 .. 4, NEW start, At(p, start, i), i <= N,
           Locals' = TopUp(Locals, i, Asks(p, total, groups[i], observed[i], targets[i], remaining))
    PROVE  \E f : /\ Run(p, total, groups, observed, f)
                  /\ f[0] = start /\ f[N] = Do(p, start)
                  /\ f[i] = Locals'
                  /\ remaining' = 0 => f[N] = Locals'
<1>1. PICK f : /\ Run(p, total, groups, observed, f)
               /\ f[0] = start /\ f[N] = Do(p, start)
               /\ f[i - 1] = Locals
  BY DEF At
<1>2. i \in 1 .. Len(groups) /\ i \in 0 .. Len(groups)
  BY CallArguments DEF TypeOK
<1>3. f[i] = Locals'
  BY <1>1, <1>2 DEF Run, Locals
<1>4. ASSUME remaining' = 0 PROVE f[N] = Locals'
  <2>1. f[i].remaining = 0
    BY <1>3, <1>4 DEF Locals
  <2>2. f[Len(groups)] = f[i]
    BY <1>1, <1>2, <2>1, CallArguments, RunRests
  <2>3. QED
    BY <1>3, <2>2, CallArguments
<1>5. QED
  BY <1>1, <1>3, <1>4
\* The entries depend on the arguments alone.
LEMMA EntriesKept ==
    ASSUME UNCHANGED args
    PROVE  /\ Entry1' = Entry1 /\ Entry2' = Entry2 /\ Entry3' = Entry3
           /\ Entry4' = Entry4 /\ Result' = Result
           /\ total' = total /\ groups' = groups /\ observed' = observed
BY DEF args, Entry1, Entry2, Entry3, Entry4, Result, Do

\* The step of loop p as the next state sees it.
LEMMA AtNext ==
    ASSUME TypeOK, UNCHANGED args, NEW p \in 1 .. 4, NEW start, At(p, start, i), i <= N,
           Locals' = TopUp(Locals, i, Asks(p, total, groups[i], observed[i], targets[i], remaining)),
           i' = i + 1 \/ (i' = N + 1 /\ remaining' = 0)
    PROVE  \E f : /\ Run(p, total', groups', observed', f)
                  /\ f[0] = start /\ f[N] = Loop(p, total', groups', observed', start)
                  /\ f[i' - 1] = Locals'
<1>1. PICK f : /\ Run(p, total, groups, observed, f)
               /\ f[0] = start /\ f[N] = Do(p, start)
               /\ f[i] = Locals'
               /\ remaining' = 0 => f[N] = Locals'
  BY AtStep
<1>2. f[i' - 1] = Locals'
  BY <1>1, NAssumption DEF TypeOK
<1>3. total' = total /\ groups' = groups /\ observed' = observed
  BY DEF args
<1>4. QED
  BY <1>1, <1>2, <1>3 DEF Do

\* Place is TopUp.
LEMMA PlaceTopsUp ==
    ASSUME NEW k, NEW want, Place(k, want)
    PROVE  Locals' = TopUp(Locals, k, want)
BY DEF Place, Locals, TopUp

\* Topping up to nothing, or to less than what is held, changes nothing.
LEMMA TopUpNothing ==
    ASSUME TypeOK, NEW k \in Group
    PROVE  TopUp(Locals, k, 0) = Locals
<1>1. targets \in [Group -> Nat] /\ remaining \in Nat
  BY DEF TypeOK
<1>2. Share(0 - targets[k], remaining) = 0
  BY <1>1 DEF Share
<1>3. [targets EXCEPT ![k] = @ + 0] = targets
  BY <1>1
<1>4. QED
  BY <1>1, <1>2, <1>3 DEF TopUp, Locals

\* The iterations of the first loop are those of Loop.
LEMMA FloorStepFollows == TypeOK /\ Follows /\ FloorStep => Follows'
<1> SUFFICES ASSUME TypeOK, Follows, FloorStep PROVE Follows'
  OBVIOUS
<1>1. /\ UNCHANGED args /\ phase = "floors" /\ phase' = "floors" /\ i <= N /\ i' = i + 1
      /\ At(1, Entry1, i)
  BY DEF FloorStep, Follows
<1>2. Locals' = TopUp(Locals, i, Asks(1, total, groups[i], observed[i], targets[i], remaining))
  BY PlaceTopsUp DEF FloorStep, Asks
<1>3. (At(1, Entry1, i))'
  BY <1>1, <1>2, AtNext, EntriesKept DEF At, Do
<1>4. QED
  BY <1>1, <1>3 DEF Follows

\* Those of the second; a break comes when nothing remains.
LEMMA TargetStepFollows == TypeOK /\ Inv /\ Follows /\ TargetStep => Follows'
<1> SUFFICES ASSUME TypeOK, Inv, Follows, TargetStep PROVE Follows'
  OBVIOUS
<1>1. /\ UNCHANGED args /\ phase = "targets" /\ phase' = "targets" /\ i <= N
      /\ At(2, Entry2, i) /\ i \in Group
  BY DEF TargetStep, Follows, TypeOK, Group
<1>2. Locals' = TopUp(Locals, i, Asks(2, total, groups[i], observed[i], targets[i], remaining))
  <2>1. CASE TargetReadable(groups[i])
    <3>1. Place(i, GroupTarget(total, groups[i]))
      BY <2>1 DEF TargetStep
    <3>2. QED
      BY <2>1, <3>1, PlaceTopsUp DEF Asks
  <2>2. CASE ~TargetReadable(groups[i])
    <3>1. Locals' = Locals
      BY <2>2 DEF TargetStep, Locals
    <3>2. QED
      BY <1>1, <2>2, <3>1, TopUpNothing DEF Asks
  <2>3. QED
    BY <2>1, <2>2
<1>3. i' = i + 1 \/ (i' = N + 1 /\ remaining' = 0)
  <2>1. remaining' \in Nat
    BY TargetStepInv DEF Inv, TypeOK
  <2>2. QED
    BY <2>1 DEF TargetStep
<1>4. (At(2, Entry2, i))'
  BY <1>1, <1>2, <1>3, AtNext, EntriesKept DEF At, Do
<1>5. QED
  BY <1>1, <1>4 DEF Follows

\* Those of the third.
LEMMA OpportunisticStepFollows == TypeOK /\ Follows /\ OpportunisticStep => Follows'
<1> SUFFICES ASSUME TypeOK, Follows, OpportunisticStep PROVE Follows'
  OBVIOUS
<1>1. /\ UNCHANGED args /\ phase = "opportunistic" /\ phase' = "opportunistic" /\ i <= N
      /\ At(3, Entry3, i) /\ i \in Group /\ i' = i + 1
  BY DEF OpportunisticStep, Follows, TypeOK, Group
<1>2. Locals' = TopUp(Locals, i, Asks(3, total, groups[i], observed[i], targets[i], remaining))
  <2>1. CASE IsOpportunistic(groups[i])
    <3>1. Place(i, IF observed[i] = Nil THEN remaining ELSE observed[i])
      BY <2>1 DEF OpportunisticStep
    <3>2. QED
      BY <2>1, <3>1, PlaceTopsUp DEF Asks
  <2>2. CASE ~IsOpportunistic(groups[i])
    <3>1. Locals' = Locals
      BY <2>2 DEF OpportunisticStep, Locals
    <3>2. QED
      BY <1>1, <2>2, <3>1, TopUpNothing DEF Asks
  <2>3. QED
    BY <2>1, <2>2
<1>3. (At(3, Entry3, i))'
  BY <1>1, <1>2, AtNext, EntriesKept DEF At, Do
<1>4. QED
  BY <1>1, <1>3 DEF Follows

\* Those of the last.
LEMMA OverflowStepFollows == TypeOK /\ Follows /\ OverflowStep => Follows'
<1> SUFFICES ASSUME TypeOK, Follows, OverflowStep PROVE Follows'
  OBVIOUS
<1>1. /\ UNCHANGED args /\ phase = "overflow" /\ phase' = "overflow" /\ i <= N
      /\ At(4, Entry4, i) /\ i \in Group /\ i' = i + 1
  BY DEF OverflowStep, Follows, TypeOK, Group
<1>2. Locals' = TopUp(Locals, i, Asks(4, total, groups[i], observed[i], targets[i], remaining))
  <2>1. CASE IsOpportunistic(groups[i])
    <3>1. Locals' = Locals
      BY <2>1 DEF OverflowStep, Locals
    <3>2. QED
      BY <1>1, <2>1, <3>1, TopUpNothing DEF Asks
  <2>2. CASE ~IsOpportunistic(groups[i]) /\ ~hasStaticCeiling(groups[i])
    <3>1. targets' = [targets EXCEPT ![i] = targets[i] + remaining] /\ remaining' = 0
      BY <2>2 DEF OverflowStep
    <3>2. /\ Share((targets[i] + remaining) - targets[i], remaining) = remaining
          /\ remaining - remaining = 0
      BY <1>1 DEF TypeOK, Share, Lesser
    <3>3. QED
      BY <2>2, <3>1, <3>2 DEF Asks, TopUp, Locals
  <2>3. CASE ~IsOpportunistic(groups[i]) /\ hasStaticCeiling(groups[i])
    <3>1. Place(i, GroupCeiling(total, groups[i]))
      BY <2>3 DEF OverflowStep
    <3>2. QED
      BY <2>3, <3>1, PlaceTopsUp DEF Asks
  <2>4. QED
    BY <2>1, <2>2, <2>3
<1>3. (At(4, Entry4, i))'
  BY <1>1, <1>2, AtNext, EntriesKept DEF At, Do
<1>4. QED
  BY <1>1, <1>3 DEF Follows
\* Entering a loop.
LEMMA EnterFollows ==
    ASSUME TypeOK, UNCHANGED <<args, targets, remaining>>, i' = 1,
           NEW p \in 1 .. 4, NEW start \in State(N), Locals = start
    PROVE  \E f : /\ Run(p, total', groups', observed', f)
                  /\ f[0] = start /\ f[N] = Loop(p, total', groups', observed', start)
                  /\ f[i' - 1] = Locals'
<1>1. At(p, start, 1)
  BY AtStart
<1>2. Locals' = Locals /\ total' = total /\ groups' = groups /\ observed' = observed
  BY DEF Locals, args
<1>3. QED
  BY <1>1, <1>2 DEF At, Do

\* Between the loops.
LEMMA QuietFollows ==
    ASSUME Inv, Follows, Call \/ FloorsDone \/ TargetsDone \/ OpportunisticDone \/ OverflowDone
    PROVE  Follows'
<1>1. /\ UNCHANGED <<args, targets, remaining>> /\ i' = 1 /\ Locals' = Locals
      /\ TypeOK /\ remaining \in Nat /\ total \in Nat /\ UNCHANGED args
      /\ total = 0 => remaining = 0
  BY NAssumption
  DEF Call, FloorsDone, TargetsDone, OpportunisticDone, OverflowDone, Enter, Return,
      Locals, Inv, TypeOK, Room, Group
<1>2. /\ checkTargetDegraded(total, targets, groups)' = checkTargetDegraded(total, targets, groups)
      /\ total = 0 => checkTargetDegraded(total, targets, groups) = FALSE
  BY <1>1 DEF checkTargetDegraded, args
<1>3. /\ Entry1' = Entry1 /\ Entry2' = Entry2 /\ Entry3' = Entry3
      /\ Entry4' = Entry4 /\ Result' = Result
  BY <1>1, EntriesKept
<1>4. /\ Entry1 \in State(N) /\ Entry2 \in State(N) /\ Entry3 \in State(N)
      /\ Entry4 \in State(N)
  BY <1>1, EntryTypes
<1>5. Locals.remaining = remaining
  BY DEF Locals
<1>6. CASE phase' = "floors"
  <2>1. Locals = Entry1
    BY <1>6 DEF Call, FloorsDone, TargetsDone, OpportunisticDone, OverflowDone, Enter, Return, Follows
  <2>2. (At(1, Entry1, i))'
    BY <1>1, <1>3, <1>4, <2>1, EnterFollows DEF At, Do
  <2>3. QED
    BY <1>6, <2>2 DEF Follows
<1>7. CASE phase' = "targets"
  <2>1. phase = "floors" /\ i > N
    BY <1>7 DEF Call, FloorsDone, TargetsDone, OpportunisticDone, OverflowDone, Enter, Return
  <2>2. Locals = Entry2
    BY <1>1, <2>1, AtEnd DEF Follows, Entry2
  <2>3. (At(2, Entry2, i))'
    BY <1>1, <1>3, <1>4, <2>2, EnterFollows DEF At, Do
  <2>4. QED
    BY <1>7, <2>3 DEF Follows
<1>8. CASE phase' = "opportunistic"
  <2>1. phase = "targets" /\ i > N
    BY <1>8 DEF Call, FloorsDone, TargetsDone, OpportunisticDone, OverflowDone, Enter, Return
  <2>2. Locals = Entry3
    BY <1>1, <2>1, AtEnd DEF Follows, Entry3
  <2>3. (At(3, Entry3, i))'
    BY <1>1, <1>3, <1>4, <2>2, EnterFollows DEF At, Do
  <2>4. QED
    BY <1>8, <2>3 DEF Follows
<1>9. CASE phase' = "overflow"
  <2>1. phase = "opportunistic" /\ (i > N \/ remaining = 0)
    BY <1>1, <1>9 DEF Call, FloorsDone, TargetsDone, OpportunisticDone, OverflowDone, Enter, Return
  <2>2. Locals = Entry4
    BY <1>1, <2>1, AtEnd DEF Follows, Entry4
  <2>3. (At(4, Entry4, i))'
    BY <1>1, <1>3, <1>4, <2>2, EnterFollows DEF At, Do
  <2>4. QED
    BY <1>9, <2>3 DEF Follows
<1>10. CASE phase' = "done"
  <2>1. Locals = Result
    <3>1. CASE phase = "overflow"
      <4>1. i > N \/ remaining = 0
        BY <1>1, <3>1 DEF Call, FloorsDone, TargetsDone, OpportunisticDone, OverflowDone
      <4>2. QED
        BY <1>1, <3>1, <4>1, AtEnd DEF Follows, Result
    <3>2. CASE phase = "floors"
      <4>1. i > N /\ remaining = 0
        BY <1>1, <1>10, <3>2 DEF Call, FloorsDone, TargetsDone, OpportunisticDone,
           OverflowDone, Enter, Return
      <4>2. Locals = Entry2
        BY <1>1, <3>2, <4>1, AtEnd DEF Follows, Entry2
      <4>3. Entry3 = Entry2
        BY <1>1, <1>4, <1>5, <4>1, <4>2, DoFacts DEF Entry3
      <4>4. Entry4 = Entry3
        BY <1>1, <1>4, <1>5, <4>1, <4>2, <4>3, DoFacts DEF Entry4
      <4>5. Result = Entry4
        BY <1>1, <1>4, <1>5, <4>1, <4>2, <4>3, <4>4, DoFacts DEF Result
      <4>6. QED
        BY <4>2, <4>3, <4>4, <4>5
    <3>3. CASE phase = "call"
      <4>1. remaining = 0 /\ Locals = Entry1
        BY <1>1, <1>10, <3>3 DEF Call, FloorsDone, TargetsDone, OpportunisticDone,
           OverflowDone, Enter, Return, Follows
      <4>2. Entry2 = Entry1
        BY <1>1, <1>4, <1>5, <4>1, DoFacts DEF Entry2
      <4>3. Entry3 = Entry2
        BY <1>1, <1>4, <1>5, <4>1, <4>2, DoFacts DEF Entry3
      <4>4. Entry4 = Entry3
        BY <1>1, <1>4, <1>5, <4>1, <4>2, <4>3, DoFacts DEF Entry4
      <4>5. Result = Entry4
        BY <1>1, <1>4, <1>5, <4>1, <4>2, <4>3, <4>4, DoFacts DEF Result
      <4>6. QED
        BY <4>1, <4>2, <4>3, <4>4, <4>5
    <3>4. QED
      BY <1>10, <3>1, <3>2, <3>3 DEF Call, FloorsDone, TargetsDone, OpportunisticDone,
         OverflowDone, Enter, Return
  <2>2. degraded' = checkTargetDegraded(total, targets, groups)
    <3>1. CASE phase = "call"
      <4>1. total = 0 /\ degraded' = FALSE
        BY <1>1, <1>10, <3>1 DEF Call, FloorsDone, TargetsDone, OpportunisticDone,
           OverflowDone, Enter, Return, Follows
      <4>2. QED
        BY <1>2, <4>1
    <3>2. CASE phase # "call"
      BY <1>10, <3>2 DEF Call, FloorsDone, TargetsDone, OpportunisticDone,
         OverflowDone, Enter, Return
    <3>3. QED
      BY <3>1, <3>2
  <2>3. QED
    BY <1>1, <1>2, <1>3, <1>10, <2>1, <2>2 DEF Follows
<1>11. QED
  BY <1>6, <1>7, <1>8, <1>9, <1>10
  DEF Call, FloorsDone, TargetsDone, OpportunisticDone, OverflowDone, Enter, Return

\* The function is the four loops in a row.
LEMMA FunctionIsResult ==
    ASSUME TypeOK
    PROVE  ComputeGroupTargets(total, groups, observed) =
              [Targets |-> Result.targets, Unplaced |-> Result.remaining,
               TargetDegraded |-> checkTargetDegraded(total, Result.targets, groups)]
<1>1. groups \in Seq(Scaling) /\ total \in Nat
  BY CallArguments DEF Arguments
<1>2. Entry1 = [targets |-> [k \in DOMAIN groups |-> 0],
                remaining |-> IF total <= 0 THEN 0 ELSE total]
  BY <1>1 DEF Entry1, Zero
<1>3. QED
  BY <1>2 DEF ComputeGroupTargets, Result, Entry4, Entry3, Entry2, Do

\* The loops, with their breaks and early returns, return what the function
\* ComputeGroupTargets of the other modules is defined to be, for every pool.
THEOREM LoopsComputeTheFunction == Spec => []ComputesTheFunction
<1>1. Init => Follows
  <2>1. SUFFICES ASSUME Init PROVE Follows
    OBVIOUS
  <2>2. groups \in Seq(Scaling) /\ Len(groups) = N
    BY <2>1, InitInv, CallArguments DEF Inv, Arguments
  <2>3. QED
    BY <2>1, <2>2 DEF Init, Follows, Locals, Entry1, Zero, Group
<1>2. Inv /\ Follows /\ [Next]_vars => Follows'
  <2> SUFFICES ASSUME Inv, Follows, [Next]_vars PROVE Follows'
    OBVIOUS
  <2>1. TypeOK
    BY DEF Inv
  <2>2. CASE UNCHANGED vars
    <3>1. /\ UNCHANGED args /\ Locals' = Locals
          /\ phase' = phase /\ i' = i /\ degraded' = degraded /\ targets' = targets
      BY <2>2 DEF vars, args, Locals
    <3>2. QED
      BY <3>1, EntriesKept DEF Follows, At, Do
  <2>3. QED
    BY <2>1, <2>2, FloorStepFollows, TargetStepFollows, OpportunisticStepFollows,
       OverflowStepFollows, QuietFollows DEF Next
<1>3. Inv /\ Follows => ComputesTheFunction
  <2> SUFFICES ASSUME Inv, Follows, phase = "done"
               PROVE  ComputeGroupTargets(total, groups, observed) =
                         [Targets |-> targets, Unplaced |-> remaining, TargetDegraded |-> degraded]
    BY DEF ComputesTheFunction
  <2>3. ComputeGroupTargets(total, groups, observed) =
           [Targets |-> Result.targets, Unplaced |-> Result.remaining,
            TargetDegraded |-> checkTargetDegraded(total, Result.targets, groups)]
    BY FunctionIsResult DEF Inv
  <2>4. QED
    BY <2>3 DEF Follows, Locals
<1>4. QED
  BY <1>1, <1>2, <1>3, Invariance, PTL DEF Spec


-----------------------------------------------------------------------------
(* The second sink.                                                        *)

\* An unbounded group is topped up by the first loop and by the last only.
LEMMA UnboundedFacts ==
    ASSUME NEW k \in Group, ~IsBounded(groups[k])
    PROVE  /\ ~IsOpportunistic(groups[k]) /\ ~hasStaticCeiling(groups[k])
           /\ ~TargetReadable(groups[k])
BY DEF IsBounded, hasStaticCeiling, TargetReadable, Nil

\* The overflow loop passes an unbounded group only with nothing left.
LEMMA SecondSinkKept ==
    ASSUME Inv, Inv', SecondSinkIdle, [Next]_vars
    PROVE  SecondSinkIdle'
<1>1. UNCHANGED args
  BY DEF Next, vars, args, Call, FloorStep, FloorsDone, TargetStep, TargetsDone,
         OpportunisticStep, OpportunisticDone, OverflowStep, OverflowDone, Enter, Return
<1>2. groups' = groups
  BY <1>1 DEF args
<1>3. SUFFICES ASSUME NEW a \in Group, NEW b \in Group, a < b,
                      ~IsBounded(groups[a]), ~IsBounded(groups[b])
               PROVE  targets'[b] <= GroupFloor(groups[b])
  BY <1>2 DEF SecondSinkIdle
<1>4. /\ targets[b] <= GroupFloor(groups[b])
      /\ targets \in [Group -> Nat]
  BY <1>3 DEF SecondSinkIdle, Inv, TypeOK
<1>5. CASE FloorStep
  BY <1>2, <1>3, <1>5 DEF FloorStep, Inv, NotYet
<1>6. CASE TargetStep
  <2>1. i # b => targets'[b] = targets[b]
    BY <1>3, <1>4, <1>6 DEF TargetStep, Place
  <2>2. i = b => targets' = targets
    BY <1>3, <1>6, UnboundedFacts DEF TargetStep
  <2>3. QED
    BY <1>4, <2>1, <2>2
<1>7. CASE OpportunisticStep
  <2>1. i # b => targets'[b] = targets[b]
    BY <1>3, <1>4, <1>7 DEF OpportunisticStep, Place
  <2>2. i = b => targets' = targets
    BY <1>3, <1>7, UnboundedFacts DEF OpportunisticStep
  <2>3. QED
    BY <1>4, <2>1, <2>2
<1>8. CASE OverflowStep
  <2>1. i # b
    BY <1>3, <1>8, UnboundedFacts DEF OverflowStep, Inv, OverflowLoop, Through
  <2>2. targets'[b] = targets[b]
    BY <1>3, <1>4, <1>8, <2>1 DEF OverflowStep, Place
  <2>3. QED
    BY <1>4, <2>2
<1>9. CASE Call \/ FloorsDone \/ TargetsDone \/ OpportunisticDone \/ OverflowDone
           \/ UNCHANGED vars
  BY <1>4, <1>9 DEF Call, FloorsDone, TargetsDone, OpportunisticDone, OverflowDone,
                    Enter, Return, vars
<1>10. QED
  BY <1>5, <1>6, <1>7, <1>8, <1>9 DEF Next

\* "Any later unbounded group receives zero overflow at every scale": what
\* validateOverflowSink tells the user holds for every pool.
THEOREM SecondSinkGetsNothing == Spec => []SecondSinkIdle
<1>1. Init => SecondSinkIdle
  <2>1. SUFFICES ASSUME Init PROVE SecondSinkIdle
    OBVIOUS
  <2>2. TypeOK
    BY <2>1, InitInv DEF Inv
  <2>3. \A k \in Group : targets[k] = 0 /\ GroupFloor(groups[k]) \in Nat
    BY <2>1, <2>2, BoundFacts DEF Init
  <2>4. QED
    BY <2>3 DEF SecondSinkIdle
<1>2. QED
  BY <1>1, SecondSinkKept, NextInv, Invariance, PTL DEF Spec

-----------------------------------------------------------------------------
(* The refinement.                                                         *)

\* The claims of a call are fixed by its arguments and are natural numbers.
LEMMA ClaimFacts ==
    ASSUME TypeOK, NEW c \in 1 .. 4, NEW k \in Group
    PROVE  /\ Claimed(c, k) \in Nat
           /\ UNCHANGED args => Claimed(c, k)' = Claimed(c, k)
<1>1. /\ GroupFloor(groups[k]) \in Nat /\ GroupCeiling(total, groups[k]) \in Nat
      /\ Declares(k) => Want(k) \in Nat
      /\ total \in Nat /\ observed[k] \in Nat \cup {Nil}
  BY BoundFacts DEF TypeOK
<1>2. c = 1 \/ c = 2 \/ c = 3 \/ c = 4
  OBVIOUS
<1>3. Claimed(c, k) \in Nat
  BY <1>1, <1>2 DEF Claimed
<1>4. UNCHANGED args => Claimed(c, k)' = Claimed(c, k)
  <2>1. SUFFICES ASSUME UNCHANGED args PROVE Claimed(c, k)' = Claimed(c, k)
    OBVIOUS
  <2>2. /\ total' = total /\ groups' = groups /\ observed' = observed
        /\ Declares(k)' = Declares(k) /\ Want(k)' = Want(k)
    BY <2>1, Frame
  <2>3. QED
    BY <1>2, <2>2 DEF Claimed
<1>5. QED
  BY <1>3, <1>4

\* In the vocabulary of the loops: claim c of group k has nothing to wait for.
Content(c, k) ==
    \/ targets[k] >= Claimed(c, k)
    \/ c = 3 /\ IsOpportunistic(groups[k]) /\ observed[k] = Nil

\* An iteration that hands replicas over is a grant if they are claimed and
\* no earlier claim waits; one that hands over nothing is a stutter.
LEMMA HandsGrants ==
    ASSUME Inv, NEW c \in 1 .. 4, NEW k \in Group, NEW give \in Nat, Hands(k, give),
           phase # "done", phase' = phase,
           give > 0 => targets[k] + give <= Claimed(c, k),
           give > 0 => \A d \in 1 .. 4, j \in Group :
                          d < c \/ (d = c /\ j < k) => Content(d, j)
    PROVE  [A!AllocationNext]_(A!allocation)
<1> DEFINE claim == [d \in 1 .. 4 |-> [j \in Group |-> Claimed(d, j)]]
           unsized == {j \in Group : IsOpportunistic(groups[j]) /\ observed[j] = Nil}
<1>1. /\ TypeOK /\ UNCHANGED args /\ give <= remaining
      /\ targets \in [Group -> Nat] /\ remaining \in Nat
      /\ targets' = [targets EXCEPT ![k] = targets[k] + give]
      /\ remaining' = remaining - give
  BY DEF Inv, TypeOK, Hands
<1>2. claim' = claim /\ unsized' = unsized
  <2>1. groups' = groups /\ observed' = observed
    BY <1>1 DEF args
  <2>2. \A d \in 1 .. 4, j \in Group : Claimed(d, j)' = Claimed(d, j)
    BY <1>1, ClaimFacts
  <2>3. QED
    BY <2>1, <2>2
<1>3. CASE give = 0
  <2>1. targets' = targets /\ remaining' = remaining
    BY <1>1, <1>3
  <2>2. QED
    BY <1>2, <2>1 DEF A!allocation
<1>4. CASE give > 0
  <2>1. \A d \in 1 .. 4, j \in Group : claim[d][j] = Claimed(d, j)
    OBVIOUS
  <2>2. \A d \in 1 .. 4, j \in Group : A!Before(d, j, c, k) => A!Satisfied(d, j)
    BY <1>4, <2>1 DEF A!Before, A!Satisfied, A!Free, Content
  <2>3. A!Grant(c, k, give)
    BY <1>1, <1>2, <1>4, <2>1, <2>2 DEF A!Grant, A!Class, A!Claimant, Group
  <2>4. give \in 1 .. remaining
    BY <1>1, <1>4
  <2>5. QED
    BY <2>3, <2>4 DEF A!AllocationNext, A!Class, A!Claimant, Group
<1>5. QED
  BY <1>3, <1>4

\* Leaving a loop is a stutter, and returning settles the allocation.
LEMMA QuietAllocates ==
    ASSUME Inv, \/ Call \/ FloorsDone \/ TargetsDone \/ OpportunisticDone
                \/ OverflowDone \/ UNCHANGED vars
    PROVE  [A!AllocationNext]_(A!allocation)
<1> DEFINE claim == [d \in 1 .. 4 |-> [j \in Group |-> Claimed(d, j)]]
           unsized == {j \in Group : IsOpportunistic(groups[j]) /\ observed[j] = Nil}
<1>1. /\ TypeOK /\ UNCHANGED args /\ targets' = targets /\ remaining' = remaining
  BY DEF Inv, Call, FloorsDone, TargetsDone, OpportunisticDone, OverflowDone,
         Enter, Return, vars, args
<1>2. claim' = claim /\ unsized' = unsized
  <2>1. groups' = groups /\ observed' = observed
    BY <1>1 DEF args
  <2>2. \A d \in 1 .. 4, j \in Group : Claimed(d, j)' = Claimed(d, j)
    BY <1>1, ClaimFacts
  <2>3. QED
    BY <2>1, <2>2
<1>3. CASE phase' = "done" /\ phase # "done"
  <2>1. remaining = 0 \/ \A d \in 1 .. 4, j \in Group : Content(d, j)
    <3>1. SUFFICES ASSUME remaining # 0, NEW d \in 1 .. 4, NEW j \in Group
                   PROVE  Content(d, j)
      OBVIOUS
    <3>2. /\ remaining \in Nat /\ remaining > 0
          /\ total \in Nat /\ total > 0
      BY <3>1 DEF Inv, TypeOK, Room
    <3>3. phase = "overflow" /\ i > N
      BY <1>3, <3>2, SMT DEF Call, FloorsDone, TargetsDone, OpportunisticDone, OverflowDone,
                        Enter, Return, vars
    <3>4. j < i /\ targets[j] \in Nat
      BY <3>3, NAssumption DEF Inv, TypeOK, Group
    <3>5. /\ targets[j] >= GroupFloor(groups[j])
          /\ Declares(j) => targets[j] >= Want(j)
          /\ IsOpportunistic(groups[j]) => targets[j] >= observed[j]
          /\ ~IsOpportunistic(groups[j]) =>
                /\ hasStaticCeiling(groups[j])
                /\ targets[j] >= GroupCeiling(total, groups[j])
      BY <3>2, <3>3, <3>4
      DEF Inv, FloorLoop, TargetLoop, OpportunisticLoop, OverflowLoop, Through
    <3>6. d = 1 \/ d = 2 \/ d = 3 \/ d = 4
      OBVIOUS
    <3>7. QED
      BY <3>4, <3>5, <3>6 DEF Content, Claimed
  <2>2. \A d \in 1 .. 4, j \in Group : Content(d, j) => A!Satisfied(d, j)
    BY DEF Content, A!Satisfied, A!Free
  <2>3. A!Settle
    BY <1>1, <1>2, <1>3, <2>1, <2>2 DEF A!Settle, A!Class, A!Claimant, Group
  <2>4. QED
    BY <2>3 DEF A!AllocationNext
<1>4. CASE (phase' = "done") = (phase = "done")
  BY <1>1, <1>2, <1>4 DEF A!allocation
<1>5. phase = "done" => phase' = "done"
  BY DEF Call, FloorsDone, TargetsDone, OpportunisticDone, OverflowDone, vars
<1>6. QED
  BY <1>3, <1>4, <1>5

\* What Place hands over is claimed, if it is anything.
LEMMA PlaceGrants ==
    ASSUME Inv, NEW c \in 1 .. 4, NEW k \in Group, NEW want \in Int,
           Place(k, want), UNCHANGED args,
           phase # "done", phase' = phase,
           want <= Claimed(c, k),
           remaining > 0 => \A d \in 1 .. 4, j \in Group :
                               d < c \/ (d = c /\ j < k) => Content(d, j)
    PROVE  [A!AllocationNext]_(A!allocation)
<1>1. TypeOK /\ targets[k] \in Nat /\ Claimed(c, k) \in Nat /\ remaining \in Nat
  BY ClaimFacts DEF Inv, TypeOK
<1>2. PICK give \in Nat : /\ Hands(k, give)
                          /\ targets[k] + give <= Greater(targets[k], want)
  BY <1>1, PlaceHands
<1>3. give > 0 => remaining > 0
  BY <1>1, <1>2 DEF Hands
<1>4. give > 0 => targets[k] + give <= Claimed(c, k)
  BY <1>1, <1>2 DEF Greater
<1>5. QED
  BY <1>2, <1>3, <1>4, HandsGrants

\* Phase 1 serves the first class in list order.
LEMMA FloorAllocates == Inv /\ FloorStep => [A!AllocationNext]_(A!allocation)
<1> SUFFICES ASSUME Inv, FloorStep PROVE [A!AllocationNext]_(A!allocation)
  OBVIOUS
<1>1. /\ TypeOK /\ i \in Group /\ phase = "floors" /\ phase' = phase
      /\ UNCHANGED args /\ Place(i, GroupFloor(groups[i]))
  BY IndexInLoop DEF Inv, FloorStep
<1>2. /\ GroupFloor(groups[i]) \in Nat
      /\ \A j \in Group : Claimed(1, j) = GroupFloor(groups[j])
  BY <1>1, BoundFacts DEF Claimed
<1>3. remaining > 0 => \A d \in 1 .. 4, j \in Group :
                          d < 1 \/ (d = 1 /\ j < i) => Content(d, j)
  BY <1>1, <1>2 DEF Inv, FloorLoop, Through, Content
<1>4. QED
  BY <1>1, <1>2, <1>3, PlaceGrants

\* With the floors served, phase 2 serves the second class in list order.
LEMMA TargetAllocates == Inv /\ TargetStep => [A!AllocationNext]_(A!allocation)
<1> SUFFICES ASSUME Inv, TargetStep PROVE [A!AllocationNext]_(A!allocation)
  OBVIOUS
<1>1. /\ TypeOK /\ i \in Group /\ phase = "targets" /\ phase' = phase
      /\ UNCHANGED args
  BY IndexInLoop DEF Inv, TargetStep
<1>2. /\ \A j \in Group : Claimed(1, j) = GroupFloor(groups[j])
      /\ \A j \in Group : Claimed(2, j) = IF Declares(j) THEN Want(j) ELSE 0
      /\ \A j \in Group : targets[j] \in Nat
  BY <1>1 DEF Claimed, TypeOK
<1>3. remaining > 0 => \A d \in 1 .. 4, j \in Group :
                          d < 2 \/ (d = 2 /\ j < i) => Content(d, j)
  <2>1. SUFFICES ASSUME remaining > 0, NEW j \in Group
                 PROVE  Content(1, j) /\ (j < i => Content(2, j))
    OBVIOUS
  <2>2. QED
    BY <1>1, <1>2, <2>1 DEF Inv, FloorLoop, TargetLoop, Through, Content
<1>4. CASE TargetReadable(groups[i])
  <2>1. Place(i, Want(i)) /\ Want(i) \in Nat /\ Claimed(2, i) = Want(i)
    BY <1>1, <1>2, <1>4, BoundFacts DEF TargetStep, Want, Declares
  <2>2. QED
    BY <1>1, <1>3, <2>1, PlaceGrants
<1>5. CASE ~TargetReadable(groups[i])
  <2>1. targets' = targets /\ remaining' = remaining
    BY <1>5 DEF TargetStep
  <2>2. Hands(i, 0)
    BY <1>1, <2>1 DEF Hands, TypeOK
  <2>3. QED
    BY <1>1, <2>2, HandsGrants
<1>6. QED
  BY <1>4, <1>5

\* Phase 3 serves free capacity; a group never sized takes what it takes.
LEMMA OpportunisticAllocates ==
    Inv /\ OpportunisticStep => [A!AllocationNext]_(A!allocation)
<1> SUFFICES ASSUME Inv, OpportunisticStep PROVE [A!AllocationNext]_(A!allocation)
  OBVIOUS
<1>1. /\ TypeOK /\ i \in Group /\ phase = "opportunistic" /\ phase' = phase
      /\ UNCHANGED args /\ remaining > 0
  BY IndexInLoop DEF Inv, OpportunisticStep
<1>2. /\ \A j \in Group : Claimed(1, j) = GroupFloor(groups[j])
      /\ \A j \in Group : Claimed(2, j) = IF Declares(j) THEN Want(j) ELSE 0
      /\ \A j \in Group : Claimed(3, j) =
            IF ~IsOpportunistic(groups[j]) THEN 0
            ELSE IF observed[j] = Nil THEN total ELSE observed[j]
      /\ \A j \in Group : targets[j] \in Nat /\ observed[j] \in Nat \cup {Nil}
      /\ remaining \in Nat /\ total \in Nat /\ remaining <= total
  BY <1>1 DEF Claimed, Inv, TypeOK, Room
<1>3. \A d \in 1 .. 4, j \in Group :
         d < 3 \/ (d = 3 /\ j < i) => Content(d, j)
  <2>1. SUFFICES ASSUME NEW j \in Group
                 PROVE  Content(1, j) /\ Content(2, j) /\ (j < i => Content(3, j))
    OBVIOUS
  <2>2. /\ targets[j] >= GroupFloor(groups[j])
        /\ Declares(j) => targets[j] >= Want(j)
        /\ j < i /\ IsOpportunistic(groups[j]) => targets[j] >= observed[j]
    BY <1>1, <2>1 DEF Inv, FloorLoop, TargetLoop, OpportunisticLoop, Through
  <2>3. QED
    BY <1>2, <2>1, <2>2 DEF Content
<1>4. CASE IsOpportunistic(groups[i])
  <2> DEFINE want == IF observed[i] = Nil THEN remaining ELSE observed[i]
  <2>1. Place(i, want)
    BY <1>4 DEF OpportunisticStep
  <2>2. want \in Int /\ want <= Claimed(3, i)
    BY <1>1, <1>2, <1>4 DEF Nil
  <2> HIDE DEF want
  <2>3. QED
    BY <1>1, <1>3, <2>1, <2>2, PlaceGrants
<1>5. CASE ~IsOpportunistic(groups[i])
  <2>1. targets' = targets /\ remaining' = remaining
    BY <1>5 DEF OpportunisticStep
  <2>2. Hands(i, 0)
    BY <1>1, <2>1 DEF Hands, TypeOK
  <2>3. QED
    BY <1>1, <2>2, HandsGrants
<1>6. QED
  BY <1>4, <1>5

\* Phase 4 serves the last class, when the three before it are content.
LEMMA OverflowAllocates == Inv /\ OverflowStep => [A!AllocationNext]_(A!allocation)
<1> SUFFICES ASSUME Inv, OverflowStep PROVE [A!AllocationNext]_(A!allocation)
  OBVIOUS
<1>1. /\ TypeOK /\ i \in Group /\ phase = "overflow" /\ phase' = phase
      /\ UNCHANGED args /\ remaining > 0
  BY IndexInLoop DEF Inv, OverflowStep
<1>2. /\ \A j \in Group : Claimed(1, j) = GroupFloor(groups[j])
      /\ \A j \in Group : Claimed(2, j) = IF Declares(j) THEN Want(j) ELSE 0
      /\ \A j \in Group : Claimed(3, j) =
            IF ~IsOpportunistic(groups[j]) THEN 0
            ELSE IF observed[j] = Nil THEN total ELSE observed[j]
      /\ \A j \in Group : Claimed(4, j) =
            IF IsOpportunistic(groups[j]) THEN 0
            ELSE IF hasStaticCeiling(groups[j]) THEN GroupCeiling(total, groups[j])
            ELSE total
      /\ \A j \in Group : targets[j] \in Nat /\ observed[j] \in Nat \cup {Nil}
      /\ remaining \in Nat /\ total \in Nat /\ targets[i] + remaining <= total
      /\ GroupCeiling(total, groups[i]) \in Nat
  BY <1>1, BoundFacts DEF Claimed, Inv, TypeOK, Room
<1>3. \A d \in 1 .. 4, j \in Group :
         d < 4 \/ (d = 4 /\ j < i) => Content(d, j)
  <2>1. SUFFICES ASSUME NEW j \in Group
                 PROVE  /\ Content(1, j) /\ Content(2, j) /\ Content(3, j)
                        /\ j < i => Content(4, j)
    OBVIOUS
  <2>2. /\ targets[j] >= GroupFloor(groups[j])
        /\ Declares(j) => targets[j] >= Want(j)
        /\ IsOpportunistic(groups[j]) => targets[j] >= observed[j]
        /\ j < i /\ ~IsOpportunistic(groups[j]) =>
              /\ hasStaticCeiling(groups[j])
              /\ targets[j] >= GroupCeiling(total, groups[j])
    BY <1>1, <2>1
    DEF Inv, FloorLoop, TargetLoop, OpportunisticLoop, OverflowLoop, Through
  <2>3. QED
    BY <1>2, <2>1, <2>2 DEF Content
<1>4. CASE IsOpportunistic(groups[i])
  <2>1. targets' = targets /\ remaining' = remaining
    BY <1>4 DEF OverflowStep
  <2>2. Hands(i, 0)
    BY <1>1, <2>1 DEF Hands, TypeOK
  <2>3. QED
    BY <1>1, <2>2, HandsGrants
<1>5. CASE ~IsOpportunistic(groups[i]) /\ ~hasStaticCeiling(groups[i])
  <2>1. /\ targets' = [targets EXCEPT ![i] = targets[i] + remaining]
        /\ remaining' = 0
    BY <1>5 DEF OverflowStep
  <2>2. Hands(i, remaining)
    BY <1>1, <1>2, <2>1 DEF Hands
  <2>3. QED
    BY <1>1, <1>2, <1>3, <1>5, <2>2, HandsGrants
<1>6. CASE ~IsOpportunistic(groups[i]) /\ hasStaticCeiling(groups[i])
  <2>1. Place(i, GroupCeiling(total, groups[i]))
    BY <1>6 DEF OverflowStep
  <2>2. QED
    BY <1>1, <1>2, <1>3, <1>6, <2>1, PlaceGrants
<1>7. QED
  BY <1>4, <1>5, <1>6

\* The four loops of ComputeGroupTargets implement allocation in strict
\* priority: every iteration is a grant that no earlier claim waits for, or
\* changes nothing, and the call returns only when the stock is empty or
\* every claim satisfied.
THEOREM Refinement == Spec => ImplementsAllocation
<1>1. Init => A!AllocationInit
  BY TotalsAssumption DEF Init, A!AllocationInit, A!Claimant, Group
<1>2. Inv /\ [Next]_vars => [A!AllocationNext]_(A!allocation)
  <2>1. SUFFICES ASSUME Inv, [Next]_vars PROVE [A!AllocationNext]_(A!allocation)
    OBVIOUS
  <2>2. QED
    BY <2>1, FloorAllocates, TargetAllocates, OpportunisticAllocates,
       OverflowAllocates, QuietAllocates DEF Next
<1>3. QED
  BY <1>1, <1>2, Invariance, PTL DEF Spec, ImplementsAllocation, A!AllocationSpec

-----------------------------------------------------------------------------
(* The closed form.                                                        *)

\* The recursive function in RunningSum is well defined: it adds up.
LEMMA RunningSumFacts ==
    ASSUME NEW n \in Nat, NEW f \in [1 .. n -> Nat]
    PROVE  /\ RunningSum(f, n) \in [0 .. n -> Nat]
           /\ RunningSum(f, n)[0] = 0
           /\ \A k \in 1 .. n : RunningSum(f, n)[k] = RunningSum(f, n)[k - 1] + f[k]
<1> DEFINE G == [k \in 1 .. n |-> [x \in Nat |-> x + f[k]]]
           Body(g) == [k \in 0 .. n |-> IF k = 0 THEN 0 ELSE g[k - 1] + f[k]]
           sum == CHOOSE g : g = Body(g)
<1>1. PICK h \in [0 .. n -> Nat] : h[0] = 0 /\ \A k \in 1 .. n : h[k] = G[k][h[k - 1]]
  <2>1. G \in [1 .. n -> [Nat -> Nat]]
    OBVIOUS
  <2> HIDE DEF G
  <2>2. Iterates(n, Nat, 0, G)
    BY <2>1, Iterate
  <2>3. QED
    BY <2>2 DEF Iterates
<1>2. h = Body(h)
  <2>1. ASSUME NEW k \in 1 .. n PROVE h[k] = h[k - 1] + f[k]
    <3>1. h[k - 1] \in Nat
      BY <1>1
    <3>2. h[k] = G[k][h[k - 1]]
      BY <1>1, Zenon
    <3>3. QED
      BY <3>1, <3>2
  <2>2. QED
    BY <1>1, <2>1
<1>3. sum = Body(sum)
  BY <1>2, Zenon
<1>4. RunningSum(f, n) = sum
  BY DEF RunningSum
<1> HIDE DEF sum
<1>5. sum[0] = 0 /\ \A k \in 1 .. n : sum[k] = sum[k - 1] + f[k]
  BY <1>3
<1>6. \A k \in 0 .. n : sum[k] \in Nat
  <2> DEFINE T == {k \in 0 .. n : sum[k] \in Nat}
  <2>1. 0 \in T /\ \A k \in 0 .. n - 1 : k \in T => k + 1 \in T
    <3>1. 0 \in T
      BY <1>5
    <3>2. ASSUME NEW k \in 0 .. n - 1, k \in T PROVE k + 1 \in T
      <4>1. sum[k + 1] = sum[(k + 1) - 1] + f[k + 1] /\ (k + 1) - 1 = k /\ f[k + 1] \in Nat
        BY <1>5
      <4>2. QED
        BY <3>2, <4>1
    <3>3. QED
      BY <3>1, <3>2
  <2> HIDE DEF T
  <2>2. \A k \in 0 .. n : k \in T
    BY <2>1, IntervalInduction
  <2>3. QED
    BY <2>2 DEF T
<1>7. sum \in [0 .. n -> Nat]
  BY <1>3, <1>6
<1>8. QED
  BY <1>4, <1>5, <1>7

\* Sums of sums.
LEMMA SumOfSums ==
    ASSUME NEW n \in Nat, NEW a \in [1 .. n -> Nat], NEW b \in [1 .. n -> Nat],
           NEW c \in [1 .. n -> Nat], \A k \in 1 .. n : c[k] = a[k] + b[k]
    PROVE  \A k \in 0 .. n : RunningSum(c, n)[k] = RunningSum(a, n)[k] + RunningSum(b, n)[k]
<1> DEFINE sumA == RunningSum(a, n)
           sumB == RunningSum(b, n)
           sumC == RunningSum(c, n)
           T == {k \in 0 .. n : sumC[k] = sumA[k] + sumB[k]}
<1>1. /\ sumA \in [0 .. n -> Nat] /\ sumB \in [0 .. n -> Nat] /\ sumC \in [0 .. n -> Nat]
      /\ sumA[0] = 0 /\ sumB[0] = 0 /\ sumC[0] = 0
      /\ \A k \in 1 .. n : sumA[k] = sumA[k - 1] + a[k] /\ sumB[k] = sumB[k - 1] + b[k] /\ sumC[k] = sumC[k - 1] + c[k]
  BY RunningSumFacts
<1> HIDE DEF sumA, sumB, sumC
<1>2. 0 \in T
  BY <1>1
<1>3. ASSUME NEW k \in 0 .. n - 1, k \in T PROVE k + 1 \in T
  <2>1. k + 1 \in 1 .. n /\ (k + 1) - 1 = k /\ k \in 0 .. n
    OBVIOUS
  <2>2. sumA[k] \in Nat /\ sumB[k] \in Nat /\ a[k + 1] \in Nat /\ b[k + 1] \in Nat
    BY <1>1, <2>1
  <2>3. /\ sumA[k + 1] = sumA[k] + a[k + 1] /\ sumB[k + 1] = sumB[k] + b[k + 1]
        /\ sumC[k + 1] = sumC[k] + c[k + 1] /\ c[k + 1] = a[k + 1] + b[k + 1]
    BY <1>1, <2>1
  <2>4. QED
    BY <1>3, <2>1, <2>2, <2>3
<1>4. \A k \in 0 .. n : k \in T
  <2> HIDE DEF T
  <2>1. QED
    BY <1>2, <1>3, IntervalInduction
<1>5. QED
  BY <1>4 DEF sumA, sumB, sumC

\* What loop p gives group k while "rest" are left.
Gives(p, st, k, rest) ==
    Share(Asks(p, total, groups[k], observed[k], st.targets[k], rest) - st.targets[k], rest)

\* A loop in which group k asks for more[k] on top of what it holds, or for
\* as much as is left if that is less, serves the requests in list order
\* from the stock, and what it hands out is what the stock loses.
LEMMA LoopServes ==
    ASSUME TypeOK, NEW p \in 1 .. 4, NEW start \in State(N), NEW more \in [1 .. N -> Nat],
           \A k \in 1 .. N : \A rest \in 0 .. start.remaining :
              Gives(p, start, k, rest) = Lesser(more[k], rest)
    PROVE  LET end == Do(p, start)
           IN  /\ end \in State(N)
               /\ \A k \in 1 .. N :
                     end.targets[k] = start.targets[k] +
                        Lesser(more[k], Greater(0, start.remaining - RunningSum(more, N)[k - 1]))
               /\ RunningSum(end.targets, N)[N] + end.remaining =
                     RunningSum(start.targets, N)[N] + start.remaining
<1> DEFINE end == Do(p, start)
           S == RunningSum(more, N)
           R == start.remaining
<1>1. Arguments(total, groups, observed) /\ Len(groups) = N /\ N \in Nat
  BY CallArguments
<1>2. PICK f : /\ Run(p, total, groups, observed, f)
               /\ f[0] = start /\ f[N] = end
  BY <1>1, LoopRuns DEF Do
<1> HIDE DEF end
<1>3. /\ S \in [0 .. N -> Nat] /\ S[0] = 0
      /\ \A k \in 1 .. N : S[k] = S[k - 1] + more[k]
  BY <1>1, RunningSumFacts
<1> HIDE DEF S
<1>4. \A b \in 0 .. N : f[b] \in State(N) /\ f[b].remaining \in Nat /\ f[b].remaining <= R
  <2>1. \A b \in 0 .. N : f[b] \in State(N) /\ f[b].remaining \in Nat
    BY <1>1, <1>2, RunType
  <2>2. \A b \in 0 .. N : f[b].remaining <= f[0].remaining
    BY <1>1, <1>2, RunShrinks
  <2>3. QED
    BY <1>2, <2>1, <2>2
<1>5. ASSUME NEW k \in 1 .. N
      PROVE  LET give == Lesser(more[k], f[k - 1].remaining)
             IN  /\ f[k].remaining = f[k - 1].remaining - give
                 /\ end.targets[k] = start.targets[k] + give
  <2>1. Handed(N, f[k - 1], k, AskIn(p, total, groups, observed, f[k - 1], k), f[k])
    BY <1>1, <1>2, RunStep
  <2>2. f[k - 1].targets[k] = start.targets[k] /\ end.targets[k] = f[k].targets[k]
    BY <1>1, <1>2, RunServesOnce
  <2>3. f[k - 1].remaining \in 0 .. start.remaining
    <3>1. k - 1 \in 0 .. N /\ start.remaining \in Nat
      BY <1>1 DEF State
    <3>2. QED
      BY <1>4, <3>1
  <2>4. Gives(p, start, k, f[k - 1].remaining) = Lesser(more[k], f[k - 1].remaining)
    BY <2>3
  <2>5. QED
    BY <2>1, <2>2, <2>4 DEF Handed, AskIn, Gives
<1>6. \A b \in 0 .. N : f[b].remaining = Greater(0, R - S[b])
  <2> DEFINE T == {b \in 0 .. N : f[b].remaining = Greater(0, R - S[b])}
  <2>0. R \in Nat
    BY DEF State
  <2>1. 0 \in T
    BY <1>1, <1>2, <1>3, <2>0 DEF Greater
  <2>2. ASSUME NEW b \in 0 .. N - 1, b \in T PROVE b + 1 \in T
    <3>1. b + 1 \in 1 .. N /\ (b + 1) - 1 = b /\ b \in 0 .. N /\ b + 1 \in 0 .. N
      BY <1>1
    <3>2. /\ f[b + 1].remaining = f[b].remaining - Lesser(more[b + 1], f[b].remaining)
          /\ S[b + 1] = S[b] + more[b + 1]
      BY <1>3, <1>5, <3>1
    <3>3. S[b] \in Nat /\ more[b + 1] \in Nat /\ f[b].remaining \in Nat
      BY <1>3, <1>4, <3>1
    <3>4. f[b].remaining = Greater(0, R - S[b])
      BY <2>2
    <3> HIDE DEF R
    <3>5. f[b + 1].remaining = Greater(0, R - S[b + 1])
      BY <2>0, <3>2, <3>3, <3>4 DEF Lesser, Greater
    <3>6. QED
      BY <3>1, <3>5
  <2>3. \A b \in 0 .. N : b \in T
    <3> HIDE DEF T
    <3>1. QED
      BY <1>1, <2>1, <2>2, IntervalInduction
  <2>4. QED
    BY <2>3
<1>7. end \in State(N) /\ end.remaining = f[N].remaining
  BY <1>1, <1>2, <1>4
<1>8. \A k \in 1 .. N : end.targets[k] = start.targets[k] +
                                          Lesser(more[k], Greater(0, R - S[k - 1]))
  <2>1. TAKE k \in 1 .. N
  <2>2. k - 1 \in 0 .. N
    BY <1>1
  <2>3. QED
    BY <1>5, <1>6, <2>2
<1>9. RunningSum(end.targets, N)[N] + end.remaining = RunningSum(start.targets, N)[N] + R
  <2> DEFINE given == [k \in 1 .. N |-> Lesser(more[k], f[k - 1].remaining)]
             D == RunningSum(given, N)
             T == {b \in 0 .. N : D[b] = R - f[b].remaining}
  <2>0. R \in Nat
    BY DEF State
  <2>1. given \in [1 .. N -> Nat]
    <3>1. ASSUME NEW k \in 1 .. N PROVE Lesser(more[k], f[k - 1].remaining) \in Nat
      <4>1. k - 1 \in 0 .. N /\ more[k] \in Nat
        BY <1>1
      <4>2. QED
        BY <1>4, <4>1 DEF Lesser
    <3>2. QED
      BY <3>1
  <2>2. D \in [0 .. N -> Nat] /\ D[0] = 0 /\ \A k \in 1 .. N : D[k] = D[k - 1] + given[k]
    <3> HIDE DEF given
    <3>1. QED
      BY <1>1, <2>1, RunningSumFacts
  <2>3. 0 \in T
    BY <1>1, <1>2, <2>0, <2>2
  <2>4. ASSUME NEW b \in 0 .. N - 1, b \in T PROVE b + 1 \in T
    <3>1. b + 1 \in 1 .. N /\ (b + 1) - 1 = b /\ b \in 0 .. N /\ b + 1 \in 0 .. N
      BY <1>1
    <3>2. /\ f[b + 1].remaining = f[b].remaining - given[b + 1]
          /\ D[b + 1] = D[b] + given[b + 1]
      BY <1>5, <2>2, <3>1
    <3>3. given[b + 1] \in Nat /\ f[b].remaining \in Nat /\ D[b] \in Nat
      BY <1>4, <2>1, <2>2, <3>1
    <3>4. D[b] = R - f[b].remaining
      BY <2>4
    <3> HIDE DEF R, D, given
    <3>5. D[b + 1] = R - f[b + 1].remaining
      BY <2>0, <3>2, <3>3, <3>4
    <3>6. QED
      BY <3>1, <3>5
  <2>5. \A b \in 0 .. N : b \in T
    <3> HIDE DEF T
    <3>1. QED
      BY <1>1, <2>3, <2>4, IntervalInduction
  <2>6. D[N] = R - f[N].remaining
    BY <1>1, <2>5
  <2>7. /\ start.targets \in [1 .. N -> Nat] /\ end.targets \in [1 .. N -> Nat]
        /\ end.remaining \in Nat
    BY <1>7 DEF State
  <2>8. \A k \in 1 .. N : end.targets[k] = start.targets[k] + given[k]
    BY <1>5
  <2>9. RunningSum(end.targets, N)[N] = RunningSum(start.targets, N)[N] + D[N]
    <3> DEFINE x == start.targets
               y == end.targets
    <3>1. N \in 0 .. N /\ N \in Nat
      BY <1>1
    <3>4. /\ x \in [1 .. N -> Nat] /\ y \in [1 .. N -> Nat]
          /\ \A k \in 1 .. N : y[k] = x[k] + given[k]
      BY <2>7, <2>8
    <3> HIDE DEF given, x, y
    <3>2. \A b \in 0 .. N : RunningSum(y, N)[b] = RunningSum(x, N)[b] + RunningSum(given, N)[b]
      BY <2>1, <3>1, <3>4, SumOfSums
    <3>3. QED
      BY <3>1, <3>2 DEF x, y
  <2>10. RunningSum(start.targets, N)[N] \in Nat
    <3>1. RunningSum(start.targets, N) \in [0 .. N -> Nat]
      BY <1>1, <2>7, RunningSumFacts
    <3>2. QED
      BY <1>1, <3>1
  <2> HIDE DEF D, R
  <2>11. QED
    BY <1>7, <2>0, <2>6, <2>7, <2>9, <2>10
<1>10. QED
  BY <1>7, <1>8, <1>9 DEF end, S

\* "Topped" adds what is served to what is held.
LEMMA Serves ==
    ASSUME TypeOK, NEW p \in 1 .. 4, NEW start \in State(N), NEW more \in [1 .. N -> Nat],
           RunningSum(start.targets, N)[N] + start.remaining = total,
           \A k \in 1 .. N : \A rest \in 0 .. start.remaining :
              Gives(p, start, k, rest) = Lesser(more[k], rest)
    PROVE  /\ Do(p, start) \in State(N)
           /\ Do(p, start).targets = Topped(start.targets, more)
           /\ RunningSum(Do(p, start).targets, N)[N] + Do(p, start).remaining = total
<1> DEFINE end == Do(p, start)
           sum == RunningSum(start.targets, N)[N]
<1>1. /\ end \in State(N)
      /\ \A k \in 1 .. N :
            end.targets[k] = start.targets[k] +
               Lesser(more[k], Greater(0, start.remaining - RunningSum(more, N)[k - 1]))
      /\ RunningSum(end.targets, N)[N] + end.remaining = sum + start.remaining
  BY LoopServes
<1>2. N \in Nat /\ start.remaining \in Nat /\ start.targets \in [1 .. N -> Nat]
  BY CallArguments DEF State
<1>3. sum \in Nat
  <2>1. RunningSum(start.targets, N) \in [0 .. N -> Nat]
    BY <1>2, RunningSumFacts
  <2>2. QED
    BY <1>2, <2>1
<1> HIDE DEF sum, end
<1>4. total - sum = start.remaining
  BY <1>2, <1>3 DEF sum
<1>5. Topped(start.targets, more) =
        [k \in 1 .. N |-> start.targets[k] +
            Lesser(more[k], Greater(0, start.remaining - RunningSum(more, N)[k - 1]))]
  BY <1>4 DEF Topped, Served, Group, sum
<1>6. end.targets = [k \in 1 .. N |-> end.targets[k]]
  BY <1>1 DEF State
<1>7. end.targets = Topped(start.targets, more)
  BY <1>1, <1>5, <1>6
<1>8. QED
  BY <1>1, <1>7 DEF end, sum

\* The numbers of the groups.
LEMMA GroupFacts ==
    ASSUME TypeOK, NEW k \in 1 .. N
    PROVE  /\ groups[k] \in Scaling /\ observed[k] \in Nat \cup {Nil} /\ total \in Nat
           /\ GroupFloor(groups[k]) \in Nat /\ GroupCeiling(total, groups[k]) \in Nat
           /\ TargetReadable(groups[k]) => GroupTarget(total, groups[k]) \in Nat
<1>1. groups[k] \in Scaling /\ observed[k] \in Nat \cup {Nil} /\ total \in Nat
  BY CallArguments DEF Arguments
<1>2. QED
  BY <1>1, ScalingFacts

\* The floors.
LEMMA FloorsServe ==
    ASSUME TypeOK
    PROVE  /\ Entry2 \in State(N) /\ Entry2.targets = AfterFloors
           /\ RunningSum(Entry2.targets, N)[N] + Entry2.remaining = total
<1> DEFINE more == [k \in 1 .. N |-> GroupFloor(groups[k])]
           zero == [k \in 1 .. N |-> 0]
<1>1. /\ N \in Nat /\ total \in Nat /\ Entry1 \in State(N)
      /\ Entry1.targets = zero /\ Entry1.remaining = total
  BY CallArguments, EntryTypes DEF Entry1, Zero, Arguments
<1>2. RunningSum(zero, N)[N] = 0
  <2>1. zero \in [1 .. N -> Nat] /\ \A k \in 1 .. N : zero[k] = zero[k] + zero[k]
    OBVIOUS
  <2> HIDE DEF zero
  <2>2. \A k \in 0 .. N : RunningSum(zero, N)[k] = RunningSum(zero, N)[k] + RunningSum(zero, N)[k]
    BY <1>1, <2>1, SumOfSums
  <2>3. RunningSum(zero, N) \in [0 .. N -> Nat]
    BY <1>1, <2>1, RunningSumFacts
  <2>4. QED
    BY <1>1, <2>2, <2>3
<1>3. more \in [1 .. N -> Nat]
  BY GroupFacts
<1>4. ASSUME NEW k \in 1 .. N, NEW rest \in 0 .. Entry1.remaining
      PROVE  Gives(1, Entry1, k, rest) = Lesser(more[k], rest)
  <2>1. GroupFloor(groups[k]) \in Nat /\ rest \in Nat /\ Entry1.targets[k] = 0
    BY <1>1, GroupFacts
  <2>2. QED
    BY <2>1 DEF Gives, Asks, Share, Lesser
<1>5. Entry2 = Do(1, Entry1)
  BY DEF Entry2
<1> HIDE DEF more, zero
<1>6. /\ Entry2 \in State(N) /\ Entry2.targets = Topped(Entry1.targets, more)
      /\ RunningSum(Entry2.targets, N)[N] + Entry2.remaining = total
  BY <1>1, <1>2, <1>3, <1>4, <1>5, Serves
<1>7. Topped(zero, more) = AfterFloors
  <2>1. total - RunningSum(zero, N)[N] = total /\ Group = 1 .. N
    BY <1>1, <1>2 DEF Group
  <2>2. Served(total, more) \in [1 .. N -> Nat]
    <3>1. RunningSum(more, N) \in [0 .. N -> Nat]
      BY <1>1, <1>3, RunningSumFacts
    <3>2. ASSUME NEW k \in 1 .. N
          PROVE  Lesser(more[k], Greater(0, total - RunningSum(more, N)[k - 1])) \in Nat
      <4>1. RunningSum(more, N)[k - 1] \in Nat /\ more[k] \in Nat
        BY <1>1, <1>3, <3>1
      <4>2. QED
        BY <1>1, <4>1 DEF Lesser, Greater
    <3>3. QED
      BY <2>1, <3>2 DEF Served
  <2>3. Topped(zero, more) = [k \in 1 .. N |-> zero[k] + Served(total, more)[k]]
    BY <2>1 DEF Topped
  <2>4. \A k \in 1 .. N : zero[k] = 0
    BY DEF zero
  <2>5. Topped(zero, more) = Served(total, more)
    BY <2>2, <2>3, <2>4
  <2>6. QED
    BY <2>1, <2>5 DEF AfterFloors, more
<1>8. QED
  BY <1>1, <1>6, <1>7

\* The declared shares.
LEMMA TargetsServe ==
    ASSUME TypeOK
    PROVE  /\ Entry3 \in State(N) /\ Entry3.targets = AfterTargets
           /\ RunningSum(Entry3.targets, N)[N] + Entry3.remaining = total
<1> DEFINE held == AfterFloors
           more == [k \in 1 .. N |-> IF Declares(k) THEN Greater(0, Want(k) - held[k]) ELSE 0]
<1>1. /\ Entry2 \in State(N) /\ Entry2.targets = held
      /\ RunningSum(Entry2.targets, N)[N] + Entry2.remaining = total
  BY FloorsServe
<1> HIDE DEF held
<1>2. held \in [1 .. N -> Nat] /\ Entry2.remaining \in Nat /\ Group = 1 .. N
  BY <1>1 DEF State, Group
<1>3. ASSUME NEW k \in 1 .. N, NEW rest \in Nat
      PROVE  /\ more[k] \in Nat
             /\ Gives(2, Entry2, k, rest) = Lesser(more[k], rest)
  <2>1. /\ Entry2.targets[k] = held[k] /\ held[k] \in Nat
        /\ Declares(k) => Want(k) \in Nat
        /\ Asks(2, total, groups[k], observed[k], held[k], rest) = IF Declares(k) THEN Want(k) ELSE 0
    BY <1>1, <1>2, GroupFacts DEF Asks, Declares, Want
  <2>2. Gives(2, Entry2, k, rest) = Share((IF Declares(k) THEN Want(k) ELSE 0) - held[k], rest)
    BY <2>1 DEF Gives
  <2>3. QED
    BY <2>1, <2>2 DEF Share, Lesser, Greater
<1>4. more \in [1 .. N -> Nat]
  BY <1>3
<1>5. Entry3 = Do(2, Entry2)
  BY DEF Entry3
<1>6. AfterTargets = Topped(held, more)
  BY <1>2 DEF AfterTargets, held
<1> HIDE DEF more
<1>7. \A k \in 1 .. N : \A rest \in 0 .. Entry2.remaining :
         Gives(2, Entry2, k, rest) = Lesser(more[k], rest)
  BY <1>2, <1>3
<1>8. /\ Do(2, Entry2) \in State(N)
      /\ Do(2, Entry2).targets = Topped(Entry2.targets, more)
      /\ RunningSum(Do(2, Entry2).targets, N)[N] + Do(2, Entry2).remaining = total
  <2>1. Entry2 \in State(N) /\ RunningSum(Entry2.targets, N)[N] + Entry2.remaining = total
    BY <1>1
  <2>2. 2 \in 1 .. 4
    OBVIOUS
  <2>3. QED
    BY <1>4, <1>7, <2>1, <2>2, Serves, Zenon
<1>9. QED
  BY <1>1, <1>5, <1>6, <1>8

\* What remains is at most the total.
LEMMA RestInTotal ==
    ASSUME TypeOK, NEW st \in State(N), RunningSum(st.targets, N)[N] + st.remaining = total
    PROVE  st.remaining \in 0 .. total
<1>1. N \in Nat /\ total \in Nat /\ st.remaining \in Nat /\ st.targets \in [1 .. N -> Nat]
  BY CallArguments DEF State, Arguments
<1>2. RunningSum(st.targets, N)[N] \in Nat
  <2>1. RunningSum(st.targets, N) \in [0 .. N -> Nat]
    BY <1>1, RunningSumFacts
  <2>2. QED
    BY <1>1, <2>1
<1>3. QED
  BY <1>1, <1>2

\* The free capacity, unless a group that has never been sized holds a floor.
LEMMA OpportunisticServe ==
    ASSUME TypeOK, \A k \in Group : ColdAndEmpty(k)
    PROVE  /\ Entry4 \in State(N) /\ Entry4.targets = AfterOpportunistic
           /\ RunningSum(Entry4.targets, N)[N] + Entry4.remaining = total
<1> DEFINE held == AfterTargets
           more == [k \in 1 .. N |-> IF ~IsOpportunistic(groups[k]) THEN 0
                                     ELSE IF observed[k] = Nil THEN total
                                     ELSE Greater(0, observed[k] - held[k])]
<1>1. /\ Entry3 \in State(N) /\ Entry3.targets = held
      /\ RunningSum(Entry3.targets, N)[N] + Entry3.remaining = total
  BY TargetsServe
<1>2. \A k \in 1 .. N : IsOpportunistic(groups[k]) /\ observed[k] = Nil => held[k] = 0
  BY DEF Group, ColdAndEmpty
<1> HIDE DEF held
<1>3. held \in [1 .. N -> Nat] /\ Entry3.remaining \in 0 .. total /\ Group = 1 .. N
  BY <1>1, RestInTotal DEF State, Group
<1>4. ASSUME NEW k \in 1 .. N, NEW rest \in 0 .. total
      PROVE  /\ more[k] \in Nat
             /\ Gives(3, Entry3, k, rest) = Lesser(more[k], rest)
  <2>1. /\ Entry3.targets[k] = held[k] /\ held[k] \in Nat /\ total \in Nat /\ rest \in Nat
        /\ rest <= total /\ observed[k] \in Nat \cup {Nil}
    BY <1>1, <1>3, GroupFacts
  <2>2. Gives(3, Entry3, k, rest) =
           Share((IF ~IsOpportunistic(groups[k]) THEN 0
                  ELSE IF observed[k] = Nil THEN rest ELSE observed[k]) - held[k], rest)
    BY <2>1 DEF Gives, Asks
  <2>3. CASE ~IsOpportunistic(groups[k])
    BY <2>1, <2>2, <2>3 DEF Share, Lesser, Greater
  <2>4. CASE IsOpportunistic(groups[k]) /\ observed[k] = Nil
    BY <1>2, <2>1, <2>2, <2>4 DEF Share, Lesser, Greater
  <2>5. CASE IsOpportunistic(groups[k]) /\ observed[k] # Nil
    BY <2>1, <2>2, <2>5 DEF Share, Lesser, Greater
  <2>6. QED
    BY <2>3, <2>4, <2>5
<1>5. more \in [1 .. N -> Nat]
  BY <1>3, <1>4
<1>6. Entry4 = Do(3, Entry3)
  BY DEF Entry4
<1>7. AfterOpportunistic = Topped(held, more)
  BY <1>3 DEF AfterOpportunistic, held
<1> HIDE DEF more
<1>8. \A k \in 1 .. N : \A rest \in 0 .. Entry3.remaining :
         Gives(3, Entry3, k, rest) = Lesser(more[k], rest)
  <2>1. \A rest \in 0 .. Entry3.remaining : rest \in 0 .. total
    BY <1>3, CallArguments DEF Arguments
  <2>2. QED
    BY <1>4, <2>1
<1>9. /\ Do(3, Entry3) \in State(N)
      /\ Do(3, Entry3).targets = Topped(Entry3.targets, more)
      /\ RunningSum(Do(3, Entry3).targets, N)[N] + Do(3, Entry3).remaining = total
  <2>1. Entry3 \in State(N) /\ RunningSum(Entry3.targets, N)[N] + Entry3.remaining = total
    BY <1>1
  <2>2. 3 \in 1 .. 4
    OBVIOUS
  <2>3. QED
    BY <1>5, <1>8, <2>1, <2>2, Serves, Zenon
<1>10. QED
  BY <1>1, <1>6, <1>7, <1>9

\* The overflow.
LEMMA OverflowServes ==
    ASSUME TypeOK, \A k \in Group : ColdAndEmpty(k)
    PROVE  Result.targets = AfterOverflow
<1> DEFINE held == AfterOpportunistic
           more == [k \in 1 .. N |-> IF IsOpportunistic(groups[k]) THEN 0
                                     ELSE IF ~hasStaticCeiling(groups[k]) THEN total
                                     ELSE Greater(0, GroupCeiling(total, groups[k]) - held[k])]
<1>1. /\ Entry4 \in State(N) /\ Entry4.targets = held
      /\ RunningSum(Entry4.targets, N)[N] + Entry4.remaining = total
  BY OpportunisticServe
<1> HIDE DEF held
<1>3. held \in [1 .. N -> Nat] /\ Entry4.remaining \in 0 .. total /\ Group = 1 .. N
  BY <1>1, RestInTotal DEF State, Group
<1>4. ASSUME NEW k \in 1 .. N, NEW rest \in 0 .. total
      PROVE  /\ more[k] \in Nat
             /\ Gives(4, Entry4, k, rest) = Lesser(more[k], rest)
  <2>1. /\ Entry4.targets[k] = held[k] /\ held[k] \in Nat /\ total \in Nat /\ rest \in Nat
        /\ rest <= total /\ GroupCeiling(total, groups[k]) \in Nat
    BY <1>1, <1>3, GroupFacts
  <2>2. Gives(4, Entry4, k, rest) =
           Share((IF IsOpportunistic(groups[k]) THEN 0
                  ELSE IF ~hasStaticCeiling(groups[k]) THEN held[k] + rest
                  ELSE GroupCeiling(total, groups[k])) - held[k], rest)
    BY <2>1 DEF Gives, Asks
  <2>3. CASE IsOpportunistic(groups[k])
    BY <2>1, <2>2, <2>3 DEF Share, Lesser, Greater
  <2>4. CASE ~IsOpportunistic(groups[k]) /\ ~hasStaticCeiling(groups[k])
    BY <2>1, <2>2, <2>4 DEF Share, Lesser, Greater
  <2>5. CASE ~IsOpportunistic(groups[k]) /\ hasStaticCeiling(groups[k])
    BY <2>1, <2>2, <2>5 DEF Share, Lesser, Greater
  <2>6. QED
    BY <2>3, <2>4, <2>5
<1>5. more \in [1 .. N -> Nat]
  BY <1>3, <1>4
<1>6. Result = Do(4, Entry4)
  BY DEF Result
<1>7. AfterOverflow = Topped(held, more)
  BY <1>3 DEF AfterOverflow, held
<1> HIDE DEF more
<1>8. \A k \in 1 .. N : \A rest \in 0 .. Entry4.remaining :
         Gives(4, Entry4, k, rest) = Lesser(more[k], rest)
  <2>1. \A rest \in 0 .. Entry4.remaining : rest \in 0 .. total
    BY <1>3, CallArguments DEF Arguments
  <2>2. QED
    BY <1>4, <2>1
<1>9. /\ Do(4, Entry4) \in State(N)
      /\ Do(4, Entry4).targets = Topped(Entry4.targets, more)
      /\ RunningSum(Do(4, Entry4).targets, N)[N] + Do(4, Entry4).remaining = total
  <2>1. Entry4 \in State(N) /\ RunningSum(Entry4.targets, N)[N] + Entry4.remaining = total
    BY <1>1
  <2>2. 4 \in 1 .. 4
    OBVIOUS
  <2>3. QED
    BY <1>5, <1>8, <2>1, <2>2, Serves, Zenon
<1>10. QED
  BY <1>1, <1>6, <1>7, <1>9

\* Four servings in list order are the whole algorithm: for every pool the
\* loops return the closed form, unless a group that has never been sized
\* already holds its floor when phase 3 reaches it.
THEOREM LoopsMatchClosedForm == Spec => []MatchesClosedForm
<1>1. TypeOK /\ ComputesTheFunction => MatchesClosedForm
  <2> SUFFICES ASSUME TypeOK, ComputesTheFunction, phase = "done",
                      \A k \in Group : ColdAndEmpty(k)
               PROVE  targets = AfterOverflow
    BY DEF MatchesClosedForm
  <2>1. ComputeGroupTargets(total, groups, observed).Targets = Result.targets
    BY FunctionIsResult
  <2>2. ComputeGroupTargets(total, groups, observed).Targets = targets
    BY DEF ComputesTheFunction
  <2>3. QED
    BY <2>1, <2>2, OverflowServes
<1>2. QED
  BY <1>1, TypeCorrect, LoopsComputeTheFunction, PTL

-----------------------------------------------------------------------------
(* Documents.                                                              *)

\* A node is a map or it is not.
LEMMA NodeFacts ==
    /\ \A f : IsMap(Map(f)) /\ Map(f).map = f
    /\ ~IsMap(Null) /\ ~IsMap(Failed) /\ ~IsMap(NoOverrides) /\ ~IsMap(Malformed) /\ Null \in Node
    /\ \A n \in Node : IsMap(n) => n.map \in Maps /\ n = Map(n.map)
    /\ \A f \in Maps : Map(f) \in Node
<1>1. \A f : IsMap(Map(f)) /\ Map(f).map = f
  BY DEF Map, IsMap
<1>2. ~IsMap(Null) /\ ~IsMap(Failed) /\ ~IsMap(NoOverrides) /\ ~IsMap(Malformed) /\ Null \in Node
  <2>1. ~IsMap(Null) /\ ~IsMap(Failed) /\ ~IsMap(NoOverrides) /\ ~IsMap(Malformed)
    BY DEF Leaf, Null, IsMap, Failed, NoOverrides, Malformed
  <2>2. Null \in Node
    BY DEF Node
  <2>3. QED
    BY <2>1, <2>2
<1>3. \A n \in Node : IsMap(n) => n.map \in Maps /\ n = Map(n.map)
  BY DEF Node, IsMap, Map, Null, Leaf
<1>4. \A f \in Maps : Map(f) \in Node
  BY DEF Map, Node
<1>5. QED
  BY <1>1, <1>2, <1>3, <1>4

\* The nodes of a map, and that the maps among them are less deep.
LEMMA MapFacts ==
    ASSUME NEW d \in Maps
    PROVE  /\ d = [k \in DOMAIN d |-> d[k]]
           /\ Depth[d] \in 0 .. MaxDepth
           /\ \A k \in DOMAIN d :
                 /\ d[k] \in Node
                 /\ IsMap(d[k]) => d[k].map \in Maps /\ Depth[d[k].map] < Depth[d]
BY DocumentsAssumption, NodeFacts

\* One level of MergeMaps, with g for what is below.
MergeLevel(g, base, patch) ==
    [k \in Left(base, patch) |->
        IF k \notin DOMAIN patch THEN base[k]
        ELSE IF k \in DOMAIN base /\ IsMap(base[k]) /\ IsMap(patch[k])
        THEN Map(g[<<base[k].map, patch[k].map>>])
        ELSE patch[k]]

\* A level only asks for maps that are less deep.
LEMMA MergeLevelLocal ==
    ASSUME NEW base \in Maps, NEW patch \in Maps, NEW g, NEW h,
           \A b \in Maps, p \in Maps : Depth[b] < Depth[base] => g[<<b, p>>] = h[<<b, p>>]
    PROVE  MergeLevel(g, base, patch) = MergeLevel(h, base, patch)
<1>1. ASSUME NEW k \in Left(base, patch), k \in DOMAIN patch, k \in DOMAIN base,
             IsMap(base[k]), IsMap(patch[k])
      PROVE  g[<<base[k].map, patch[k].map>>] = h[<<base[k].map, patch[k].map>>]
  BY <1>1, MapFacts
<1>2. QED
  BY <1>1 DEF MergeLevel

\* The recursive function is well defined: documents are finite.
LEMMA MergeMapsUnfolds ==
    \A base, patch \in Maps : MergeMaps[<<base, patch>>] = MergeLevel(MergeMaps, base, patch)
<1> DEFINE Body(g) == [bp \in Maps \X Maps |-> MergeLevel(g, bp[1], bp[2])]
           T == {n \in 0 .. MaxDepth + 1 : \E g : \A base, patch \in Maps :
                    Depth[base] < n => g[<<base, patch>>] = MergeLevel(g, base, patch)}
<1>1. 0 \in T
  BY DocumentsAssumption, MapFacts
<1>2. ASSUME NEW n \in 0 .. (MaxDepth + 1) - 1, n \in T PROVE n + 1 \in T
  <2>1. PICK g : \A base, patch \in Maps :
                    Depth[base] < n => g[<<base, patch>>] = MergeLevel(g, base, patch)
    BY <1>2
  <2>2. \A base, patch \in Maps : Body(g)[<<base, patch>>] = MergeLevel(g, base, patch)
    OBVIOUS
  <2> HIDE DEF Body
  <2>3. ASSUME NEW base \in Maps, NEW patch \in Maps, Depth[base] < n + 1
        PROVE  Body(g)[<<base, patch>>] = MergeLevel(Body(g), base, patch)
    <3>1. \A b, p \in Maps : Depth[b] < Depth[base] => g[<<b, p>>] = Body(g)[<<b, p>>]
      BY <2>1, <2>2, <2>3, MapFacts
    <3>2. MergeLevel(g, base, patch) = MergeLevel(Body(g), base, patch)
      BY <3>1, MergeLevelLocal
    <3>3. QED
      BY <2>2, <3>2
  <2>4. n + 1 \in 0 .. MaxDepth + 1
    BY DocumentsAssumption
  <2>5. QED
    BY <2>3, <2>4
<1>3. MaxDepth + 1 \in T
  <2> HIDE DEF T
  <2>1. QED
    BY <1>1, <1>2, IntervalInduction, DocumentsAssumption
<1>4. PICK g : \A base, patch \in Maps : g[<<base, patch>>] = MergeLevel(g, base, patch)
  <2>1. \A base \in Maps : Depth[base] < MaxDepth + 1
    BY MapFacts, DocumentsAssumption
  <2>2. QED
    BY <1>3, <2>1
<1>5. Body(g) = Body(Body(g))
  <2>1. \A base, patch \in Maps : Body(g)[<<base, patch>>] = g[<<base, patch>>]
    BY <1>4
  <2> HIDE DEF Body
  <2>2. \A base, patch \in Maps : MergeLevel(g, base, patch) = MergeLevel(Body(g), base, patch)
    BY <2>1, MergeLevelLocal
  <2>3. \A bp \in Maps \X Maps : bp[1] \in Maps /\ bp[2] \in Maps
    OBVIOUS
  <2>4. QED
    BY <2>2, <2>3 DEF Body
<1>6. MergeMaps = CHOOSE h : h = Body(h)
  BY DEF MergeMaps, MergeLevel
<1>7. MergeMaps = Body(MergeMaps)
  BY <1>5, <1>6, Zenon
<1>8. QED
  BY <1>7

\* How many levels of maps a node opens.
NodeDepth(n) == IF IsMap(n) THEN Depth[n.map] + 1 ELSE 0

\* The nodes of a map open fewer levels than the map.
LEMMA NodeDepthFacts ==
    /\ \A n \in Node : NodeDepth(n) \in 0 .. MaxDepth + 1
    /\ \A n \in Node : IsMap(n) =>
          \A k \in DOMAIN n.map : n.map[k] \in Node /\ NodeDepth(n.map[k]) < NodeDepth(n)
<1>1. ASSUME NEW n \in Node PROVE NodeDepth(n) \in 0 .. MaxDepth + 1
  BY NodeFacts, MapFacts, DocumentsAssumption DEF NodeDepth
<1>2. ASSUME NEW n \in Node, IsMap(n), NEW k \in DOMAIN n.map
      PROVE  n.map[k] \in Node /\ NodeDepth(n.map[k]) < NodeDepth(n)
  BY <1>2, NodeFacts, MapFacts, DocumentsAssumption DEF NodeDepth
<1>3. QED
  BY <1>1, <1>2

\* One level of MergePatch and of NullsIntoNothing, with g for what is below.
PatchLevel(g, target, patch) ==
    IF ~IsMap(patch) THEN patch
    ELSE Map([k \in Left(Old(target), patch.map) |->
                IF k \notin DOMAIN patch.map THEN Old(target)[k]
                ELSE g[<<Meets(target, k), patch.map[k]>>]])

NullLevel(g, target, patch) ==
    IF ~IsMap(patch) THEN {}
    ELSE {k \in DOMAIN patch.map :
             \/ ~IsMap(target) /\ patch.map[k] = Null
             \/ g[<<Meets(target, k), patch.map[k]>>] # {}}

\* What a patch meets is a node.
LEMMA MeetsFacts ==
    ASSUME NEW target \in Node, NEW k
    PROVE  /\ Meets(target, k) \in Node
           /\ Meets(target, k) = IF IsMap(target) /\ k \in DOMAIN target.map
                                 THEN target.map[k] ELSE Null
BY NodeFacts, MapFacts DEF Meets, Old, Empty

\* A level only asks for nodes of the patch that open fewer levels.
LEMMA PatchLevelLocal ==
    ASSUME NEW target \in Node, NEW patch \in Node, NEW g, NEW h,
           \A t, p \in Node : NodeDepth(p) < NodeDepth(patch) => g[<<t, p>>] = h[<<t, p>>]
    PROVE  /\ PatchLevel(g, target, patch) = PatchLevel(h, target, patch)
           /\ NullLevel(g, target, patch) = NullLevel(h, target, patch)
<1>1. ASSUME NEW k, IsMap(patch), k \in DOMAIN patch.map
      PROVE  g[<<Meets(target, k), patch.map[k]>>] = h[<<Meets(target, k), patch.map[k]>>]
  BY <1>1, MeetsFacts, NodeDepthFacts
<1>2. PatchLevel(g, target, patch) = PatchLevel(h, target, patch)
  BY <1>1 DEF PatchLevel
<1>3. NullLevel(g, target, patch) = NullLevel(h, target, patch)
  BY <1>1 DEF NullLevel
<1>4. QED
  BY <1>2, <1>3

\* So is the RFC's.
LEMMA MergePatchUnfolds ==
    \A target, patch \in Node : MergePatch[<<target, patch>>] = PatchLevel(MergePatch, target, patch)
<1> DEFINE Body(g) == [tp \in Node \X Node |-> PatchLevel(g, tp[1], tp[2])]
           T == {n \in 0 .. MaxDepth + 2 : \E g : \A target, patch \in Node :
                    NodeDepth(patch) < n => g[<<target, patch>>] = PatchLevel(g, target, patch)}
<1>1. 0 \in T
  BY DocumentsAssumption, NodeDepthFacts
<1>2. ASSUME NEW n \in 0 .. (MaxDepth + 2) - 1, n \in T PROVE n + 1 \in T
  <2>1. PICK g : \A target, patch \in Node :
                    NodeDepth(patch) < n => g[<<target, patch>>] = PatchLevel(g, target, patch)
    BY <1>2
  <2>2. \A target, patch \in Node : Body(g)[<<target, patch>>] = PatchLevel(g, target, patch)
    OBVIOUS
  <2> HIDE DEF Body
  <2>3. ASSUME NEW target \in Node, NEW patch \in Node, NodeDepth(patch) < n + 1
        PROVE  Body(g)[<<target, patch>>] = PatchLevel(Body(g), target, patch)
    <3>1. \A t, p \in Node : NodeDepth(p) < NodeDepth(patch) => g[<<t, p>>] = Body(g)[<<t, p>>]
      BY <2>1, <2>2, <2>3, NodeDepthFacts
    <3>2. PatchLevel(g, target, patch) = PatchLevel(Body(g), target, patch)
      BY <3>1, PatchLevelLocal
    <3>3. QED
      BY <2>2, <3>2
  <2>4. n + 1 \in 0 .. MaxDepth + 2
    BY DocumentsAssumption
  <2>5. QED
    BY <2>3, <2>4
<1>3. MaxDepth + 2 \in T
  <2> HIDE DEF T
  <2>1. QED
    BY <1>1, <1>2, IntervalInduction, DocumentsAssumption
<1>4. PICK g : \A target, patch \in Node : g[<<target, patch>>] = PatchLevel(g, target, patch)
  <2>1. \A patch \in Node : NodeDepth(patch) < MaxDepth + 2
    BY NodeDepthFacts, DocumentsAssumption
  <2>2. QED
    BY <1>3, <2>1
<1>5. Body(g) = Body(Body(g))
  <2>1. \A target, patch \in Node : Body(g)[<<target, patch>>] = g[<<target, patch>>]
    BY <1>4
  <2> HIDE DEF Body
  <2>2. \A target, patch \in Node : PatchLevel(g, target, patch) = PatchLevel(Body(g), target, patch)
    BY <2>1, PatchLevelLocal
  <2>3. \A tp \in Node \X Node : tp[1] \in Node /\ tp[2] \in Node
    OBVIOUS
  <2>4. QED
    BY <2>2, <2>3 DEF Body
<1>6. MergePatch = CHOOSE h : h = Body(h)
  BY DEF MergePatch, PatchLevel
<1>7. MergePatch = Body(MergePatch)
  BY <1>5, <1>6, Zenon
<1>8. QED
  BY <1>7

\* And the search for a null that meets no map.
LEMMA NullsIntoNothingUnfolds ==
    \A target, patch \in Node : NullsIntoNothing[<<target, patch>>] = NullLevel(NullsIntoNothing, target, patch)
<1> DEFINE Body(g) == [tp \in Node \X Node |-> NullLevel(g, tp[1], tp[2])]
           T == {n \in 0 .. MaxDepth + 2 : \E g : \A target, patch \in Node :
                    NodeDepth(patch) < n => g[<<target, patch>>] = NullLevel(g, target, patch)}
<1>1. 0 \in T
  BY DocumentsAssumption, NodeDepthFacts
<1>2. ASSUME NEW n \in 0 .. (MaxDepth + 2) - 1, n \in T PROVE n + 1 \in T
  <2>1. PICK g : \A target, patch \in Node :
                    NodeDepth(patch) < n => g[<<target, patch>>] = NullLevel(g, target, patch)
    BY <1>2
  <2>2. \A target, patch \in Node : Body(g)[<<target, patch>>] = NullLevel(g, target, patch)
    OBVIOUS
  <2> HIDE DEF Body
  <2>3. ASSUME NEW target \in Node, NEW patch \in Node, NodeDepth(patch) < n + 1
        PROVE  Body(g)[<<target, patch>>] = NullLevel(Body(g), target, patch)
    <3>1. \A t, p \in Node : NodeDepth(p) < NodeDepth(patch) => g[<<t, p>>] = Body(g)[<<t, p>>]
      BY <2>1, <2>2, <2>3, NodeDepthFacts
    <3>2. NullLevel(g, target, patch) = NullLevel(Body(g), target, patch)
      BY <3>1, PatchLevelLocal
    <3>3. QED
      BY <2>2, <3>2
  <2>4. n + 1 \in 0 .. MaxDepth + 2
    BY DocumentsAssumption
  <2>5. QED
    BY <2>3, <2>4
<1>3. MaxDepth + 2 \in T
  <2> HIDE DEF T
  <2>1. QED
    BY <1>1, <1>2, IntervalInduction, DocumentsAssumption
<1>4. PICK g : \A target, patch \in Node : g[<<target, patch>>] = NullLevel(g, target, patch)
  <2>1. \A patch \in Node : NodeDepth(patch) < MaxDepth + 2
    BY NodeDepthFacts, DocumentsAssumption
  <2>2. QED
    BY <1>3, <2>1
<1>5. Body(g) = Body(Body(g))
  <2>1. \A target, patch \in Node : Body(g)[<<target, patch>>] = g[<<target, patch>>]
    BY <1>4
  <2> HIDE DEF Body
  <2>2. \A target, patch \in Node : NullLevel(g, target, patch) = NullLevel(Body(g), target, patch)
    BY <2>1, PatchLevelLocal
  <2>3. \A tp \in Node \X Node : tp[1] \in Node /\ tp[2] \in Node
    OBVIOUS
  <2>4. QED
    BY <2>2, <2>3 DEF Body
<1>6. NullsIntoNothing = CHOOSE h : h = Body(h)
  BY DEF NullsIntoNothing, NullLevel
<1>7. NullsIntoNothing = Body(NullsIntoNothing)
  BY <1>5, <1>6, Zenon
<1>8. QED
  BY <1>7

\* Where no map of the patch holds a null, what meets no map is taken over
\* as it is, by the RFC too.
LEMMA PatchTakenOver ==
    \A target, patch \in Node :
        ~IsMap(target) /\ NullsIntoNothing[<<target, patch>>] = {} =>
            MergePatch[<<target, patch>>] = patch
<1> DEFINE T == {n \in 0 .. MaxDepth + 2 : \A target, patch \in Node :
                   NodeDepth(patch) < n /\ ~IsMap(target) /\ NullsIntoNothing[<<target, patch>>] = {} =>
                      MergePatch[<<target, patch>>] = patch}
<1>1. 0 \in T
  BY DocumentsAssumption, NodeDepthFacts
<1>2. ASSUME NEW n \in 0 .. (MaxDepth + 2) - 1, n \in T PROVE n + 1 \in T
  <2>1. ASSUME NEW target \in Node, NEW patch \in Node, NodeDepth(patch) < n + 1,
               ~IsMap(target), NullsIntoNothing[<<target, patch>>] = {}
        PROVE  MergePatch[<<target, patch>>] = patch
    <3>1. /\ MergePatch[<<target, patch>>] = PatchLevel(MergePatch, target, patch)
          /\ NullLevel(NullsIntoNothing, target, patch) = {}
      BY <2>1, MergePatchUnfolds, NullsIntoNothingUnfolds
    <3>2. CASE ~IsMap(patch)
      BY <3>1, <3>2 DEF PatchLevel
    <3>3. CASE IsMap(patch)
      <4> DEFINE pm == patch.map
      <4>1. pm \in Maps /\ patch = Map(pm) /\ pm = [k \in DOMAIN pm |-> pm[k]]
        BY <3>3, NodeFacts, MapFacts
      <4>2. ASSUME NEW k \in DOMAIN pm
            PROVE  pm[k] # Null /\ MergePatch[<<Meets(target, k), pm[k]>>] = pm[k]
        <5>1. Meets(target, k) = Null
          BY <2>1, MeetsFacts
        <5>2. pm[k] # Null /\ NullsIntoNothing[<<Null, pm[k]>>] = {}
          BY <2>1, <3>1, <3>3, <5>1 DEF NullLevel
        <5>3. pm[k] \in Node /\ NodeDepth(pm[k]) < n
          BY <2>1, <3>3, NodeDepthFacts
        <5>4. MergePatch[<<Null, pm[k]>>] = pm[k]
          BY <1>2, <5>2, <5>3, NodeFacts
        <5>5. QED
          BY <5>1, <5>2, <5>4
      <4>3. Left(Old(target), pm) = DOMAIN pm
        BY <2>1, <4>2 DEF Left, Old, Empty
      <4>4. PatchLevel(MergePatch, target, patch) =
               Map([k \in DOMAIN pm |-> MergePatch[<<Meets(target, k), pm[k]>>]])
        BY <3>3, <4>3 DEF PatchLevel
      <4>5. [k \in DOMAIN pm |-> MergePatch[<<Meets(target, k), pm[k]>>]] = pm
        <5> HIDE DEF pm
        <5>1. QED
          BY <4>1, <4>2
      <4>6. QED
        BY <3>1, <4>1, <4>4, <4>5
    <3>4. QED
      BY <3>2, <3>3
  <2>2. n + 1 \in 0 .. MaxDepth + 2
    BY DocumentsAssumption
  <2>3. QED
    BY <2>1, <2>2
<1>3. MaxDepth + 2 \in T
  <2> HIDE DEF T
  <2>1. QED
    BY <1>1, <1>2, IntervalInduction, DocumentsAssumption
<1>4. \A patch \in Node : NodeDepth(patch) < MaxDepth + 2
  BY NodeDepthFacts, DocumentsAssumption
<1>5. QED
  BY <1>3, <1>4

\* Where no map of the patch that meets no map holds a null, MergeMaps is
\* the merge of RFC 7386.
THEOREM MergeIsRFC ==
    \A base, patch \in Maps :
        NullsIntoNothing[<<Map(base), Map(patch)>>] = {} =>
            MergePatch[<<Map(base), Map(patch)>>] = Map(MergeMaps[<<base, patch>>])
<1> DEFINE T == {n \in 0 .. MaxDepth + 1 : \A base, patch \in Maps :
                   Depth[base] < n /\ NullsIntoNothing[<<Map(base), Map(patch)>>] = {} =>
                      MergePatch[<<Map(base), Map(patch)>>] = Map(MergeMaps[<<base, patch>>])}
<1>1. 0 \in T
  BY DocumentsAssumption, MapFacts
<1>2. ASSUME NEW n \in 0 .. (MaxDepth + 1) - 1, n \in T PROVE n + 1 \in T
  <2>1. ASSUME NEW base \in Maps, NEW patch \in Maps, Depth[base] < n + 1,
               NullsIntoNothing[<<Map(base), Map(patch)>>] = {}
        PROVE  MergePatch[<<Map(base), Map(patch)>>] = Map(MergeMaps[<<base, patch>>])
    <3>1. /\ Map(base) \in Node /\ IsMap(Map(base)) /\ Map(base).map = base
          /\ Map(patch) \in Node /\ IsMap(Map(patch)) /\ Map(patch).map = patch
      BY NodeFacts
    <3>2. /\ MergePatch[<<Map(base), Map(patch)>>] = PatchLevel(MergePatch, Map(base), Map(patch))
          /\ NullLevel(NullsIntoNothing, Map(base), Map(patch)) = {}
          /\ MergeMaps[<<base, patch>>] = MergeLevel(MergeMaps, base, patch)
      BY <2>1, <3>1, MergePatchUnfolds, NullsIntoNothingUnfolds, MergeMapsUnfolds
    <3>3. Old(Map(base)) = base
      BY <3>1 DEF Old
    <3>4. ASSUME NEW k \in DOMAIN patch
          PROVE  MergePatch[<<Meets(Map(base), k), patch[k]>>] =
                    IF k \in DOMAIN base /\ IsMap(base[k]) /\ IsMap(patch[k])
                    THEN Map(MergeMaps[<<base[k].map, patch[k].map>>]) ELSE patch[k]
      <4>1. NullsIntoNothing[<<Meets(Map(base), k), patch[k]>>] = {}
        BY <3>1, <3>2 DEF NullLevel
      <4>2. Meets(Map(base), k) = IF k \in DOMAIN base THEN base[k] ELSE Null
        BY <3>3 DEF Meets
      <4>3. Meets(Map(base), k) \in Node /\ patch[k] \in Node
        BY <3>1, MeetsFacts, MapFacts
      <4>4. CASE k \in DOMAIN base /\ IsMap(base[k]) /\ IsMap(patch[k])
        <5>1. /\ base[k].map \in Maps /\ Depth[base[k].map] < n /\ base[k] = Map(base[k].map)
              /\ patch[k].map \in Maps /\ patch[k] = Map(patch[k].map)
          BY <2>1, <4>4, MapFacts, NodeFacts
        <5>2. NullsIntoNothing[<<Map(base[k].map), Map(patch[k].map)>>] = {}
          BY <4>1, <4>2, <4>4, <5>1
        <5>3. MergePatch[<<Map(base[k].map), Map(patch[k].map)>>] =
                 Map(MergeMaps[<<base[k].map, patch[k].map>>])
          BY <1>2, <5>1, <5>2
        <5>4. QED
          BY <4>2, <4>4, <5>1, <5>3
      <4>5. CASE ~IsMap(patch[k])
        <5>1. MergePatch[<<Meets(Map(base), k), patch[k]>>] =
                 PatchLevel(MergePatch, Meets(Map(base), k), patch[k])
          BY <4>3, MergePatchUnfolds
        <5>2. QED
          BY <4>5, <5>1 DEF PatchLevel
      <4>6. CASE ~(k \in DOMAIN base /\ IsMap(base[k]))
        BY <4>1, <4>2, <4>3, <4>6, PatchTakenOver, NodeFacts
      <4>7. QED
        BY <4>4, <4>5, <4>6
    <3>5. PatchLevel(MergePatch, Map(base), Map(patch)) =
             Map([k \in Left(base, patch) |->
                    IF k \notin DOMAIN patch THEN base[k]
                    ELSE MergePatch[<<Meets(Map(base), k), patch[k]>>]])
      BY <3>1, <3>3 DEF PatchLevel
    <3>6. QED
      BY <3>2, <3>4, <3>5 DEF MergeLevel
  <2>2. n + 1 \in 0 .. MaxDepth + 1
    BY DocumentsAssumption
  <2>3. QED
    BY <2>1, <2>2
<1>3. MaxDepth + 1 \in T
  <2> HIDE DEF T
  <2>1. QED
    BY <1>1, <1>2, IntervalInduction, DocumentsAssumption
<1>4. \A base \in Maps : Depth[base] < MaxDepth + 1
  BY MapFacts, DocumentsAssumption
<1>5. QED
  BY <1>3, <1>4

-----------------------------------------------------------------------------
(* The fields of a child.                                                  *)

\* What With and Without leave at a key.
LEMMA WithFacts ==
    /\ \A d, k, n : Field(With(d, k, n), k) = {n}
    /\ \A d, k, n, j : j # k => Field(With(d, k, n), j) = Field(d, j)
    /\ \A d, keys, j : j \in keys => Field(Without(d, keys), j) = {}
    /\ \A d, keys, j : j \notin keys => Field(Without(d, keys), j) = Field(d, j)
BY DEF With, Without, Field

\* The map at a key is determined by the field.
LEMMA SubFacts ==
    /\ \A d, e, k : Field(d, k) = Field(e, k) => Sub(d, k) = Sub(e, k)
    /\ \A d, k, f : Field(d, k) = {Map(f)} => Sub(d, k) = f
    /\ \A d, k : Field(d, k) = {} => Sub(d, k) = Empty
    /\ \A d, k : (\A n \in Field(d, k) : ~IsMap(n)) => Sub(d, k) = Empty
    /\ \A k : Field(Empty, k) = {}
BY NodeFacts DEF Field, Sub, Empty

\* Maps whose fields agree but for some keys.
LEMMA SameButFacts ==
    \A keys, d, e : (\A k : k \notin keys => Field(d, k) = Field(e, k)) => SameBut(keys, d, e)
BY DEF SameBut

\* The clean-up of the annotations touches no other field and drops one
\* annotation.
LEMMA AnnotationsFacts ==
    ASSUME NEW md
    PROVE  /\ \A k : k # "annotations" => Field(Annotations(md), k) = Field(md, k)
           /\ SameBut({"last-applied"}, Sub(md, "annotations"), Sub(Annotations(md), "annotations"))
<1> DEFINE left == Without(md["annotations"].map, {"last-applied"})
<1>1. CASE "annotations" \notin DOMAIN md \/ ~IsMap(md["annotations"])
  BY <1>1, SameButFacts DEF Annotations
<1>2. CASE "annotations" \in DOMAIN md /\ IsMap(md["annotations"])
  <2>1. Sub(md, "annotations") = md["annotations"].map
    BY <1>2 DEF Sub
  <2>2. \A k : k # "last-applied" => Field(left, k) = Field(Sub(md, "annotations"), k)
    BY <2>1, WithFacts
  <2> HIDE DEF left
  <2>3. CASE DOMAIN left = {}
    <3>1. Annotations(md) = Without(md, {"annotations"})
      BY <1>2, <2>3 DEF Annotations, left
    <3>2. Sub(Annotations(md), "annotations") = Empty
      BY <3>1, WithFacts, SubFacts
    <3>3. \A k : Field(left, k) = {}
      BY <2>3 DEF Field
    <3>4. \A k : k # "annotations" => Field(Annotations(md), k) = Field(md, k)
      BY <3>1, WithFacts
    <3>5. \A k : k # "last-applied" =>
             Field(Sub(md, "annotations"), k) = Field(Sub(Annotations(md), "annotations"), k)
      BY <2>2, <3>2, <3>3, SubFacts
    <3>6. QED
      BY <3>4, <3>5, SameButFacts
  <2>4. CASE DOMAIN left # {}
    <3>1. Annotations(md) = With(md, "annotations", Map(left))
      BY <1>2, <2>4 DEF Annotations, left
    <3>2. Sub(Annotations(md), "annotations") = left
      BY <3>1, WithFacts, SubFacts
    <3>3. \A k : k # "annotations" => Field(Annotations(md), k) = Field(md, k)
      BY <3>1, WithFacts
    <3>4. QED
      BY <2>2, <3>2, <3>3, SameButFacts
  <2>5. QED
    BY <2>3, <2>4
<1>3. QED
  BY <1>1, <1>2

\* Stripping leaves every field but status and metadata, and of metadata all
\* but the pasted identity and one annotation.
LEMMA StripFacts ==
    ASSUME NEW a
    PROVE  LET d  == stripPastedMetadata(a)
               md == Sub(d, "metadata")
           IN  /\ Field(d, "status") = {}
               /\ \A k : k \notin {"status", "metadata"} => Field(d, k) = Field(a, k)
               /\ (\A n \in Field(d, "metadata") : IsMap(n)) <=>
                     (\A n \in Field(a, "metadata") : IsMap(n))
               /\ \A k \in Pasted : Field(md, k) = {}
               /\ \A k : k \notin Pasted \cup {"annotations"} =>
                     Field(md, k) = Field(Sub(a, "metadata"), k)
               /\ SameBut({"last-applied"}, Sub(Sub(a, "metadata"), "annotations"),
                          Sub(md, "annotations"))
<1> DEFINE d    == stripPastedMetadata(a)
           bare == Without(a, {"status"})
           old  == Sub(a, "metadata")
           rest == Without(old, Pasted)
<1>1. /\ Field(bare, "status") = {}
      /\ \A k : k # "status" => Field(bare, k) = Field(a, k)
  BY WithFacts
<1>2. CASE "metadata" \in DOMAIN bare /\ IsMap(bare["metadata"])
  <2>1. bare["metadata"].map = old
    <3>1. Field(bare, "metadata") = Field(a, "metadata")
      BY <1>1
    <3>2. Sub(bare, "metadata") = old
      BY <3>1, SubFacts
    <3>3. QED
      BY <1>2, <3>2 DEF Sub
  <2>2. d = With(bare, "metadata", Map(Annotations(rest)))
    BY <1>2, <2>1 DEF stripPastedMetadata
  <2> HIDE DEF d, bare, old, rest
  <2>3. /\ Field(d, "metadata") = {Map(Annotations(rest))}
        /\ \A k : k # "metadata" => Field(d, k) = Field(bare, k)
    BY <2>2, WithFacts
  <2>4. Sub(d, "metadata") = Annotations(rest)
    BY <2>3, SubFacts
  <2>5. /\ \A n \in Field(d, "metadata") : IsMap(n)
        /\ \A n \in Field(a, "metadata") : IsMap(n)
    <3>1. \A n \in Field(bare, "metadata") : IsMap(n)
      BY <1>2 DEF Field
    <3>2. QED
      BY <1>1, <2>3, <3>1, NodeFacts
  <2>6. \A k : k \notin Pasted => Field(rest, k) = Field(old, k)
    BY WithFacts DEF rest
  <2>7. \A k \in Pasted : Field(rest, k) = {} /\ k # "annotations"
    BY WithFacts DEF rest, Pasted
  <2>8. Sub(rest, "annotations") = Sub(old, "annotations")
    BY <2>6, SubFacts DEF Pasted
  <2>9. /\ \A k : k # "annotations" => Field(Annotations(rest), k) = Field(rest, k)
        /\ SameBut({"last-applied"}, Sub(rest, "annotations"), Sub(Annotations(rest), "annotations"))
    BY AnnotationsFacts
  <2>10. /\ Field(d, "status") = {}
         /\ \A k : k \notin {"status", "metadata"} => Field(d, k) = Field(a, k)
    BY <1>1, <2>3
  <2>11. \A k \in Pasted : Field(Annotations(rest), k) = {}
    BY <2>7, <2>9
  <2>12. \A k : k \notin Pasted \cup {"annotations"} => Field(Annotations(rest), k) = Field(old, k)
    BY <2>6, <2>9
  <2>13. QED
    BY <2>4, <2>5, <2>8, <2>9, <2>10, <2>11, <2>12 DEF d, old
<1>3. CASE ~("metadata" \in DOMAIN bare /\ IsMap(bare["metadata"]))
  <2>1. d = bare
    BY <1>3 DEF stripPastedMetadata
  <2>2. Sub(d, "metadata") = Empty
    BY <1>3, <2>1 DEF Sub
  <2> HIDE DEF d, bare, old, rest
  <2>3. Field(d, "metadata") = Field(a, "metadata")
    BY <1>1, <2>1
  <2>4. old = Empty
    BY <2>2, <2>3, SubFacts DEF old
  <2>5. \A k : Field(Sub(d, "metadata"), k) = {} /\ Field(old, k) = {}
    BY <2>2, <2>4, SubFacts
  <2>6. Sub(old, "annotations") = Sub(Sub(d, "metadata"), "annotations")
    BY <2>2, <2>4
  <2>7. SameBut({"last-applied"}, Sub(old, "annotations"), Sub(Sub(d, "metadata"), "annotations"))
    BY <2>6, SameButFacts
  <2>8. QED
    BY <1>1, <2>1, <2>3, <2>5, <2>7 DEF d, old
<1>4. QED
  BY <1>2, <1>3

\* The controller's labels win, the others stay.
LEMMA LabelledFacts ==
    ASSUME NEW labels, NEW g
    PROVE  /\ \A k \in DOMAIN ControllerLabels(g) :
                 Field(Labelled(labels, g), k) = {ControllerLabels(g)[k]}
           /\ \A k : k \notin DOMAIN ControllerLabels(g) =>
                 Field(Labelled(labels, g), k) = Field(labels, k)
           /\ \A k \in DOMAIN MatchLabels(g) :
                 k \in DOMAIN ControllerLabels(g) /\ ControllerLabels(g)[k] = MatchLabels(g)[k]
<1>1. /\ \A k \in DOMAIN ControllerLabels(g) :
            Field(Labelled(labels, g), k) = {ControllerLabels(g)[k]}
      /\ \A k : k \notin DOMAIN ControllerLabels(g) =>
            Field(Labelled(labels, g), k) = Field(labels, k)
  BY DEF Labelled, Field
<1>2. \A k \in DOMAIN MatchLabels(g) :
         k \in DOMAIN ControllerLabels(g) /\ ControllerLabels(g)[k] = MatchLabels(g)[k]
  BY DEF ControllerLabels, MatchLabels, With
<1>3. QED
  BY <1>1, <1>2

\* e is d with name, namespace, labels and owner in its metadata, if that is a
\* map.
MetadataIsMap(a) == \A n \in Field(a, "metadata") : IsMap(n)

MetadataSet(d, e, g) ==
    /\ \A k : k # "metadata" => Field(e, k) = Field(d, k)
    /\ \A k : k \notin {"name", "namespace", "labels", "ownerReferences"} =>
          Field(Sub(e, "metadata"), k) = Field(Sub(d, "metadata"), k)
    /\ MetadataIsMap(d) =>
          /\ Field(Sub(e, "metadata"), "name") = {NameOf(g)}
          /\ Field(Sub(e, "metadata"), "namespace") = {Leaf("this namespace")}
          /\ Field(Sub(e, "metadata"), "ownerReferences") = {Leaf("this pool")}
          /\ Sub(Sub(e, "metadata"), "labels") = Labelled(GetLabels(Sub(d, "metadata")), g)
    /\ ~MetadataIsMap(d) => Sub(e, "metadata") = Empty /\ Sub(d, "metadata") = Empty

\* The metadata setters do that.
LEMMA MetadataFacts ==
    ASSUME NEW d, NEW g
    PROVE  MetadataSet(d, Metadata(d, g), g)
<1> DEFINE e   == Metadata(d, g)
           old == Sub(d, "metadata")
           new == [k \in DOMAIN old \cup {"name", "namespace", "labels", "ownerReferences"} |->
                     CASE k = "name"            -> NameOf(g)
                       [] k = "namespace"       -> Leaf("this namespace")
                       [] k = "labels"          -> Map(Labelled(GetLabels(old), g))
                       [] k = "ownerReferences" -> Leaf("this pool")
                       [] OTHER                 -> old[k]]
<1>1. CASE "metadata" \in DOMAIN d /\ ~IsMap(d["metadata"])
  <2>1. e = d
    BY <1>1 DEF Metadata
  <2>2. ~MetadataIsMap(d) /\ old = Empty
    BY <1>1 DEF MetadataIsMap, Field, Sub
  <2>3. QED
    BY <2>1, <2>2 DEF MetadataSet
<1>2. CASE ~("metadata" \in DOMAIN d /\ ~IsMap(d["metadata"]))
  <2>1. e = With(d, "metadata", Map(new))
    BY <1>2 DEF Metadata
  <2>2. MetadataIsMap(d)
    BY <1>2 DEF MetadataIsMap, Field
  <2>3. Field(new, "name") = {NameOf(g)}
    BY DEF Field
  <2>4. /\ Field(new, "ownerReferences") = {Leaf("this pool")}
        /\ Field(new, "namespace") = {Leaf("this namespace")}
    BY DEF Field
  <2>5. Field(new, "labels") = {Map(Labelled(GetLabels(old), g))}
    BY DEF Field
  <2>6. \A k : k \notin {"name", "namespace", "labels", "ownerReferences"} => Field(new, k) = Field(old, k)
    BY DEF Field
  <2> HIDE DEF new, e, old
  <2>7. Sub(e, "metadata") = new /\ \A k : k # "metadata" => Field(e, k) = Field(d, k)
    BY <2>1, WithFacts, SubFacts
  <2>8. Sub(new, "labels") = Labelled(GetLabels(old), g)
    BY <2>5, SubFacts
  <2>9. QED
    BY <2>2, <2>3, <2>4, <2>6, <2>7, <2>8 DEF MetadataSet, e, old
<1>3. QED
  BY <1>1, <1>2

\* The spec of a child, from that of the merged document.
SpecOf(spec, g, replicas) ==
    [k \in DOMAIN spec \cup {"selector", "replicas"} |->
        CASE k = "template" -> Map(PodTemplate(spec["template"].map, g))
          [] k = "selector" -> Map(With(Sub(spec, "selector"), "matchLabels", Map(MatchLabels(g))))
          [] k = "replicas" -> Number(replicas)
          [] OTHER          -> spec[k]]

\* The spec "new" has selector, replicas and pod template of a child.
SpecSet(spec, new, g, replicas) ==
    /\ Field(new, "replicas") = {Number(replicas)}
    /\ Sub(new, "selector") = With(Sub(spec, "selector"), "matchLabels", Map(MatchLabels(g)))
    /\ Sub(new, "template") = PodTemplate(Sub(spec, "template"), g)
    /\ \A k : k \notin {"template", "selector", "replicas"} => Field(new, k) = Field(spec, k)

\* SpecOf sets them.
LEMMA SpecFacts ==
    ASSUME NEW spec, NEW g, NEW replicas, "template" \in DOMAIN spec, IsMap(spec["template"])
    PROVE  SpecSet(spec, SpecOf(spec, g, replicas), g, replicas)
<1> DEFINE new == SpecOf(spec, g, replicas)
<1>1. Field(new, "replicas") = {Number(replicas)}
  BY DEF Field, SpecOf
<1>2. Field(new, "selector") = {Map(With(Sub(spec, "selector"), "matchLabels", Map(MatchLabels(g))))}
  BY DEF Field, SpecOf
<1>3. Field(new, "template") = {Map(PodTemplate(spec["template"].map, g))}
  BY DEF Field, SpecOf
<1>4. \A k : k \notin {"template", "selector", "replicas"} => Field(new, k) = Field(spec, k)
  BY DEF Field, SpecOf
<1>5. Sub(spec, "template") = spec["template"].map
  BY DEF Sub
<1> HIDE DEF new
<1>6. QED
  BY <1>1, <1>2, <1>3, <1>4, <1>5, SubFacts DEF SpecSet, new

\* The pod template keeps all of the user's but what the labels hide.
LEMMA PodTemplateFacts ==
    ASSUME NEW t, NEW g, NEW new, new = PodTemplate(t, g)
    PROVE  /\ \A k : k # "metadata" => Field(new, k) = Field(t, k)
           /\ \A k : k # "labels" => Field(Sub(new, "metadata"), k) = Field(Sub(t, "metadata"), k)
           /\ Sub(Sub(new, "metadata"), "labels") = Labelled(Sub(Sub(t, "metadata"), "labels"), g)
<1> DEFINE labels == Labelled(Sub(Sub(t, "metadata"), "labels"), g)
           md == With(Sub(t, "metadata"), "labels", Map(labels))
<1>1. new = With(t, "metadata", Map(md))
  BY DEF PodTemplate
<1> HIDE DEF md, labels
<1>2. Sub(new, "metadata") = md /\ \A k : k # "metadata" => Field(new, k) = Field(t, k)
  BY <1>1, WithFacts, SubFacts
<1>3. Sub(md, "labels") = labels
  BY WithFacts, SubFacts DEF md
<1>4. \A k : k # "labels" => Field(md, k) = Field(Sub(t, "metadata"), k)
  BY WithFacts DEF md
<1>5. QED
  BY <1>2, <1>3, <1>4 DEF labels

\* A child from the document it is rendered from, which has a pod template.
ChildOf(a, g, replicas) ==
    LET d == stripPastedMetadata(a)
    IN  Metadata(With(d, "spec", Map(SpecOf(Sub(d, "spec"), g, replicas))), g)

HasTemplate(a) == "template" \in DOMAIN Sub(a, "spec") /\ IsMap(Sub(a, "spec")["template"])

\* What BuildChildWorkload returns where it does not fail.
LEMMA RenderedForm ==
    ASSUME NEW template, NEW over, NEW g, NEW replicas, NEW a,
           BuildChildWorkload(template, over, g, replicas) # Failed,
           a = IF over = NoOverrides THEN template ELSE MergeMaps[<<template, over.map>>]
    PROVE  /\ over # Malformed /\ HasTemplate(a)
           /\ BuildChildWorkload(template, over, g, replicas) = Map(ChildOf(a, g, replicas))
<1> DEFINE d == stripPastedMetadata(a)
<1>1. Merged(template, over) = d
  BY DEF Merged
<1>2. /\ over # Malformed
      /\ "template" \in DOMAIN Sub(d, "spec") /\ IsMap(Sub(d, "spec")["template"])
      /\ BuildChildWorkload(template, over, g, replicas) = Map(ChildOf(a, g, replicas))
  BY <1>1 DEF BuildChildWorkload, SpecOf, ChildOf
<1>3. Sub(d, "spec") = Sub(a, "spec")
  BY StripFacts, SubFacts
<1>4. QED
  BY <1>2, <1>3 DEF HasTemplate

\* A child c, field by field, from the document it is rendered from.
ChildFields(a, c, g, replicas) ==
    /\ Sub(c, "spec") = SpecOf(Sub(a, "spec"), g, replicas)
    /\ Field(c, "status") = {}
    /\ \A k : k \notin {"spec", "metadata", "status"} => Field(c, k) = Field(a, k)
    /\ Field(Sub(c, "metadata"), "uid") = {}
    /\ \A k : k \notin {"name", "namespace", "labels", "annotations"} \cup Pasted =>
          Field(Sub(c, "metadata"), k) = Field(Sub(a, "metadata"), k)
    /\ SameBut({"last-applied"}, Sub(Sub(a, "metadata"), "annotations"),
                                  Sub(Sub(c, "metadata"), "annotations"))
    /\ MetadataIsMap(a) =>
          /\ Field(Sub(c, "metadata"), "name") = {NameOf(g)}
          /\ Field(Sub(c, "metadata"), "namespace") = {Leaf("this namespace")}
          /\ Field(Sub(c, "metadata"), "ownerReferences") = {Leaf("this pool")}
          /\ Sub(Sub(c, "metadata"), "labels") = Labelled(GetLabels(Sub(a, "metadata")), g)
    /\ ~MetadataIsMap(a) => Sub(c, "metadata") = Empty /\ Sub(a, "metadata") = Empty

\* ChildOf has these fields.
LEMMA ChildFacts ==
    ASSUME NEW a, NEW g, NEW replicas
    PROVE  ChildFields(a, ChildOf(a, g, replicas), g, replicas)
<1> DEFINE d  == stripPastedMetadata(a)
           e  == With(d, "spec", Map(SpecOf(Sub(d, "spec"), g, replicas)))
           c  == ChildOf(a, g, replicas)
           md == Sub(c, "metadata")
           dm == Sub(d, "metadata")
           am == Sub(a, "metadata")
<1>1. /\ Field(d, "status") = {}
      /\ \A k : k \notin {"status", "metadata"} => Field(d, k) = Field(a, k)
      /\ MetadataIsMap(d) <=> MetadataIsMap(a)
      /\ \A k \in Pasted : Field(dm, k) = {}
      /\ \A k : k \notin Pasted \cup {"annotations"} => Field(dm, k) = Field(am, k)
      /\ SameBut({"last-applied"}, Sub(am, "annotations"), Sub(dm, "annotations"))
  BY StripFacts DEF MetadataIsMap
<1>2. Sub(d, "spec") = Sub(a, "spec")
  BY <1>1, SubFacts
<1>3. c = Metadata(e, g)
  BY DEF ChildOf
<1>4. /\ \A k : k # "metadata" => Field(c, k) = Field(e, k)
      /\ \A k : k \notin {"name", "namespace", "labels", "ownerReferences"} =>
            Field(md, k) = Field(Sub(e, "metadata"), k)
      /\ MetadataIsMap(e) =>
            /\ Field(md, "name") = {NameOf(g)}
            /\ Field(md, "namespace") = {Leaf("this namespace")}
            /\ Field(md, "ownerReferences") = {Leaf("this pool")}
            /\ Sub(md, "labels") = Labelled(GetLabels(Sub(e, "metadata")), g)
      /\ ~MetadataIsMap(e) => md = Empty /\ Sub(e, "metadata") = Empty
  <2> HIDE DEF e, c
  <2>1. MetadataSet(e, c, g)
    BY <1>3, MetadataFacts
  <2>2. QED
    BY <2>1 DEF MetadataSet
<1>5. /\ Field(e, "spec") = {Map(SpecOf(Sub(d, "spec"), g, replicas))}
      /\ \A k : k # "spec" => Field(e, k) = Field(d, k)
  BY WithFacts
<1> HIDE DEF d, e, c, md, dm, am
<1>6. Sub(e, "metadata") = dm /\ (MetadataIsMap(e) <=> MetadataIsMap(a))
  BY <1>1, <1>5, SubFacts DEF MetadataIsMap, dm
<1>7. Sub(c, "spec") = SpecOf(Sub(a, "spec"), g, replicas)
  <2>1. Field(c, "spec") = {Map(SpecOf(Sub(a, "spec"), g, replicas))}
    BY <1>2, <1>4, <1>5
  <2>2. QED
    BY <2>1, SubFacts
<1>8. Field(c, "status") = {}
  BY <1>1, <1>4, <1>5
<1>9. \A k : k \notin {"spec", "metadata", "status"} => Field(c, k) = Field(a, k)
  BY <1>1, <1>4, <1>5
<1>10. Field(md, "uid") = {}
  BY <1>1, <1>4, <1>6 DEF Pasted
<1>11. ASSUME NEW k, k \notin {"name", "namespace", "labels", "annotations"} \cup Pasted
       PROVE  Field(md, k) = Field(am, k)
  <2>1. k \notin {"name", "namespace", "labels", "ownerReferences"} /\ k \notin Pasted \cup {"annotations"}
    BY <1>11 DEF Pasted
  <2>2. QED
    BY <1>1, <1>4, <1>6, <2>1
<1>12. SameBut({"last-applied"}, Sub(am, "annotations"), Sub(md, "annotations"))
  <2>1. Field(md, "annotations") = Field(dm, "annotations")
    BY <1>4, <1>6
  <2>2. QED
    BY <1>1, <2>1, SubFacts
<1>13. GetLabels(dm) = GetLabels(am)
  <2>1. Field(dm, "labels") = Field(am, "labels")
    BY <1>1 DEF Pasted
  <2>2. Sub(dm, "labels") = Sub(am, "labels")
    BY <2>1, SubFacts
  <2>3. QED
    BY <2>2 DEF GetLabels
<1>14. MetadataIsMap(a) =>
          /\ Field(md, "name") = {NameOf(g)}
          /\ Field(md, "namespace") = {Leaf("this namespace")}
          /\ Field(md, "ownerReferences") = {Leaf("this pool")}
          /\ Sub(md, "labels") = Labelled(GetLabels(am), g)
  BY <1>4, <1>6, <1>13
<1>15. ASSUME ~MetadataIsMap(a) PROVE md = Empty /\ am = Empty
  <2>1. am = Empty
    BY <1>15 DEF MetadataIsMap, am, Field, Sub
  <2>2. QED
    BY <1>4, <1>6, <1>15, <2>1
<1>16. QED
  BY <1>7, <1>8, <1>9, <1>10, <1>11, <1>12, <1>14, <1>15 DEF ChildFields, c, md, am

\* What of a child is the user's.
LEMMA ChildKeeps ==
    ASSUME NEW a, NEW g, NEW replicas, HasTemplate(a), NEW d, d = ChildOf(a, g, replicas),
           NEW as, as = Sub(a, "spec"), NEW ds, ds = Sub(d, "spec"),
           NEW ap, ap = Sub(Sub(as, "template"), "metadata"),
           NEW dp, dp = Sub(Sub(ds, "template"), "metadata"),
           NEW am, am = Sub(a, "metadata"), NEW dm, dm = Sub(d, "metadata")
    PROVE  /\ SameBut({"spec", "metadata", "status"}, a, d)
           /\ SameBut({"template", "selector", "replicas"}, as, ds)
           /\ SameBut({"matchLabels"}, Sub(as, "selector"), Sub(ds, "selector"))
           /\ SameBut({"metadata"}, Sub(as, "template"), Sub(ds, "template"))
           /\ SameBut({"labels"}, ap, dp)
           /\ SameBut(DOMAIN ControllerLabels(g), Sub(ap, "labels"), Sub(dp, "labels"))
           /\ SameBut({"name", "namespace", "labels", "annotations"} \cup Pasted, am, dm)
           /\ SameBut({"last-applied"}, Sub(am, "annotations"), Sub(dm, "annotations"))
           /\ (\A k \in DOMAIN Sub(am, "labels") : IsString(Sub(am, "labels")[k])) =>
                 SameBut(DOMAIN ControllerLabels(g), Sub(am, "labels"), Sub(dm, "labels"))
<1>1. /\ ds = SpecOf(as, g, replicas)
      /\ \A k : k \notin {"spec", "metadata", "status"} => Field(d, k) = Field(a, k)
      /\ \A k : k \notin {"name", "namespace", "labels", "annotations"} \cup Pasted => Field(dm, k) = Field(am, k)
      /\ SameBut({"last-applied"}, Sub(am, "annotations"), Sub(dm, "annotations"))
      /\ MetadataIsMap(a) => Sub(dm, "labels") = Labelled(GetLabels(am), g)
      /\ ~MetadataIsMap(a) => dm = Empty /\ am = Empty
  <2>1. ChildFields(a, d, g, replicas)
    BY ChildFacts
  <2>2. QED
    BY <2>1 DEF ChildFields
<1>2. /\ Sub(ds, "selector") = With(Sub(as, "selector"), "matchLabels", Map(MatchLabels(g)))
      /\ Sub(ds, "template") = PodTemplate(Sub(as, "template"), g)
      /\ \A k : k \notin {"template", "selector", "replicas"} => Field(ds, k) = Field(as, k)
  <2>1. SpecSet(as, ds, g, replicas)
    BY <1>1, SpecFacts DEF HasTemplate
  <2>2. QED
    BY <2>1 DEF SpecSet
<1>3. /\ \A k : k # "metadata" => Field(Sub(ds, "template"), k) = Field(Sub(as, "template"), k)
      /\ \A k : k # "labels" => Field(dp, k) = Field(ap, k)
      /\ Sub(dp, "labels") = Labelled(Sub(ap, "labels"), g)
  BY <1>2, PodTemplateFacts
<1>4. SameBut({"spec", "metadata", "status"}, a, d)
  BY <1>1, SameButFacts
<1>5. SameBut({"template", "selector", "replicas"}, as, ds)
  BY <1>2, SameButFacts
<1>6. SameBut({"matchLabels"}, Sub(as, "selector"), Sub(ds, "selector"))
  <2>1. \A k : k # "matchLabels" => Field(Sub(as, "selector"), k) = Field(Sub(ds, "selector"), k)
    BY <1>2, WithFacts
  <2>2. QED
    BY <2>1, SameButFacts
<1>7. SameBut({"metadata"}, Sub(as, "template"), Sub(ds, "template"))
  BY <1>3, SameButFacts
<1>8. SameBut({"labels"}, ap, dp)
  BY <1>3, SameButFacts
<1>9. SameBut(DOMAIN ControllerLabels(g), Sub(ap, "labels"), Sub(dp, "labels"))
  <2>1. \A k : k \notin DOMAIN ControllerLabels(g) =>
           Field(Labelled(Sub(ap, "labels"), g), k) = Field(Sub(ap, "labels"), k)
    BY LabelledFacts
  <2>2. QED
    BY <1>3, <2>1, SameButFacts
<1>10. SameBut({"name", "namespace", "labels", "annotations"} \cup Pasted, am, dm)
  BY <1>1, SameButFacts
<1>11. ASSUME \A k \in DOMAIN Sub(am, "labels") : IsString(Sub(am, "labels")[k])
       PROVE  SameBut(DOMAIN ControllerLabels(g), Sub(am, "labels"), Sub(dm, "labels"))
  <2>1. CASE MetadataIsMap(a)
    <3>1. Sub(dm, "labels") = Labelled(Sub(am, "labels"), g)
      BY <1>1, <1>11, <2>1 DEF GetLabels
    <3>2. \A k : k \notin DOMAIN ControllerLabels(g) =>
             Field(Labelled(Sub(am, "labels"), g), k) = Field(Sub(am, "labels"), k)
      BY LabelledFacts
    <3>3. QED
      BY <3>1, <3>2, SameButFacts
  <2>2. CASE ~MetadataIsMap(a)
    BY <1>1, <2>2, SameButFacts
  <2>3. QED
    BY <2>1, <2>2
<1>12. QED
  BY <1>1, <1>4, <1>5, <1>6, <1>7, <1>8, <1>9, <1>10, <1>11

\* What of a child d is the controller's.
ControllersOwn(a, d, g, replicas) ==
    LET spec == Sub(d, "spec")
        pods == Sub(Sub(Sub(spec, "template"), "metadata"), "labels")
        md   == Sub(d, "metadata")
    IN  /\ Field(spec, "replicas") = {Number(replicas)}
        /\ Field(Sub(spec, "selector"), "matchLabels") = {Map(MatchLabels(g))}
        /\ \A k \in DOMAIN MatchLabels(g) : Field(pods, k) = {MatchLabels(g)[k]}
        /\ Field(d, "status") = {} /\ Field(md, "uid") = {}
        /\ MetadataIsMap(a) =>
              /\ Field(md, "name") = {NameOf(g)}
              /\ Field(md, "namespace") = {Leaf("this namespace")}
              /\ Field(md, "ownerReferences") = {Leaf("this pool")}
              /\ \A k \in DOMAIN ControllerLabels(g) :
                    Field(Sub(md, "labels"), k) = {ControllerLabels(g)[k]}

\* ChildOf sets it.
LEMMA ChildOwned ==
    ASSUME NEW a, NEW g, NEW replicas, HasTemplate(a), NEW d, d = ChildOf(a, g, replicas)
    PROVE  ControllersOwn(a, d, g, replicas)
<1> DEFINE spec == Sub(d, "spec")
           pods == Sub(Sub(Sub(spec, "template"), "metadata"), "labels")
           md   == Sub(d, "metadata")
<1> DEFINE as   == Sub(a, "spec")
           old  == Sub(Sub(Sub(as, "template"), "metadata"), "labels")
<1>1. /\ spec = SpecOf(as, g, replicas)
      /\ Field(d, "status") = {} /\ Field(md, "uid") = {}
      /\ MetadataIsMap(a) =>
            /\ Field(md, "name") = {NameOf(g)}
            /\ Field(md, "namespace") = {Leaf("this namespace")}
            /\ Field(md, "ownerReferences") = {Leaf("this pool")}
            /\ Sub(md, "labels") = Labelled(GetLabels(Sub(a, "metadata")), g)
  <2>1. ChildFields(a, d, g, replicas)
    BY ChildFacts
  <2>2. QED
    BY <2>1 DEF ChildFields
<1>2. "template" \in DOMAIN as /\ IsMap(as["template"])
  BY DEF HasTemplate
<1> HIDE DEF as
<1>3. /\ Field(spec, "replicas") = {Number(replicas)}
      /\ Sub(spec, "selector") = With(Sub(as, "selector"), "matchLabels", Map(MatchLabels(g)))
      /\ Sub(spec, "template") = PodTemplate(Sub(as, "template"), g)
  <2>1. spec = SpecOf(as, g, replicas)
    BY <1>1
  <2> HIDE DEF spec
  <2>2. SpecSet(as, spec, g, replicas)
    BY <1>2, <2>1, SpecFacts
  <2>3. QED
    BY <2>2 DEF SpecSet
<1>4. pods = Labelled(old, g)
  BY <1>3, PodTemplateFacts
<1> HIDE DEF old
<1>5. \A k \in DOMAIN MatchLabels(g) : Field(Labelled(old, g), k) = {MatchLabels(g)[k]}
  BY LabelledFacts
<1>6. \A k \in DOMAIN ControllerLabels(g) :
         Field(Labelled(GetLabels(Sub(a, "metadata")), g), k) = {ControllerLabels(g)[k]}
  BY LabelledFacts
<1>7. Field(Sub(spec, "selector"), "matchLabels") = {Map(MatchLabels(g))}
  <2>1. Field(With(Sub(as, "selector"), "matchLabels", Map(MatchLabels(g))), "matchLabels") =
           {Map(MatchLabels(g))}
    BY DEF With, Field
  <2>2. QED
    BY <1>3, <2>1
<1> HIDE DEF spec, pods, md
<1>8. QED
  BY <1>1, <1>3, <1>4, <1>5, <1>6, <1>7 DEF ControllersOwn, spec, pods, md

-----------------------------------------------------------------------------
(* The pass over the groups.                                               *)

\* The document a group is rendered from: by MergeMaps, not by the RFC.
Source(g) ==
    IF input.over[g] = NoOverrides THEN input.template
    ELSE MergeMaps[<<input.template, input.over[g].map>>]

\* Template and overrides are documents.
LEMMA InputFacts ==
    ASSUME RenderInv, NEW g \in 1 .. Groups
    PROVE  /\ input.template \in Maps
           /\ input.over[g] \notin {NoOverrides, Malformed} =>
                 input.over[g].map \in Maps /\ input.over[g] = Map(input.over[g].map)
<1>1. input.template \in Maps /\ input.over[g] \in [map : Maps] \cup {NoOverrides, Malformed}
  BY DocumentsAssumption DEF RenderInv
<1>2. QED
  BY <1>1 DEF Map

\* Both merges leave a map at a key, or both something else.
LEMMA MergesKeepMaps ==
    ASSUME NEW base \in Maps, NEW patch \in Maps,
           MetadataIsMap(MergePatch[<<Map(base), Map(patch)>>].map)
    PROVE  MetadataIsMap(MergeMaps[<<base, patch>>])
<1> DEFINE k == "metadata"
           rfc == MergePatch[<<Map(base), Map(patch)>>].map
           here == MergeMaps[<<base, patch>>]
<1>1. here = MergeLevel(MergeMaps, base, patch)
  BY MergeMapsUnfolds
<1>2. MergePatch[<<Map(base), Map(patch)>>] = PatchLevel(MergePatch, Map(base), Map(patch))
  BY MergePatchUnfolds, NodeFacts
<1>3. Old(Map(base)) = base /\ IsMap(Map(patch)) /\ Map(patch).map = patch
  BY NodeFacts DEF Old
<1>4. rfc = [j \in Left(base, patch) |->
               IF j \notin DOMAIN patch THEN base[j]
               ELSE MergePatch[<<Meets(Map(base), j), patch[j]>>]]
  BY <1>2, <1>3, NodeFacts DEF PatchLevel
<1>5. ASSUME k \in DOMAIN here PROVE IsMap(here[k])
  <2>1. k \in Left(base, patch)
    BY <1>1, <1>5 DEF MergeLevel
  <2>2. IsMap(rfc[k])
    <3>1. k \in DOMAIN rfc
      BY <1>4, <2>1
    <3> HIDE DEF rfc
    <3>2. QED
      BY <3>1 DEF MetadataIsMap, Field, rfc
  <2>3. CASE k \notin DOMAIN patch
    BY <1>1, <1>4, <2>1, <2>2, <2>3 DEF MergeLevel
  <2>4. CASE k \in DOMAIN patch
    <3>1. rfc[k] = MergePatch[<<Meets(Map(base), k), patch[k]>>]
      BY <1>4, <2>1, <2>4
    <3>2. Meets(Map(base), k) \in Node /\ patch[k] \in Node
      BY <2>4, MeetsFacts, MapFacts, NodeFacts
    <3>3. rfc[k] = PatchLevel(MergePatch, Meets(Map(base), k), patch[k])
      BY <3>1, <3>2, MergePatchUnfolds
    <3>4. IsMap(patch[k])
      BY <2>2, <3>3 DEF PatchLevel
    <3>5. QED
      BY <1>1, <2>1, <2>4, <3>4, NodeFacts DEF MergeLevel
  <2>5. QED
    BY <2>3, <2>4
<1>6. QED
  BY <1>5 DEF MetadataIsMap, Field

\* A rendered child is the child of its source.
LEMMA RenderedChild ==
    ASSUME RenderInv, NEW g \in Rendered
    PROVE  /\ g \in 1 .. Groups /\ input.over[g] # Malformed /\ HasTemplate(Source(g))
           /\ children[g].map = ChildOf(Source(g), g, input.target[g])
<1>1. /\ g \in 1 .. Groups
      /\ children[g] # Failed
  BY DEF Rendered
<1>2. children[g] = BuildChildWorkload(input.template, input.over[g], g, input.target[g])
  BY <1>1 DEF RenderInv
<1>3. /\ input.over[g] # Malformed /\ HasTemplate(Source(g))
      /\ children[g] = Map(ChildOf(Source(g), g, input.target[g]))
  BY <1>1, <1>2, RenderedForm DEF Source
<1>4. QED
  BY <1>1, <1>3, NodeFacts

\* The fields of the controller are the controller's.
LEMMA InvOwned == RenderInv => OwnedFieldsWin
<1>1. SUFFICES ASSUME RenderInv, NEW g \in Rendered
               PROVE  ControllersOwn(Asked(g), children[g].map, g, input.target[g])
  BY DEF OwnedFieldsWin, ControllersOwn, MetadataIsMap
<1> DEFINE a == Source(g)
<1>2. /\ g \in 1 .. Groups /\ input.over[g] # Malformed /\ HasTemplate(a)
      /\ children[g].map = ChildOf(a, g, input.target[g])
  BY <1>1, RenderedChild
<1>3. MetadataIsMap(Asked(g)) => MetadataIsMap(a)
  <2>1. CASE input.over[g] = NoOverrides
    BY <2>1 DEF Asked, Source
  <2>2. CASE input.over[g] # NoOverrides
    <3>1. /\ input.template \in Maps /\ input.over[g].map \in Maps
          /\ input.over[g] = Map(input.over[g].map)
      BY <1>1, <1>2, <2>2, InputFacts
    <3>2. /\ Asked(g) = MergePatch[<<Map(input.template), Map(input.over[g].map)>>].map
          /\ a = MergeMaps[<<input.template, input.over[g].map>>]
      BY <2>2, <3>1 DEF Asked, Source
    <3>3. QED
      BY <3>1, <3>2, MergesKeepMaps
  <2>3. QED
    BY <2>1, <2>2
<1>4. ControllersOwn(a, children[g].map, g, input.target[g])
  BY <1>2, ChildOwned
<1>5. QED
  BY <1>3, <1>4 DEF ControllersOwn

\* Every field of the user's is kept.
LEMMA InvKept == RenderInv => UserFieldsKept
<1>1. SUFFICES ASSUME RenderInv, NEW g \in Rendered,
                      \/ input.over[g] = NoOverrides
                      \/ NullsIntoNothing[<<Map(input.template), input.over[g]>>] = {}
               PROVE  LET a == Asked(g)
                          d == children[g].map
                          SameAt(k, keys)        == SameBut(keys, Sub(a, k), Sub(d, k))
                          SameBelow(k, j, keys)  == SameBut(keys, Sub(Sub(a, k), j), Sub(Sub(d, k), j))
                          pods(e)                == Sub(Sub(Sub(e, "spec"), "template"), "metadata")
                      IN  /\ SameBut({"spec", "metadata", "status"}, a, d)
                          /\ SameAt("spec", {"template", "selector", "replicas"})
                          /\ SameBelow("spec", "selector", {"matchLabels"})
                          /\ SameBelow("spec", "template", {"metadata"})
                          /\ SameBut({"labels"}, pods(a), pods(d))
                          /\ SameBut(DOMAIN ControllerLabels(g), Sub(pods(a), "labels"), Sub(pods(d), "labels"))
                          /\ SameAt("metadata", {"name", "namespace", "labels", "annotations"} \cup Pasted)
                          /\ SameBelow("metadata", "annotations", {"last-applied"})
                          /\ (\A k \in DOMAIN Sub(Sub(a, "metadata"), "labels") :
                                 IsString(Sub(Sub(a, "metadata"), "labels")[k])) =>
                                SameBelow("metadata", "labels", DOMAIN ControllerLabels(g))
  BY DEF UserFieldsKept
<1> DEFINE d  == children[g].map
           a  == Source(g)
           r  == input.target[g]
           as == Sub(a, "spec")
           ds == Sub(d, "spec")
           ap == Sub(Sub(as, "template"), "metadata")
           dp == Sub(Sub(ds, "template"), "metadata")
           am == Sub(a, "metadata")
           dm == Sub(d, "metadata")
<1>2. g \in 1 .. Groups /\ input.over[g] # Malformed /\ HasTemplate(a) /\ d = ChildOf(a, g, r)
  BY <1>1, RenderedChild
<1>3. Asked(g) = a
  <2>1. CASE input.over[g] = NoOverrides
    BY <2>1 DEF Asked, Source
  <2>2. CASE input.over[g] # NoOverrides
    <3>1. /\ input.template \in Maps /\ input.over[g].map \in Maps
          /\ input.over[g] = Map(input.over[g].map)
      BY <1>1, <1>2, <2>2, InputFacts
    <3>2. NullsIntoNothing[<<Map(input.template), Map(input.over[g].map)>>] = {}
      BY <1>1, <2>2, <3>1
    <3>3. MergePatch[<<Map(input.template), Map(input.over[g].map)>>] = Map(a)
      BY <2>2, <3>1, <3>2, MergeIsRFC DEF Source
    <3>4. QED
      BY <2>2, <3>1, <3>3, NodeFacts DEF Asked
  <2>3. QED
    BY <2>1, <2>2
<1>4. /\ as = Sub(a, "spec") /\ ds = Sub(d, "spec")
      /\ ap = Sub(Sub(as, "template"), "metadata") /\ dp = Sub(Sub(ds, "template"), "metadata")
      /\ am = Sub(a, "metadata") /\ dm = Sub(d, "metadata")
  OBVIOUS
<1> HIDE DEF d, a, r, as, ds, ap, dp, am, dm
<1>5. /\ SameBut({"spec", "metadata", "status"}, a, d)
      /\ SameBut({"template", "selector", "replicas"}, as, ds)
      /\ SameBut({"matchLabels"}, Sub(as, "selector"), Sub(ds, "selector"))
      /\ SameBut({"metadata"}, Sub(as, "template"), Sub(ds, "template"))
      /\ SameBut({"labels"}, ap, dp)
      /\ SameBut(DOMAIN ControllerLabels(g), Sub(ap, "labels"), Sub(dp, "labels"))
      /\ SameBut({"name", "namespace", "labels", "annotations"} \cup Pasted, am, dm)
      /\ SameBut({"last-applied"}, Sub(am, "annotations"), Sub(dm, "annotations"))
      /\ (\A k \in DOMAIN Sub(am, "labels") : IsString(Sub(am, "labels")[k])) =>
            SameBut(DOMAIN ControllerLabels(g), Sub(am, "labels"), Sub(dm, "labels"))
  BY <1>2, <1>4, ChildKeeps
<1>6. QED
  BY <1>3, <1>5 DEF d, as, ds, ap, dp, am, dm

\* A count is narrowed to what the schema can store.
LEMMA NarrowFacts ==
    ASSUME NEW v \in Counts
    PROVE  /\ v # Absent => v.num \in Int
           /\ ReadInt32Checked(v) \in 0 .. MaxInt32
           /\ ReadInt32Checked(v) =
                 Lesser(MaxInt32, IF v = Absent THEN 0 ELSE IF v.num < 0 THEN 0 ELSE v.num)
<1>1. MaxInt32 \in Nat /\ v \in [num : Int] \cup {Absent}
  BY CountsAssumption
<1>2. v # Absent => v.num \in Int
  BY <1>1
<1>3. QED
  BY <1>1, <1>2 DEF ReadInt32Checked, Lesser

\* A share is a percentage.
LEMMA ShareInRange ==
    ASSUME NEW r \in Nat, NEW t \in Nat
    PROVE  shareOfTotal(r, t) \in 0 .. 100
<1>1. CASE t <= 0 \/ r <= 0 \/ r >= t
  BY <1>1 DEF shareOfTotal
<1>2. CASE t > 0 /\ r > 0 /\ r < t
  <2> DEFINE q == (100 * r) \div t
  <2>1. q \in Int /\ t * q <= 100 * r /\ 100 * r < t * (q + 1)
    BY <1>2, Z3
  <2>2. 100 * r < 100 * t
    BY <1>2
  <2>3. q >= 0
    BY <1>2, <2>1, Z3
  <2>4. q < 100
    BY <1>2, <2>1, <2>2, Z3
  <2>5. shareOfTotal(r, t) = q
    BY <1>2 DEF shareOfTotal
  <2> HIDE DEF q
  <2>6. QED
    BY <2>1, <2>3, <2>4, <2>5
<1>3. QED
  BY <1>1, <1>2

\* Narrowing each of the counts does not show in their narrowed sums.
LEMMA NarrowedSums ==
    ASSUME NEW n \in Nat, NEW m \in Nat, NEW a \in [1 .. n -> Nat], NEW b \in [1 .. n -> Nat],
           \A k \in 1 .. n : a[k] = Lesser(m, b[k])
    PROVE  \A k \in 0 .. n : Lesser(m, RunningSum(a, n)[k]) = Lesser(m, RunningSum(b, n)[k])
<1> DEFINE sumA == RunningSum(a, n)
           sumB == RunningSum(b, n)
           T == {k \in 0 .. n : Lesser(m, sumA[k]) = Lesser(m, sumB[k])}
<1>1. /\ sumA \in [0 .. n -> Nat] /\ sumB \in [0 .. n -> Nat] /\ sumA[0] = 0 /\ sumB[0] = 0
      /\ \A k \in 1 .. n : sumA[k] = sumA[k - 1] + a[k] /\ sumB[k] = sumB[k - 1] + b[k]
  BY RunningSumFacts
<1> HIDE DEF sumA, sumB
<1>2. 0 \in T
  BY <1>1
<1>3. ASSUME NEW k \in 0 .. n - 1, k \in T PROVE k + 1 \in T
  <2>1. k + 1 \in 1 .. n /\ (k + 1) - 1 = k /\ k \in 0 .. n
    OBVIOUS
  <2>2. sumA[k] \in Nat /\ sumB[k] \in Nat /\ a[k + 1] \in Nat /\ b[k + 1] \in Nat
    BY <1>1, <2>1
  <2>3. sumA[k + 1] = sumA[k] + a[k + 1] /\ sumB[k + 1] = sumB[k] + b[k + 1] /\ a[k + 1] = Lesser(m, b[k + 1])
    BY <1>1, <2>1
  <2>4. Lesser(m, sumA[k]) = Lesser(m, sumB[k])
    BY <1>3
  <2>5. Lesser(m, sumA[k + 1]) = Lesser(m, sumB[k + 1])
    <3> DEFINE x == sumA[k]
               y == sumB[k]
               c == a[k + 1]
               d == b[k + 1]
    <3>1. x \in Nat /\ y \in Nat /\ c \in Nat /\ d \in Nat /\ m \in Nat
      BY <2>2
    <3>2. sumA[k + 1] = x + c /\ sumB[k + 1] = y + d
      BY <2>3
    <3>3. Lesser(m, x) = Lesser(m, y) /\ c = Lesser(m, d)
      BY <2>3, <2>4
    <3> HIDE DEF x, y, c, d
    <3>4. x = y \/ (x >= m /\ y >= m)
      BY <3>1, <3>3 DEF Lesser
    <3>5. c = d \/ (c >= m /\ d >= m)
      BY <3>1, <3>3 DEF Lesser
    <3>6. x + c = y + d \/ (x + c >= m /\ y + d >= m)
      BY <3>1, <3>4, <3>5
    <3>7. Lesser(m, x + c) = Lesser(m, y + d)
      BY <3>1, <3>6 DEF Lesser
    <3>8. QED
      BY <3>2, <3>7
  <2>6. QED
    BY <2>1, <2>5
<1>4. \A k \in 0 .. n : k \in T
  <2> HIDE DEF T
  <2>1. QED
    BY <1>2, <1>3, IntervalInduction
<1>5. QED
  BY <1>4 DEF sumA, sumB

\* The rows are the narrowed reports.
LEMMA RowFacts ==
    ASSUME RenderInv
    PROVE  /\ rows \in [1 .. Groups -> 0 .. MaxInt32]
           /\ \A g \in 1 .. Groups : Reported(g) \in Nat /\ rows[g] = Lesser(MaxInt32, Reported(g))
<1>1. ASSUME NEW g \in 1 .. Groups
      PROVE  /\ rows[g] \in 0 .. MaxInt32
             /\ Reported(g) \in Nat /\ rows[g] = Lesser(MaxInt32, Reported(g))
  <2>1. rows[g] = IF g \in Rendered THEN ReadInt32Checked(published[g]) ELSE 0
    BY DEF RenderInv, Rendered
  <2>2. published[g] \in Counts /\ MaxInt32 \in Nat
    BY CountsAssumption DEF RenderInv
  <2>3. CASE g \in Rendered
    BY <2>1, <2>2, <2>3, NarrowFacts DEF Reported
  <2>4. CASE g \notin Rendered
    BY <2>1, <2>2, <2>4 DEF Reported, Lesser
  <2>5. QED
    BY <2>3, <2>4
<1>2. rows = [g \in 1 .. Groups |-> rows[g]]
  BY DEF RenderInv
<1>3. QED
  BY <1>1, <1>2

\* The sum, narrowed, is that of the reports.
LEMMA TotalFacts ==
    ASSUME RenderInv
    PROVE  /\ RunningSum(rows, Groups)[Groups] \in Nat
           /\ RunningSum([g \in 1 .. Groups |-> Reported(g)], Groups)[Groups] \in Nat
           /\ clampInt32(RunningSum(rows, Groups)[Groups]) =
                 Lesser(MaxInt32, RunningSum([g \in 1 .. Groups |-> Reported(g)], Groups)[Groups])
<1> DEFINE wide == [g \in 1 .. Groups |-> Reported(g)]
<1>1. Groups \in Nat /\ MaxInt32 \in Nat
  BY GroupsAssumption, CountsAssumption
<1>2. rows \in [1 .. Groups -> Nat] /\ wide \in [1 .. Groups -> Nat]
  BY <1>1, RowFacts
<1>3. \A g \in 1 .. Groups : rows[g] = Lesser(MaxInt32, wide[g])
  BY RowFacts
<1> HIDE DEF wide
<1>4. /\ RunningSum(rows, Groups)[Groups] \in Nat
      /\ RunningSum(wide, Groups)[Groups] \in Nat
  <2>1. /\ RunningSum(rows, Groups) \in [0 .. Groups -> Nat]
        /\ RunningSum(wide, Groups) \in [0 .. Groups -> Nat]
    BY <1>1, <1>2, RunningSumFacts
  <2>2. QED
    BY <1>1, <2>1
<1>5. Lesser(MaxInt32, RunningSum(rows, Groups)[Groups]) =
         Lesser(MaxInt32, RunningSum(wide, Groups)[Groups])
  <2>1. \A k \in 0 .. Groups : Lesser(MaxInt32, RunningSum(rows, Groups)[k]) =
                               Lesser(MaxInt32, RunningSum(wide, Groups)[k])
    BY <1>1, <1>2, <1>3, NarrowedSums, Zenon
  <2>2. Groups \in 0 .. Groups
    BY <1>1
  <2>3. QED
    BY <2>1, <2>2, Zenon
<1>6. clampInt32(RunningSum(rows, Groups)[Groups]) = Lesser(MaxInt32, RunningSum(rows, Groups)[Groups])
  BY <1>1, <1>4 DEF clampInt32, Lesser
<1>7. QED
  BY <1>4, <1>5, <1>6 DEF wide

\* What is stored is of the schema's types.
LEMMA InvTypeOK == RenderInv => RenderTypeOK
<1>1. SUFFICES ASSUME RenderInv PROVE RenderTypeOK
  OBVIOUS
<1>2. MaxInt32 \in Nat
  BY CountsAssumption
<1>3. poolTotal \in 0 .. MaxInt32
  BY <1>1, <1>2, TotalFacts DEF RenderInv, Lesser
<1>4. ASSUME NEW g \in 1 .. Groups PROVE shares[g] \in 0 .. 100
  <2>1. rows[g] \in Nat /\ poolTotal \in Nat
    BY <1>1, <1>2, <1>3, RowFacts
  <2>2. shareOfTotal(rows[g], poolTotal) \in 0 .. 100
    BY <2>1, ShareInRange
  <2>3. shares[g] = IF cursor = Groups + 2 THEN shareOfTotal(rows[g], poolTotal) ELSE 0
    BY <1>1, Zenon DEF RenderInv
  <2>4. QED
    BY <2>2, <2>3
<1>5. shares \in [1 .. Groups -> 0 .. 100]
  BY <1>1, <1>4 DEF RenderInv
<1>6. ASSUME NEW g \in 1 .. Groups PROVE children[g] = Failed \/ IsMap(children[g])
  BY <1>1, NodeFacts DEF RenderInv, BuildChildWorkload
<1>7. QED
  BY <1>1, <1>3, <1>5, <1>6, RowFacts DEF RenderInv, RenderTypeOK

\* The narrowed counts compare as the published ones do.
LEMMA InvCounts == RenderInv => CountsCompareAlike
<1>1. SUFFICES ASSUME RenderInv, cursor = Groups + 2, NEW t \in 1 .. MaxInt32
               PROVE  /\ \A g \in 1 .. Groups : rows[g] >= t <=> Reported(g) >= t
                      /\ poolTotal >= t <=>
                            RunningSum([g \in 1 .. Groups |-> Reported(g)], Groups)[Groups] >= t
  BY InvTypeOK DEF CountsCompareAlike
<1>2. MaxInt32 \in Nat
  BY CountsAssumption
<1>3. ASSUME NEW g \in 1 .. Groups PROVE rows[g] >= t <=> Reported(g) >= t
  <2>1. Reported(g) \in Nat /\ rows[g] = Lesser(MaxInt32, Reported(g))
    BY <1>1, RowFacts
  <2>2. QED
    BY <1>2, <2>1 DEF Lesser
<1>4. poolTotal >= t <=> RunningSum([g \in 1 .. Groups |-> Reported(g)], Groups)[Groups] >= t
  <2> DEFINE sum == RunningSum([g \in 1 .. Groups |-> Reported(g)], Groups)[Groups]
  <2>1. sum \in Nat /\ poolTotal = Lesser(MaxInt32, sum)
    BY <1>1, TotalFacts DEF RenderInv
  <2> HIDE DEF sum
  <2>2. poolTotal >= t <=> sum >= t
    BY <1>2, <2>1 DEF Lesser
  <2>3. QED
    BY <2>2 DEF sum
<1>5. QED
  BY <1>3, <1>4

\* The pass starts with nothing written.
LEMMA RenderInitInv == RenderInit => RenderInv
BY GroupsAssumption DEF RenderInit, RenderInv

\* Every step writes what RenderInv says.
LEMMA RenderNextInv == RenderInv /\ [RenderNext]_renderVars => RenderInv'
<1>1. SUFFICES ASSUME RenderInv, [RenderNext]_renderVars PROVE RenderInv'
  OBVIOUS
<1>2. Groups \in Nat /\ cursor \in 0 .. Groups + 2
  BY <1>1, GroupsAssumption DEF RenderInv
<1>3. CASE ParseTemplate
  BY <1>1, <1>2, <1>3 DEF RenderInv, ParseTemplate
<1>4. CASE reconcileGroup
  <2> DEFINE child == BuildChildWorkload(input.template, input.over[cursor], cursor, input.target[cursor])
  <2>1. /\ cursor \in 1 .. Groups /\ cursor' = cursor + 1
        /\ UNCHANGED <<input, published, parsed, poolTotal, shares>>
        /\ children' = [children EXCEPT ![cursor] = child]
        /\ rows' = IF child = Failed THEN rows
                   ELSE [rows EXCEPT ![cursor] = ReadInt32Checked(published[cursor])]
    <3>1. parsed = input.template
      BY <1>1, <1>2, <1>4 DEF RenderInv, reconcileGroup
    <3>2. child = BuildChildWorkload(parsed, input.over[cursor], cursor, input.target[cursor])
      BY <3>1
    <3> HIDE DEF child
    <3>3. QED
      BY <1>4, <3>2 DEF reconcileGroup
  <2> HIDE DEF child
  <2>2. children' = [g \in 1 .. Groups |->
            IF g < cursor' THEN BuildChildWorkload(input.template, input.over[g], g, input.target[g])
            ELSE Failed]
    <3>1. \A g \in 1 .. Groups : g < cursor + 1 <=> g < cursor \/ g = cursor
      BY <1>2
    <3>2. QED
      BY <1>1, <2>1, <3>1 DEF RenderInv, child
  <2>3. rows' = [g \in 1 .. Groups |->
            IF children'[g] = Failed THEN 0 ELSE ReadInt32Checked(published[g])]
    <3>1. children[cursor] = Failed
      BY <1>1, <1>2, <2>1 DEF RenderInv
    <3>2. DOMAIN children = 1 .. Groups /\ DOMAIN rows = 1 .. Groups
      BY <1>1 DEF RenderInv
    <3>3. \A g \in 1 .. Groups : children'[g] = IF g = cursor THEN child ELSE children[g]
      BY <2>1, <3>2
    <3>4. rows = [g \in 1 .. Groups |-> IF children[g] = Failed THEN 0 ELSE ReadInt32Checked(published[g])]
      BY <1>1 DEF RenderInv
    <3>5. CASE child = Failed
      BY <2>1, <3>1, <3>3, <3>4, <3>5
    <3>6. CASE child # Failed
      <4>1. rows' = [rows EXCEPT ![cursor] = ReadInt32Checked(published[cursor])]
        BY <2>1, <3>6
      <4>2. QED
        BY <2>1, <3>3, <3>4, <3>6, <4>1
    <3>7. QED
      BY <3>5, <3>6
  <2>4. cursor # Groups + 2 /\ cursor' # Groups + 2 /\ cursor' \in 0 .. Groups + 2 /\ cursor > 0
    BY <1>2, <2>1
  <2>5. QED
    BY <1>1, <2>1, <2>2, <2>3, <2>4 DEF RenderInv
<1>5. CASE summariseGroups
  <2>1. /\ cursor = Groups + 1 /\ cursor' = Groups + 2
        /\ UNCHANGED <<input, published, parsed, children, rows>>
        /\ poolTotal' = clampInt32(RunningSum(rows, Groups)[Groups])
        /\ shares' = [g \in 1 .. Groups |-> shareOfTotal(rows[g], poolTotal')]
    BY <1>2, <1>5 DEF summariseGroups
  <2>2. \A g \in 1 .. Groups : g < cursor /\ g < cursor'
    BY <1>2, <2>1
  <2>3. cursor' \in 0 .. Groups + 2 /\ cursor > 0
    BY <1>2, <2>1
  <2>4. QED
    BY <1>1, <2>1, <2>2, <2>3 DEF RenderInv
<1>6. CASE UNCHANGED renderVars
  BY <1>1, <1>6 DEF RenderInv, renderVars
<1>7. QED
  BY <1>1, <1>3, <1>4, <1>5, <1>6 DEF RenderNext

\* The pass is a function of the pool and of what the children publish.
THEOREM RenderInvariance == RenderSpec => []RenderInv
BY RenderInitInv, RenderNextInv, PTL DEF RenderSpec

\* Whatever template and overrides say, the fields by which the controller
\* finds and sizes a child are the controller's.
THEOREM OwnedFieldsAlwaysWin == RenderSpec => []OwnedFieldsWin
BY RenderInvariance, InvOwned, PTL

\* Every field of the user's is in the child as RFC 7386 says, whichever
\* groups were rendered before.
THEOREM UserFieldsAlwaysKept == RenderSpec => []UserFieldsKept
BY RenderInvariance, InvKept, PTL

\* The narrowed counts compare with every target as the published ones do,
\* one by one and in sum, and the pool's schema can store them.
THEOREM CountsAlwaysCompare == RenderSpec => []CountsCompareAlike
BY RenderInvariance, InvCounts, PTL
=============================================================================
