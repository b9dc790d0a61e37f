---------------------------- MODULE Distribution ----------------------------
(***************************************************************************)
(* The vocabulary of internal/workload/algorithm.go: what one group's      *)
(* scaling constraints say about its floor, its target and its ceiling.    *)
(*                                                                         *)
(* A group's constraints are a record                                      *)
(*     [min, max, target : Int, opportunistic : BOOLEAN]                   *)
(* in which Nil stands for an absent pointer.  A target is the number the  *)
(* code would parse; any number outside 1..100 stands for a target that is *)
(* present but that TargetPercent cannot read (a typo, an integer, "0%").  *)
(***************************************************************************)
EXTENDS Integers, Sequences

Nil == -1

Scaling == [min : Nat \cup {Nil}, max : Nat \cup {Nil},
            target : Nat \cup {Nil}, opportunistic : BOOLEAN]

Lesser(a, b)  == IF a <= b THEN a ELSE b
Greater(a, b) == IF a >= b THEN a ELSE b

GroupFloor(s) == IF s.min = Nil THEN 0 ELSE s.min

\* TargetPercent's second result: the target is set and is a percentage.
TargetReadable(s) == s.target \in 1 .. 100

percentOf(total, pct) == (total * pct) \div 100

ceilPercentOf(total, pct) == (total * pct + 99) \div 100

\* Defined for readable targets only: rounded up and capped when max is the
\* ceiling, rounded down when the target is itself the ceiling.
GroupTarget(total, s) ==
    IF s.max # Nil
    THEN Lesser(ceilPercentOf(total, s.target), s.max)
    ELSE percentOf(total, s.target)

IsOpportunistic(s) == s.opportunistic

hasStaticCeiling(s) == s.max # Nil \/ s.target # Nil

IsBounded(s) == hasStaticCeiling(s) \/ IsOpportunistic(s)

\* Defined when hasStaticCeiling(s).  An unreadable target binds at zero.
GroupCeiling(total, s) ==
    IF s.max # Nil THEN s.max
    ELSE IF TargetReadable(s) THEN percentOf(total, s.target)
    ELSE 0

\* The float comparison |actual% - target%| > 0.5 with denominators cleared.
checkTargetDegraded(total, targets, groups) ==
    /\ total > 0
    /\ \E k \in DOMAIN groups :
          /\ TargetReadable(groups[k])
          /\ IF groups[k].max = Nil
             THEN 200 * targets[k] > (2 * groups[k].target + 1) * total
             ELSE 200 * targets[k] < (2 * groups[k].target - 1) * total

\* What one loop iteration moves to a group that wants "additional" more
\* while "remaining" are left: nothing on a non-positive want.
Share(additional, remaining) ==
    IF additional <= 0 THEN 0 ELSE Lesser(additional, remaining)

-----------------------------------------------------------------------------
(* ComputeGroupTargets as a function of its arguments, for the modules     *)
(* that call it.  Distributor has the loops, and computes it.              *)

\* A group topped up to "want", or as far as the remainder goes.
TopUp(st, k, want) ==
    LET give == Share(want - st.targets[k], st.remaining)
    IN  [targets   |-> [st.targets EXCEPT ![k] = @ + give],
         remaining |-> st.remaining - give]

\* What a group that holds "held" asks for in loop p while "rest" are left.
Asks(p, total, s, capacity, held, rest) ==
    CASE p = 1 -> GroupFloor(s)
      [] p = 2 -> IF TargetReadable(s) THEN GroupTarget(total, s) ELSE 0
      [] p = 3 -> IF ~IsOpportunistic(s) THEN 0 ELSE IF capacity = Nil THEN rest ELSE capacity
      [] p = 4 -> IF IsOpportunistic(s) THEN 0
                  ELSE IF ~hasStaticCeiling(s) THEN held + rest ELSE GroupCeiling(total, s)

\* Loop p over the groups: each is topped up to what it asks for in turn.
\* (The singleton makes TLC evaluate the previous iteration once.)
Loop(p, total, groups, observed, start) ==
    LET after[k \in 0 .. Len(groups)] ==
            IF k = 0 THEN start
            ELSE CHOOSE next \in {TopUp(st, k, Asks(p, total, groups[k], observed[k],
                                                   st.targets[k], st.remaining))
                                  : st \in {after[k - 1]}} : TRUE
    IN  after[Len(groups)]

\* "observed[k]" is the capacity map's entry for group k, Nil if absent.
ComputeGroupTargets(total, groups, observed) ==
    LET zero == [targets   |-> [k \in DOMAIN groups |-> 0],
                 remaining |-> IF total <= 0 THEN 0 ELSE total]
        p1 == Loop(1, total, groups, observed, zero)
        p2 == Loop(2, total, groups, observed, p1)
        p3 == Loop(3, total, groups, observed, p2)
        p4 == Loop(4, total, groups, observed, p3)
    IN  [Targets        |-> p4.targets,
         Unplaced       |-> p4.remaining,
         TargetDegraded |-> checkTargetDegraded(total, p4.targets, groups)]
=============================================================================
