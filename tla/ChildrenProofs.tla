--------------------------- MODULE ChildrenProofs ---------------------------
(***************************************************************************)
(* What the orphan sweep may delete, for any number of kinds and groups    *)
(* and any sequence of edits, failures, crashes and other people's work.   *)
(***************************************************************************)
EXTENDS Children, FiniteSetTheorems, TLAPS

-----------------------------------------------------------------------------
(* The inductive invariant.                                                *)

PassRecord ==
    [pc : {"idle", "groups", "apply", "sweep", "delete"},
     before : [kind : Kinds \cup {NoKind}, groups : SUBSET Groups,
               refs : [Groups -> Kinds \cup {NoKind}]],
     todo : SUBSET Groups, reconciled : SUBSET Groups, kinds : SUBSET Kinds,
     sweeping : Kinds \cup {NoKind}, found : SUBSET Groups,
     victim : [group : Groups \cup {NoKind}, uid : Uids]]

\* The pass in progress: it works on a kind it has read, on groups it has
\* read, and a delete has a victim that was not to be kept.
PassOK ==
    /\ pass \in PassRecord
    /\ pass.pc # "idle" => kind \in Kinds
    /\ pass.pc = "apply" => pass.todo # {}
    /\ pass.pc \in {"sweep", "delete"} => pass.sweeping \in Kinds
    /\ pass.todo \cup pass.reconciled \subseteq pass.before.groups
    /\ pass.pc = "delete" =>
          pass.victim.group \in Groups /\ ~keep(pass.sweeping, pass.victim.group)

BudgetOK ==
    /\ budget \in [of : SUBSET STRING, left : Nat, at : SUBSET Kinds]
    /\ \E s \in Scenarios : s.of = budget.of /\ budget.left \in 0 .. s.left

\* An object that exists has an identity of its own, one the pool controls
\* is remembered as the pool's, and the confirmed victim, if it is still
\* there, is one that the pool has controlled.
Owned ==
    /\ \A k \in Kinds, g \in Groups :
          /\ objs[k][g] = Absent \/ objs[k][g].uid # 0
          /\ isControlledBy(objs[k][g]) => objs[k][g].mine = TRUE
    /\ pass.pc = "delete" =>
          /\ pass.victim.uid # 0
          /\ objs[pass.sweeping][pass.victim.group].uid = pass.victim.uid =>
                objs[pass.sweeping][pass.victim.group].mine = TRUE

\* Nobody but the controller touches the children.
Quiet == budget.of \cap {"delete", "release", "labels", "create"} = {}

\* What the pass has reconciled is there, under the kind the pass has read.
Replaced ==
    pass.pc # "idle" /\ Quiet => \A g \in pass.reconciled : isControlledBy(objs[kind][g])

Inv == TypeOK /\ PassOK /\ BudgetOK /\ Owned /\ Replaced

-----------------------------------------------------------------------------
(* Identities and objects.                                                 *)

\* There is an unused identity whenever a name is free.
LEMMA FreshFacts ==
    ASSUME TypeOK, PassOK, NEW k \in Kinds, NEW g \in Groups, objs[k][g] = Absent
    PROVE  /\ FreshUid \in Uids \ {0}
           /\ FreshUid # pass.victim.uid
           /\ \A j \in Kinds, h \in Groups : objs[j][h].uid # FreshUid
<1> DEFINE n == Cardinality(Kinds) * Cardinality(Groups)
           P == Kinds \X Groups
           U == {objs[x[1]][x[2]].uid : x \in P}
           Used == U \cup {pass.victim.uid}
<1>1. IsFiniteSet(P) /\ Cardinality(P) = n
  BY FiniteAssumption, FS_Product
<1>2. IsFiniteSet(U) /\ Cardinality(U) <= n
  <2> DEFINE f == [x \in P |-> objs[x[1]][x[2]].uid]
  <2>1. f \in Surjection(P, U)
    BY DEF Surjection
  <2>2. QED
    BY <1>1, <2>1, FS_Surjection
<1>3. n \in Nat /\ Cardinality(U) \in Nat
  <2>1. Cardinality(Kinds) \in Nat /\ Cardinality(Groups) \in Nat
    BY FiniteAssumption, FS_CardinalityType
  <2>2. QED
    BY <1>2, <2>1, FS_CardinalityType
<1>4. IsFiniteSet(Used) /\ Cardinality(Used) <= n + 1
  <2>1. ASSUME NEW S, IsFiniteSet(S), NEW x, NEW m \in Nat, Cardinality(S) <= m
        PROVE  IsFiniteSet(S \cup {x}) /\ Cardinality(S \cup {x}) <= m + 1
    <3>1. /\ IsFiniteSet(S \cup {x})
          /\ Cardinality(S \cup {x}) = IF x \in S THEN Cardinality(S) ELSE Cardinality(S) + 1
      BY <2>1, FS_AddElement
    <3>2. Cardinality(S) \in Nat
      BY <2>1, FS_CardinalityType
    <3>3. QED
      BY <2>1, <3>1, <3>2
  <2> HIDE DEF U, n
  <2>2. QED
    BY <1>2, <1>3, <2>1
<1>5. Cardinality(Uids) = n + 2
  <2>1. Uids = 0 .. n + 1
    BY DEF Uids
  <2>2. QED
    BY <1>3, <2>1, FS_Interval
<1>6. 0 \in Used
  <2>1. <<k, g>> \in P /\ objs[<<k, g>>[1]][<<k, g>>[2]].uid = 0
    BY DEF Absent
  <2>2. QED
    BY <2>1
<1>7. Cardinality(Used) \in Nat
  BY <1>4, FS_CardinalityType
<1>8. ~(Uids \subseteq Used)
  BY <1>3, <1>4, <1>5, <1>7, FS_Subset
<1>9. PICK u \in Uids : u \notin Used
  BY <1>8
<1>10. u \in Uids \ {0} /\ u # pass.victim.uid
  BY <1>6, <1>9
<1>11. \A j \in Kinds, h \in Groups : objs[j][h].uid # u
  <2> SUFFICES ASSUME NEW j \in Kinds, NEW h \in Groups, objs[j][h].uid = u PROVE FALSE
    OBVIOUS
  <2>1. <<j, h>> \in P /\ objs[<<j, h>>[1]][<<j, h>>[2]].uid = u
    OBVIOUS
  <2>2. QED
    BY <1>9, <2>1
<1>12. QED
  BY <1>10, <1>11 DEF FreshUid

\* One object changes.
LEMMA ObjectUpdate ==
    ASSUME objs \in [Kinds -> [Groups -> Object \cup {Absent}]],
           NEW k \in Kinds, NEW g \in Groups, NEW v \in Object \cup {Absent},
           objs' = [objs EXCEPT ![k][g] = v]
    PROVE  /\ objs' \in [Kinds -> [Groups -> Object \cup {Absent}]]
           /\ objs'[k][g] = v
           /\ \A j \in Kinds, h \in Groups : j # k \/ h # g => objs'[j][h] = objs[j][h]
OBVIOUS

\* An object is there or it is not, and it is what its fields say.
LEMMA ObjectFacts ==
    ASSUME TypeOK, NEW k \in Kinds, NEW g \in Groups
    PROVE  /\ objs[k][g] \in Object \cup {Absent}
           /\ objs[k][g].uid \in Uids
           /\ Exists(objs[k][g]) <=> objs[k][g] \in Object
           /\ objs[k][g] = Absent <=> ~Exists(objs[k][g])
<1>1. objs[k][g] \in Object \cup {Absent}
  BY DEF TypeOK
<1>2. 0 \in Uids
  <2>1. Cardinality(Kinds) \in Nat /\ Cardinality(Groups) \in Nat
    BY FiniteAssumption, FS_CardinalityType
  <2>2. Cardinality(Kinds) * Cardinality(Groups) \in Nat
    BY <2>1
  <2>3. QED
    BY <2>2 DEF Uids
<1>3. CASE objs[k][g] = Absent
  <2>1. Absent \notin Object /\ Absent.uid = 0 /\ ~Exists(Absent)
    BY DEF Object, Absent, Exists, Owners
  <2>2. QED
    BY <1>1, <1>2, <1>3, <2>1
<1>4. CASE objs[k][g] \in Object
  <2>1. objs[k][g].uid \in Uids /\ Exists(objs[k][g]) /\ ~Exists(Absent)
    BY <1>4 DEF Object, Absent, Exists, Owners
  <2>2. QED
    BY <1>1, <1>4, <2>1
<1>5. QED
  BY <1>1, <1>3, <1>4

\* The object the pool applies.
LEMMA AppliedFacts ==
    ASSUME TypeOK, PassOK, NEW k \in Kinds, NEW g \in Groups
    PROVE  LET v == Applied(objs[k][g])
           IN  /\ v \in Object /\ v.owner = "pool" /\ v.mine = TRUE
               /\ Exists(objs[k][g]) => v.uid = objs[k][g].uid
               /\ ~Exists(objs[k][g]) => v.uid # 0 /\ v.uid # pass.victim.uid
<1> DEFINE o == objs[k][g]
<1>1. CASE Exists(o)
  <2>1. o \in Object
    BY <1>1, ObjectFacts
  <2>2. Applied(o) = [uid |-> o.uid, owner |-> "pool", labelled |-> TRUE, mine |-> TRUE]
    <3>1. Applied(o) = [o EXCEPT !.owner = "pool", !.labelled = TRUE, !.mine = TRUE]
      BY <1>1 DEF Applied
    <3>2. QED
      BY <2>1, <3>1 DEF Object
  <2>3. QED
    BY <1>1, <2>1, <2>2 DEF Object, Owners
<1>2. CASE ~Exists(o)
  <2>1. o = Absent
    BY <1>2, ObjectFacts
  <2>2. FreshUid \in Uids \ {0} /\ FreshUid # pass.victim.uid
    BY <2>1, FreshFacts
  <2>3. Applied(o) = [uid |-> FreshUid, owner |-> "pool", labelled |-> TRUE, mine |-> TRUE]
    BY <1>2 DEF Applied
  <2>4. QED
    BY <1>2, <2>2, <2>3 DEF Object, Owners
<1>3. QED
  BY <1>1, <1>2

-----------------------------------------------------------------------------
(* The steps.                                                              *)

\* A pass that is over.
LEMMA IdleFacts ==
    /\ Idle \in PassRecord /\ Idle.pc = "idle"
    /\ Idle.todo = {} /\ Idle.reconciled = {} /\ Idle.before.groups = {}
<1>1. 0 \in Uids
  <2>1. Cardinality(Kinds) \in Nat /\ Cardinality(Groups) \in Nat
    BY FiniteAssumption, FS_CardinalityType
  <2>2. Cardinality(Kinds) * Cardinality(Groups) \in Nat
    BY <2>1
  <2>3. QED
    BY <2>2 DEF Uids
<1>2. NoVictim \in [group : Groups \cup {NoKind}, uid : Uids]
  BY <1>1 DEF NoVictim
<1>3. [kind |-> NoKind, groups |-> {}, refs |-> NoRefs]
        \in [kind : Kinds \cup {NoKind}, groups : SUBSET Groups,
             refs : [Groups -> Kinds \cup {NoKind}]]
  BY DEF NoRefs
<1>4. QED
  BY <1>2, <1>3 DEF Idle, PassRecord

\* An idle pass has nothing to answer for.
LEMMA IdleOK ==
    ASSUME pass' = Idle
    PROVE  PassOK' /\ pass'.pc = "idle"
BY IdleFacts DEF PassOK

\* The pieces of TypeOK that PassOK and BudgetOK do not hold already.
LEMMA TypeFrom ==
    ASSUME PassOK, BudgetOK, pool \in PoolType, poolCache \in PoolType,
           objs \in [Kinds -> [Groups -> Object \cup {Absent}]],
           objCache \in [Kinds -> [Groups -> Owners \cup {"absent"}]]
    PROVE  TypeOK
BY DEF TypeOK, PassOK, BudgetOK, PassRecord

\* The same after a step.
LEMMA TypeNext ==
    ASSUME PassOK', BudgetOK', pool' \in PoolType, poolCache' \in PoolType,
           objs' \in [Kinds -> [Groups -> Object \cup {Absent}]],
           objCache' \in [Kinds -> [Groups -> Owners \cup {"absent"}]]
    PROVE  TypeOK'
BY DEF TypeOK, PassOK, BudgetOK, PassRecord

\* Nothing exists at the start.
LEMMA InitInv == Init => Inv
<1> SUFFICES ASSUME Init PROVE Inv
  OBVIOUS
<1>1. PassOK /\ pass.pc = "idle"
  BY IdleFacts DEF Init, PassOK
<1>2. BudgetOK
  BY ScenariosAssumption DEF Init, BudgetOK
<1>3. pool \in PoolType /\ poolCache \in PoolType
  BY KindsAssumption DEF Init, PoolType, NoRefs
<1>4. /\ objs \in [Kinds -> [Groups -> Object \cup {Absent}]]
      /\ objCache \in [Kinds -> [Groups -> Owners \cup {"absent"}]]
  BY DEF Init
<1>5. Owned /\ Replaced
  <2>1. \A k \in Kinds, g \in Groups : objs[k][g] = Absent
    BY DEF Init
  <2>2. ~isControlledBy(Absent)
    BY DEF Absent, isControlledBy
  <2>3. QED
    BY <1>1, <2>1, <2>2 DEF Owned, Replaced
<1>6. QED
  BY <1>1, <1>2, <1>3, <1>4, <1>5, TypeFrom DEF Inv

\* A disturbance is one the scenario has, and one is left fewer.
LEMMA DisturbFacts ==
    ASSUME BudgetOK, NEW what, Disturb(what)
    PROVE  BudgetOK' /\ budget'.of = budget.of /\ budget'.at = budget.at /\ what \in budget.of
<1>1. budget' = [of |-> budget.of, left |-> budget.left - 1, at |-> budget.at]
  BY DEF Disturb, BudgetOK
<1>2. PICK s \in Scenarios : s.of = budget.of /\ budget.left \in 0 .. s.left
  BY DEF BudgetOK
<1>3. s.left \in Nat
  BY ScenariosAssumption
<1>4. budget.left > 0 /\ budget.left \in Nat
  BY DEF Disturb, BudgetOK
<1>5. budget.left - 1 \in Nat /\ budget.left - 1 \in 0 .. s.left
  BY <1>2, <1>3, <1>4
<1>6. budget' \in [of : SUBSET STRING, left : Nat, at : SUBSET Kinds]
  BY <1>1, <1>5 DEF BudgetOK
<1>7. QED
  BY <1>1, <1>2, <1>5, <1>6 DEF Disturb, BudgetOK

\* A step of the pass that writes no object.
LEMMA ReadStep ==
    ASSUME Inv, UNCHANGED <<poolCache, objs, objCache>>, pool' \in PoolType,
           BudgetOK', budget'.of = budget.of, PassOK',
           pass'.pc = "delete" => /\ pass.pc = "sweep"
                                  /\ pass'.sweeping = pass.sweeping
                                  /\ isControlledBy(objs[pass.sweeping][pass'.victim.group])
                                  /\ pass'.victim.uid = objs[pass.sweeping][pass'.victim.group].uid,
           pass'.pc # "idle" => pass'.reconciled = {} \/ (/\ pass.pc # "idle"
                                                          /\ pass'.reconciled = pass.reconciled
                                                          /\ pass'.before = pass.before)
    PROVE  Inv'
<1>1. TypeOK'
  BY TypeNext DEF Inv, TypeOK
<1>2. Owned'
  <2>1. CASE pass'.pc = "delete"
    <3>1. pass.sweeping \in Kinds /\ pass'.victim.group \in Groups
      BY <2>1 DEF Inv, PassOK
    <3> DEFINE o == objs[pass.sweeping][pass'.victim.group]
    <3>2. o # Absent
      BY <2>1 DEF isControlledBy, Absent
    <3>3. o.uid # 0 /\ o.mine = TRUE
      BY <2>1, <3>1, <3>2 DEF Inv, Owned
    <3>4. QED
      BY <2>1, <3>3 DEF Inv, Owned
  <2>2. CASE pass'.pc # "delete"
    BY <2>2 DEF Inv, Owned
  <2>3. QED
    BY <2>1, <2>2
<1>3. Replaced'
  BY DEF Inv, Replaced, Quiet, kind
<1>4. QED
  BY <1>1, <1>2, <1>3 DEF Inv

\* The informers catch up, or the pool is edited.
LEMMA WorldStep ==
    ASSUME Inv, UNCHANGED <<objs, pass>>, pool' \in PoolType, poolCache' \in PoolType,
           objCache' \in [Kinds -> [Groups -> Owners \cup {"absent"}]],
           BudgetOK', budget'.of = budget.of
    PROVE  Inv'
<1>1. PassOK'
  BY DEF Inv, PassOK, kind, keep
<1>2. TypeOK'
  BY <1>1, TypeNext DEF Inv, TypeOK
<1>3. QED
  BY <1>1, <1>2 DEF Inv, Owned, Replaced, Quiet, kind

\* The pass begins with what the cache says of the pool.
LEMMA BeginInv == Inv /\ Begin => Inv'
<1> SUFFICES ASSUME Inv, Begin PROVE Inv'
  OBVIOUS
<1>1. pass' = [pc |-> "groups", before |-> poolCache, todo |-> poolCache.groups,
               reconciled |-> {}, kinds |-> {}, sweeping |-> NoKind, found |-> {},
               victim |-> NoVictim]
  BY DEF Begin, Idle
<1>2. poolCache \in PoolType /\ pool \in PoolType /\ BudgetOK
  BY DEF Inv, TypeOK
<1>3. NoVictim \in [group : Groups \cup {NoKind}, uid : Uids]
  BY IdleFacts DEF Idle, PassRecord
<1>4. pass' \in PassRecord
  BY <1>1, <1>2, <1>3 DEF PassRecord, PoolType
<1>5. PassOK'
  BY <1>1, <1>2, <1>4 DEF PassOK, PoolType, kind
<1>6. BudgetOK' /\ budget'.of = budget.of
  BY <1>2 DEF Begin, BudgetOK
<1>7. pass'.pc = "groups" /\ pass'.reconciled = {} /\ pool' \in PoolType
      /\ UNCHANGED <<poolCache, objs, objCache>>
  <2>1. pass'.pc = "groups" /\ pass'.reconciled = {}
    BY ONLY <1>1
  <2>2. QED
    BY <1>2, <2>1 DEF Begin
<1>8. QED
  BY <1>5, <1>6, <1>7, ReadStep

\* The loop goes on with the next group.
LEMMA NextGroupFacts ==
    ASSUME PassOK, pass.todo # {}, pass.pc # "idle", NEW done, done \subseteq {Current},
           NextGroup(done)
    PROVE  /\ PassOK' /\ pass'.pc = "groups" /\ pass'.before = pass.before
           /\ pass'.reconciled = pass.reconciled \cup done
           /\ pass'.victim = pass.victim
<1>1. Current \in pass.todo
  BY DEF Current
<1>2. pass' = [pc |-> "groups", before |-> pass.before, todo |-> pass.todo \ {Current},
               reconciled |-> pass.reconciled \cup done, kinds |-> pass.kinds,
               sweeping |-> pass.sweeping, found |-> pass.found, victim |-> pass.victim]
  BY DEF NextGroup, PassOK, PassRecord
<1>3. /\ pass.todo \subseteq Groups /\ pass.reconciled \subseteq Groups
      /\ pass.todo \cup pass.reconciled \subseteq pass.before.groups
  BY DEF PassOK, PassRecord
<1>4. /\ pass.reconciled \cup done \subseteq Groups /\ pass.todo \ {Current} \subseteq Groups
      /\ (pass.todo \ {Current}) \cup (pass.reconciled \cup done) \subseteq pass.before.groups
  BY <1>1, <1>3
<1> DEFINE todo == pass.todo \ {Current}
           rec == pass.reconciled \cup done
<1> HIDE DEF todo, rec
<1>5. pass' = [pc |-> "groups", before |-> pass.before, todo |-> todo, reconciled |-> rec,
               kinds |-> pass.kinds, sweeping |-> pass.sweeping, found |-> pass.found,
               victim |-> pass.victim]
  BY <1>2 DEF todo, rec
<1>6. todo \in SUBSET Groups /\ rec \in SUBSET Groups /\ todo \cup rec \subseteq pass.before.groups
  BY <1>4 DEF todo, rec
<1>7. pass' \in PassRecord
  BY <1>5, <1>6 DEF PassOK, PassRecord
<1>8. pass'.pc = "groups" /\ pass'.before = pass.before /\ pass'.todo = todo
      /\ pass'.reconciled = rec /\ pass'.victim = pass.victim
  BY <1>5
<1>9. QED
  BY <1>6, <1>7, <1>8 DEF PassOK, kind, rec

\* A group is read, refused, or fails: no object is written.
LEMMA GroupReadInv ==
    ASSUME Inv, pass.pc \in {"groups", "apply"}, pass.todo # {}, NextGroup({}),
           UNCHANGED <<pool, poolCache, objs, objCache>>, BudgetOK', budget'.of = budget.of
    PROVE  Inv'
<1>1. /\ PassOK' /\ pass'.pc = "groups" /\ pass'.before = pass.before
      /\ pass'.reconciled = pass.reconciled \cup {}
  BY NextGroupFacts DEF Inv
<1>2. pass.reconciled \cup {} = pass.reconciled
  OBVIOUS
<1>3. pool' \in PoolType
  BY DEF Inv, TypeOK
<1>4. QED
  BY <1>1, <1>2, <1>3, ReadStep

\* The read of a group.
LEMMA GetInv == Inv /\ (getWorkload \/ groupFails) => Inv'
<1> SUFFICES ASSUME Inv, getWorkload \/ groupFails PROVE Inv'
  OBVIOUS
<1>1. PassOK /\ BudgetOK /\ pool \in PoolType
  BY DEF Inv, TypeOK
<1>2. CASE groupFails
  <2>1. BudgetOK' /\ budget'.of = budget.of
    BY <1>1, <1>2, DisturbFacts DEF groupFails
  <2>2. QED
    BY <1>2, <2>1, GroupReadInv DEF groupFails
<1>3. CASE getWorkload /\ NextGroup({})
  <2>1. BudgetOK' /\ budget'.of = budget.of
    BY <1>1, <1>3 DEF getWorkload, BudgetOK
  <2>2. QED
    BY <1>3, <2>1, GroupReadInv DEF getWorkload
<1>4. CASE getWorkload /\ pass' = [pass EXCEPT !.pc = "apply"]
  <2>1. BudgetOK' /\ budget'.of = budget.of
    BY <1>1, <1>4 DEF getWorkload, BudgetOK
  <2>2. pass' = [pc |-> "apply", before |-> pass.before, todo |-> pass.todo,
                 reconciled |-> pass.reconciled, kinds |-> pass.kinds,
                 sweeping |-> pass.sweeping, found |-> pass.found, victim |-> pass.victim]
    BY <1>1, <1>4 DEF PassOK, PassRecord
  <2>3. pass' \in PassRecord
    BY <1>1, <2>2 DEF PassOK, PassRecord
  <2>4. PassOK'
    BY <1>1, <1>4, <2>2, <2>3 DEF PassOK, kind, getWorkload
  <2>5. QED
    BY <1>1, <1>4, <2>1, <2>2, <2>4, ReadStep DEF getWorkload
<1>5. QED
  BY <1>2, <1>3, <1>4 DEF getWorkload

\* The apply: the pool's own object appears or is rendered anew.
LEMMA ApplyInv == Inv /\ applyChild => Inv'
<1> SUFFICES ASSUME Inv, applyChild PROVE Inv'
  OBVIOUS
<1>1. PassOK /\ BudgetOK /\ TypeOK /\ pass.todo # {} /\ pass.pc = "apply"
  BY DEF Inv, applyChild, PassOK
<1>2. BudgetOK' /\ budget'.of = budget.of
  BY <1>1 DEF applyChild, BudgetOK
<1>3. CASE objs[kind][Current].owner = "other"
  BY <1>1, <1>2, <1>3, GroupReadInv DEF applyChild
<1>4. CASE objs[kind][Current].owner # "other"
  <2>1. kind \in Kinds /\ Current \in Groups
    BY <1>1 DEF PassOK, PassRecord, Current
  <2> DEFINE o == objs[kind][Current]
             v == Applied(o)
  <2>2. /\ v \in Object /\ v.owner = "pool" /\ v.mine = TRUE
        /\ Exists(o) => v.uid = o.uid
        /\ ~Exists(o) => v.uid # 0
    BY <1>1, <2>1, AppliedFacts
  <2>3. objs' = [objs EXCEPT ![kind][Current] = v]
    BY <1>4 DEF applyChild
  <2>4. v.uid # 0 /\ v # Absent
    <3>1. Exists(o) => o # Absent
      BY DEF Exists, Absent
    <3>2. o = Absent \/ o.uid # 0
      BY <2>1 DEF Inv, Owned
    <3>3. v.uid # 0
      BY <2>2, <3>1, <3>2
    <3>4. QED
      BY <3>3 DEF Absent
  <2> HIDE DEF v
  <2>5. /\ objs' \in [Kinds -> [Groups -> Object \cup {Absent}]]
        /\ objs'[kind][Current] = v
        /\ \A j \in Kinds, h \in Groups : j # kind \/ h # Current => objs'[j][h] = objs[j][h]
    BY <1>1, <2>1, <2>2, <2>3, ObjectUpdate DEF TypeOK
  <2>6. /\ PassOK' /\ pass'.pc = "groups" /\ pass'.before = pass.before
        /\ pass'.reconciled = pass.reconciled \cup {Current}
    BY <1>1, <1>4, NextGroupFacts DEF applyChild
  <2>7. TypeOK'
    BY <1>1, <1>2, <2>5, <2>6, TypeNext DEF applyChild, TypeOK
  <2>8. Owned'
    <3>1. \A j \in Kinds, h \in Groups :
             /\ objs'[j][h] = Absent \/ objs'[j][h].uid # 0
             /\ isControlledBy(objs'[j][h]) => objs'[j][h].mine = TRUE
      BY <2>2, <2>4, <2>5 DEF Inv, Owned
    <3>2. QED
      BY <2>6, <3>1 DEF Owned
  <2>9. Replaced'
    <3>1. kind' = kind
      BY <2>6 DEF kind
    <3>2. ASSUME Quiet, NEW g \in pass.reconciled \cup {Current}
          PROVE  isControlledBy(objs'[kind][g])
      <4>1. CASE g = Current
        BY <2>2, <2>5, <4>1 DEF isControlledBy
      <4>2. CASE g # Current
        <5>1. g \in pass.reconciled /\ g \in Groups
          BY <1>1, <4>2 DEF PassOK, PassRecord
        <5>2. isControlledBy(objs[kind][g])
          BY <1>1, <3>2, <5>1 DEF Inv, Replaced
        <5>3. QED
          BY <2>1, <2>5, <4>2, <5>1, <5>2
      <4>3. QED
        BY <4>1, <4>2
    <3>3. QED
      BY <1>2, <2>6, <3>1, <3>2 DEF Replaced, Quiet
  <2>10. QED
    BY <1>2, <2>6, <2>7, <2>8, <2>9 DEF Inv
<1>5. QED
  BY <1>3, <1>4

\* The sweeps visit kinds and groups.
LEMMA CandidatesType ==
    ASSUME PassOK
    PROVE  /\ \A k : Candidates(k) \in SUBSET Groups
           /\ staleWorkloadGVKs \in SUBSET Kinds
<1>1. \A k : Candidates(k) \in SUBSET Groups
  BY DEF Candidates
<1>2. \A g \in Groups : pass.before.refs[g] \in Kinds \cup {NoKind}
  BY DEF PassOK, PassRecord
<1>3. staleWorkloadGVKs \in SUBSET Kinds
  BY <1>2 DEF staleWorkloadGVKs
<1>4. QED
  BY <1>1, <1>3

\* A sweep of a kind begins.
LEMMA SweepInv == Inv /\ (sweepAllOrphans \/ nextSweep) => Inv'
<1> SUFFICES ASSUME Inv, sweepAllOrphans \/ nextSweep PROVE Inv'
  OBVIOUS
<1>1. PassOK /\ BudgetOK /\ pool \in PoolType
  BY DEF Inv, TypeOK
<1>2. PICK k \in Kinds, ks \in SUBSET Kinds, gs \in SUBSET Groups :
         pass' = [pass EXCEPT !.pc = "sweep", !.kinds = ks, !.sweeping = k, !.found = gs]
  <2>1. CASE sweepAllOrphans
    <3>1. kind \in Kinds
      BY <1>1, <2>1 DEF sweepAllOrphans, PassOK
    <3>2. Candidates(kind) \in SUBSET Groups /\ staleWorkloadGVKs \in SUBSET Kinds
      BY <1>1, CandidatesType
    <3>3. QED
      BY <2>1, <3>1, <3>2 DEF sweepAllOrphans
  <2>2. CASE nextSweep
    <3>1. PICK k \in pass.kinds :
             pass' = [pass EXCEPT !.kinds = @ \ {k}, !.sweeping = k, !.found = Candidates(k)]
      BY <2>2 DEF nextSweep
    <3>2. k \in Kinds /\ pass.kinds \ {k} \in SUBSET Kinds
      BY <1>1, <3>1 DEF PassOK, PassRecord
    <3>3. Candidates(k) \in SUBSET Groups
      BY <1>1, CandidatesType
    <3> DEFINE ks == pass.kinds \ {k}
               gs == Candidates(k)
    <3> HIDE DEF ks, gs
    <3>4. pass' = [pass EXCEPT !.kinds = ks, !.sweeping = k, !.found = gs]
      BY <3>1 DEF ks, gs
    <3>5. pass' = [pass EXCEPT !.pc = "sweep", !.kinds = ks, !.sweeping = k, !.found = gs]
      BY <1>1, <2>2, <3>4 DEF nextSweep, PassOK, PassRecord
    <3>6. QED
      BY <3>2, <3>3, <3>5 DEF ks, gs
  <2>3. QED
    BY <2>1, <2>2
<1>3. pass' = [pc |-> "sweep", before |-> pass.before, todo |-> pass.todo,
               reconciled |-> pass.reconciled, kinds |-> ks, sweeping |-> k,
               found |-> gs, victim |-> pass.victim]
  BY <1>1, <1>2 DEF PassOK, PassRecord
<1>4. pass' \in PassRecord
  BY <1>1, <1>3 DEF PassOK, PassRecord
<1>5. pass.pc # "idle" /\ UNCHANGED <<pool, poolCache, objs, objCache, budget>>
  BY DEF sweepAllOrphans, nextSweep
<1>6. pass'.pc = "sweep" /\ pass'.reconciled = pass.reconciled /\ pass'.before = pass.before
      /\ pass'.todo = pass.todo /\ pass'.sweeping = k
  BY <1>3
<1>7. PassOK'
  BY <1>1, <1>4, <1>5, <1>6 DEF PassOK, kind
<1>8. BudgetOK' /\ budget'.of = budget.of
  BY <1>1, <1>5 DEF BudgetOK
<1>9. QED
  BY <1>1, <1>5, <1>6, <1>7, <1>8, ReadStep

\* A candidate is confirmed, or dropped.
LEMMA ConfirmInv == Inv /\ confirmOrphan => Inv'
<1> SUFFICES ASSUME Inv, confirmOrphan PROVE Inv'
  OBVIOUS
<1>1. PassOK /\ BudgetOK /\ TypeOK /\ pool \in PoolType /\ pass.pc = "sweep"
  BY DEF Inv, TypeOK, confirmOrphan
<1>2. UNCHANGED <<pool, poolCache, objs, objCache, budget>> /\ BudgetOK' /\ budget'.of = budget.of
  BY <1>1 DEF confirmOrphan, BudgetOK
<1>3. PICK g \in pass.found :
         pass' = IF isControlledBy(objs[pass.sweeping][g]) /\ ~keep(pass.sweeping, g)
                 THEN [pass EXCEPT !.pc = "delete", !.found = @ \ {g},
                          !.victim = [group |-> g, uid |-> objs[pass.sweeping][g].uid]]
                 ELSE [pass EXCEPT !.found = @ \ {g}]
  BY DEF confirmOrphan
<1>4. /\ g \in Groups /\ pass.sweeping \in Kinds /\ pass.found \ {g} \in SUBSET Groups
      /\ pass.pc # "idle"
  BY <1>1 DEF PassOK, PassRecord
<1> DEFINE gs == pass.found \ {g}
           o == objs[pass.sweeping][g]
<1>5. o.uid \in Uids
  BY <1>1, <1>4, ObjectFacts
<1>6. gs \in SUBSET Groups
  BY <1>4
<1>7. CASE isControlledBy(o) /\ ~keep(pass.sweeping, g)
  <2>1. pass' = [pass EXCEPT !.pc = "delete", !.found = gs, !.victim = [group |-> g, uid |-> o.uid]]
    BY <1>3, <1>7
  <2> HIDE DEF gs, o
  <2>2. pass' = [pc |-> "delete", before |-> pass.before, todo |-> pass.todo,
                 reconciled |-> pass.reconciled, kinds |-> pass.kinds, sweeping |-> pass.sweeping,
                 found |-> gs, victim |-> [group |-> g, uid |-> o.uid]]
    BY <1>1, <2>1 DEF PassOK, PassRecord
  <2>3. pass' \in PassRecord
    BY <1>1, <1>4, <1>5, <1>6, <2>2 DEF PassOK, PassRecord
  <2>4. pass'.pc = "delete" /\ pass'.before = pass.before /\ pass'.reconciled = pass.reconciled
        /\ pass'.sweeping = pass.sweeping /\ pass'.victim.group = g /\ pass'.victim.uid = o.uid
        /\ pass'.todo = pass.todo
    BY <2>2
  <2>5. ~(keep(pass.sweeping, pass.victim.group))'
    BY <1>7, <2>4 DEF keep, kind
  <2>6. PassOK'
    BY <1>1, <1>4, <2>3, <2>4, <2>5 DEF PassOK, kind
  <2>7. QED
    BY <1>1, <1>2, <1>7, <2>4, <2>6, ReadStep DEF o
<1>8. CASE ~(isControlledBy(o) /\ ~keep(pass.sweeping, g))
  <2>1. pass' = [pass EXCEPT !.found = gs]
    BY <1>3, <1>8
  <2> HIDE DEF gs
  <2>2. pass' = [pc |-> "sweep", before |-> pass.before, todo |-> pass.todo,
                 reconciled |-> pass.reconciled, kinds |-> pass.kinds, sweeping |-> pass.sweeping,
                 found |-> gs, victim |-> pass.victim]
    BY <1>1, <2>1 DEF PassOK, PassRecord
  <2>3. pass' \in PassRecord
    BY <1>1, <1>6, <2>2 DEF PassOK, PassRecord
  <2>4. pass'.pc = "sweep" /\ pass'.before = pass.before /\ pass'.reconciled = pass.reconciled
        /\ pass'.sweeping = pass.sweeping /\ pass'.todo = pass.todo
    BY <2>2
  <2>5. PassOK'
    BY <1>1, <1>4, <2>3, <2>4 DEF PassOK, kind
  <2>6. QED
    BY <1>1, <1>2, <2>4, <2>5, ReadStep
<1>9. QED
  BY <1>7, <1>8

\* A sweep is given up, the status is written or not, the manager dies.
LEMMA EndInv == Inv /\ (sweepFails \/ patchStatus \/ patchFails \/ Crash) => Inv'
<1> SUFFICES ASSUME Inv, sweepFails \/ patchStatus \/ patchFails \/ Crash PROVE Inv'
  OBVIOUS
<1>1. PassOK /\ BudgetOK /\ TypeOK /\ pool \in PoolType
  BY DEF Inv, TypeOK
<1>2. BudgetOK' /\ budget'.of = budget.of
  <2>1. CASE patchStatus
    BY <1>1, <2>1 DEF patchStatus, BudgetOK
  <2>2. CASE ~patchStatus
    BY <1>1, <2>2, DisturbFacts DEF sweepFails, patchFails, Crash
  <2>3. QED
    BY <2>1, <2>2
<1>3. UNCHANGED <<poolCache, objs, objCache>>
  BY DEF sweepFails, patchStatus, patchFails, Crash
<1>4. pool' \in PoolType
  <2>1. CASE patchStatus
    <3>1. pass.pc # "idle" /\ kind \in Kinds
      BY <1>1, <2>1 DEF patchStatus, SweptAll, PassOK
    <3>2. groupStatuses \in [Groups -> Kinds \cup {NoKind}]
      <4>1. \A g \in Groups : pass.before.refs[g] \in Kinds \cup {NoKind}
        BY <1>1 DEF PassOK, PassRecord
      <4>2. QED
        BY <3>1, <4>1 DEF groupStatuses
    <3> HIDE DEF groupStatuses
    <3>3. QED
      BY <1>1, <2>1, <3>2 DEF patchStatus, PoolType
  <2>2. CASE ~patchStatus
    BY <1>1, <2>2 DEF sweepFails, patchFails, Crash
  <2>3. QED
    BY <2>1, <2>2
<1>5. CASE pass' = Idle
  BY <1>2, <1>3, <1>4, <1>5, IdleOK, ReadStep
<1>6. CASE sweepFails
  <2>1. pass.pc \in {"sweep", "delete"}
        /\ pass' = [pass EXCEPT !.pc = "sweep", !.found = {}, !.victim = NoVictim]
    BY <1>6 DEF sweepFails
  <2>2. pass' = [pc |-> "sweep", before |-> pass.before, todo |-> pass.todo,
                 reconciled |-> pass.reconciled, kinds |-> pass.kinds, sweeping |-> pass.sweeping,
                 found |-> {}, victim |-> NoVictim]
    BY <1>1, <2>1 DEF PassOK, PassRecord
  <2>3. NoVictim \in [group : Groups \cup {NoKind}, uid : Uids]
    BY IdleFacts DEF Idle, PassRecord
  <2>4. pass' \in PassRecord
    BY <1>1, <2>2, <2>3 DEF PassOK, PassRecord
  <2>5. pass'.pc = "sweep" /\ pass'.before = pass.before /\ pass'.reconciled = pass.reconciled
        /\ pass'.sweeping = pass.sweeping /\ pass'.todo = pass.todo
    BY <2>2
  <2>6. PassOK'
    BY <1>1, <2>1, <2>4, <2>5 DEF PassOK, kind
  <2>7. QED
    BY <1>2, <1>3, <1>4, <2>1, <2>5, <2>6, ReadStep
<1>7. QED
  BY <1>5, <1>6 DEF patchStatus, patchFails, Crash

\* A delete takes the victim, or finds it gone.
LEMMA DeleteInv == Inv /\ deleteOrphan => Inv'
<1> SUFFICES ASSUME Inv, deleteOrphan PROVE Inv'
  OBVIOUS
<1>1. PassOK /\ BudgetOK /\ TypeOK /\ pass.pc = "delete"
  BY DEF Inv, deleteOrphan
<1>2. BudgetOK' /\ budget'.of = budget.of
  BY <1>1 DEF deleteOrphan, BudgetOK
<1>3. pass' = [pc |-> "sweep", before |-> pass.before, todo |-> pass.todo,
               reconciled |-> pass.reconciled, kinds |-> pass.kinds, sweeping |-> pass.sweeping,
               found |-> pass.found, victim |-> NoVictim]
  BY <1>1 DEF deleteOrphan, PassOK, PassRecord
<1>4. NoVictim \in [group : Groups \cup {NoKind}, uid : Uids]
  BY IdleFacts DEF Idle, PassRecord
<1>5. pass' \in PassRecord
  BY <1>1, <1>3, <1>4 DEF PassOK, PassRecord
<1>6. pass'.pc = "sweep" /\ pass'.before = pass.before /\ pass'.reconciled = pass.reconciled
      /\ pass'.sweeping = pass.sweeping /\ pass'.todo = pass.todo
  BY <1>3
<1>7. PassOK'
  BY <1>1, <1>5, <1>6 DEF PassOK, kind
<1> DEFINE k == pass.sweeping
           g == pass.victim.group
           v == IF objs[k][g].uid = pass.victim.uid THEN Absent ELSE objs[k][g]
<1>8. k \in Kinds /\ g \in Groups /\ ~keep(k, g)
  BY <1>1 DEF PassOK
<1>9. v \in Object \cup {Absent}
  BY <1>1, <1>8, ObjectFacts
<1>10. objs' = [objs EXCEPT ![k][g] = v]
  BY DEF deleteOrphan
<1>11. v = Absent \/ v = objs[k][g]
  OBVIOUS
<1> HIDE DEF v
<1>12. /\ objs' \in [Kinds -> [Groups -> Object \cup {Absent}]]
       /\ objs'[k][g] = v
       /\ \A j \in Kinds, h \in Groups : j # k \/ h # g => objs'[j][h] = objs[j][h]
  BY <1>1, <1>8, <1>9, <1>10, ObjectUpdate DEF TypeOK
<1> HIDE DEF k, g
<1>13. TypeOK'
  BY <1>1, <1>2, <1>7, <1>12, TypeNext DEF deleteOrphan, TypeOK
<1>14. Owned'
  <2>1. ~isControlledBy(Absent)
    BY DEF Absent, isControlledBy
  <2>2. \A j \in Kinds, h \in Groups :
             /\ objs'[j][h] = Absent \/ objs'[j][h].uid # 0
             /\ isControlledBy(objs'[j][h]) => objs'[j][h].mine = TRUE
    BY <1>8, <1>11, <1>12, <2>1 DEF Inv, Owned
  <2>3. QED
    BY <1>6, <2>2 DEF Owned
<1>15. Replaced'
  <2>1. kind' = kind
    BY <1>6 DEF kind
  <2>2. ASSUME Quiet, NEW h \in pass.reconciled PROVE isControlledBy(objs'[kind][h])
    <3>1. h \in pass.before.groups /\ h \in Groups /\ kind \in Kinds
      BY <1>1 DEF PassOK, PassRecord
    <3>2. isControlledBy(objs[kind][h])
      BY <1>1, <2>2 DEF Inv, Replaced
    <3>3. kind # k \/ h # g
      BY <1>8, <3>1 DEF keep
    <3>4. QED
      BY <1>12, <3>1, <3>2, <3>3
  <2>3. QED
    BY <1>2, <1>6, <2>1, <2>2 DEF Replaced, Quiet
<1>16. QED
  BY <1>2, <1>7, <1>13, <1>14, <1>15 DEF Inv

\* Somebody else changes one object: it keeps what it is known by, or it is
\* gone, or it is one that has not been there before.
LEMMA OthersInv ==
    ASSUME Inv, NEW k \in Kinds, NEW g \in Groups, NEW v \in Object \cup {Absent},
           objs' = [objs EXCEPT ![k][g] = v], UNCHANGED <<pool, poolCache, objCache, pass>>,
           BudgetOK', budget'.of = budget.of, ~Quiet,
           v = Absent \/ v.uid # 0,
           isControlledBy(v) => v.mine = TRUE,
           \/ v = Absent
           \/ v.uid # pass.victim.uid
           \/ v.uid = objs[k][g].uid /\ v.mine = objs[k][g].mine
    PROVE  Inv'
<1>1. TypeOK /\ PassOK
  BY DEF Inv
<1>2. /\ objs' \in [Kinds -> [Groups -> Object \cup {Absent}]]
      /\ objs'[k][g] = v
      /\ \A j \in Kinds, h \in Groups : j # k \/ h # g => objs'[j][h] = objs[j][h]
  BY <1>1, ObjectUpdate DEF TypeOK
<1>3. PassOK'
  BY <1>1 DEF PassOK, kind, keep
<1>4. TypeOK'
  BY <1>1, <1>2, <1>3, TypeNext DEF TypeOK
<1>5. Owned'
  <2>1. \A j \in Kinds, h \in Groups :
             /\ objs'[j][h] = Absent \/ objs'[j][h].uid # 0
             /\ isControlledBy(objs'[j][h]) => objs'[j][h].mine = TRUE
    BY <1>2 DEF Inv, Owned
  <2>2. ASSUME pass.pc = "delete"
        PROVE  /\ pass.victim.uid # 0
               /\ objs'[pass.sweeping][pass.victim.group].uid = pass.victim.uid =>
                    objs'[pass.sweeping][pass.victim.group].mine = TRUE
    <3>1. pass.sweeping \in Kinds /\ pass.victim.group \in Groups /\ pass.victim.uid # 0
      BY <1>1, <2>2 DEF Inv, Owned, PassOK
    <3>2. objs[pass.sweeping][pass.victim.group].uid = pass.victim.uid =>
             objs[pass.sweeping][pass.victim.group].mine = TRUE
      BY <2>2 DEF Inv, Owned
    <3>3. CASE k = pass.sweeping /\ g = pass.victim.group
      <4>1. Absent.uid = 0
        BY DEF Absent
      <4>2. QED
        BY <1>2, <3>1, <3>2, <3>3, <4>1
    <3>4. CASE ~(k = pass.sweeping /\ g = pass.victim.group)
      BY <1>2, <3>1, <3>2, <3>4
    <3>5. QED
      BY <3>3, <3>4
  <2>3. QED
    BY <2>1, <2>2 DEF Owned
<1>6. Replaced'
  BY DEF Replaced, Quiet
<1>7. QED
  BY <1>3, <1>4, <1>5, <1>6 DEF Inv

\* A user deletes a child, releases it, strips its labels, or creates an
\* object at its name.
LEMMA UsersInv ==
    ASSUME Inv, NEW k \in budget.at, NEW g \in Groups, UserTouches(k, g) \/ UserCreates(k, g)
    PROVE  Inv'
<1>1. TypeOK /\ PassOK /\ BudgetOK /\ Owned /\ k \in Kinds
  BY DEF Inv, BudgetOK
<1>2. UNCHANGED <<pool, poolCache, objCache, pass>>
  BY DEF UserTouches, UserCreates
<1>3. PICK what \in {"delete", "release", "labels", "create"} : Disturb(what)
  BY DEF UserTouches, UserCreates
<1>4. BudgetOK' /\ budget'.of = budget.of /\ ~Quiet
  BY <1>1, <1>3, DisturbFacts DEF Quiet
<1> DEFINE o == objs[k][g]
<1>5. ~isControlledBy(Absent)
  BY DEF Absent, isControlledBy
<1>6. CASE objs' = [objs EXCEPT ![k][g] = Absent]
  BY <1>1, <1>2, <1>4, <1>5, <1>6, OthersInv
<1>7. CASE UserTouches(k, g) /\ objs' = [objs EXCEPT ![k][g].owner = "nobody"]
  <2>1. o \in Object /\ o.uid # 0
    <3>1. o \in Object /\ o # Absent
      BY <1>1, <1>7, ObjectFacts DEF UserTouches
    <3>2. QED
      BY <1>1, <3>1 DEF Owned
  <2> DEFINE v == [o EXCEPT !.owner = "nobody"]
  <2>2. objs' = [objs EXCEPT ![k][g] = v]
    BY <1>7
  <2>3. v \in Object /\ v.uid = o.uid /\ v.mine = o.mine /\ v.owner = "nobody"
    BY <2>1 DEF Object, Owners
  <2>4. ~isControlledBy(v)
    BY <2>3 DEF isControlledBy
  <2> HIDE DEF v
  <2>5. QED
    BY <1>1, <1>2, <1>4, <2>1, <2>2, <2>3, <2>4, OthersInv
<1>8. CASE UserTouches(k, g) /\ objs' = [objs EXCEPT ![k][g].labelled = FALSE]
  <2>1. o \in Object /\ o.uid # 0 /\ (isControlledBy(o) => o.mine = TRUE)
    <3>1. o \in Object /\ o # Absent
      BY <1>1, <1>8, ObjectFacts DEF UserTouches
    <3>2. QED
      BY <1>1, <3>1 DEF Owned
  <2> DEFINE v == [o EXCEPT !.labelled = FALSE]
  <2>2. objs' = [objs EXCEPT ![k][g] = v]
    BY <1>8
  <2>3. v \in Object /\ v.uid = o.uid /\ v.mine = o.mine /\ v.owner = o.owner
    BY <2>1 DEF Object
  <2>4. isControlledBy(v) => v.mine = TRUE
    BY <2>1, <2>3 DEF isControlledBy
  <2> HIDE DEF v
  <2>5. QED
    BY <1>1, <1>2, <1>4, <2>1, <2>2, <2>3, <2>4, OthersInv
<1>9. CASE UserCreates(k, g)
  <2>1. o = Absent
    BY <1>1, <1>9, ObjectFacts DEF UserCreates
  <2>2. FreshUid \in Uids \ {0} /\ FreshUid # pass.victim.uid
    BY <1>1, <2>1, FreshFacts
  <2> HIDE DEF FreshUid
  <2>3. PICK owner \in {"nobody", "other"}, labelled \in BOOLEAN :
           objs' = [objs EXCEPT ![k][g] =
                      [uid |-> FreshUid, owner |-> owner, labelled |-> labelled, mine |-> FALSE]]
    BY <1>9 DEF UserCreates
  <2> DEFINE v == [uid |-> FreshUid, owner |-> owner, labelled |-> labelled, mine |-> FALSE]
  <2>4. v \in Object /\ v.uid # 0 /\ v.uid # pass.victim.uid /\ v.owner # "pool"
    BY <2>2 DEF Object, Owners
  <2>5. ~isControlledBy(v) /\ objs' = [objs EXCEPT ![k][g] = v]
    BY <2>3, <2>4 DEF isControlledBy
  <2> HIDE DEF v
  <2>6. QED
    BY <1>1, <1>2, <1>4, <2>4, <2>5, OthersInv
<1>10. QED
  BY <1>6, <1>7, <1>8, <1>9 DEF UserTouches

\* The informers and the pool's owner.
LEMMA EditsInv ==
    ASSUME Inv, syncPool \/ (\E k \in Kinds : syncChildren(k)) \/ EditKind \/ EditGroups
    PROVE  Inv'
<1>1. TypeOK /\ BudgetOK
  BY DEF Inv
<1>2. UNCHANGED <<objs, pass>>
  BY DEF syncPool, syncChildren, EditKind, EditGroups
<1>3. BudgetOK' /\ budget'.of = budget.of
  <2>1. CASE EditKind \/ EditGroups
    BY <1>1, <2>1, DisturbFacts DEF EditKind, EditGroups
  <2>2. CASE UNCHANGED budget
    BY <1>1, <2>2 DEF BudgetOK
  <2>3. QED
    BY <2>1, <2>2 DEF syncPool, syncChildren
<1>4. pool' \in PoolType /\ poolCache' \in PoolType
  BY <1>1 DEF TypeOK, PoolType, syncPool, syncChildren, EditKind, EditGroups
<1>5. objCache' \in [Kinds -> [Groups -> Owners \cup {"absent"}]]
  <2>1. ASSUME NEW k \in Kinds, syncChildren(k)
        PROVE  objCache' \in [Kinds -> [Groups -> Owners \cup {"absent"}]]
    <3>1. Cached(k) \in [Groups -> Owners \cup {"absent"}]
      <4>1. \A g \in Groups : objs[k][g].owner \in Owners \cup {"absent"}
        <5> SUFFICES ASSUME NEW g \in Groups PROVE objs[k][g].owner \in Owners \cup {"absent"}
          OBVIOUS
        <5>1. objs[k][g] \in Object \cup {Absent}
          BY <1>1, ObjectFacts
        <5>2. QED
          BY <5>1 DEF Object, Absent
      <4>2. QED
        BY <4>1 DEF Cached
    <3>2. QED
      BY <1>1, <2>1, <3>1 DEF syncChildren, TypeOK
  <2>2. QED
    BY <1>1, <2>1 DEF syncPool, EditKind, EditGroups, TypeOK
<1>6. QED
  BY <1>2, <1>3, <1>4, <1>5, WorldStep

\* Every step keeps the invariant.
LEMMA NextInv == Inv /\ [Next]_vars => Inv'
<1> SUFFICES ASSUME Inv, [Next]_vars PROVE Inv'
  OBVIOUS
<1>1. CASE UNCHANGED vars
  <2>1. /\ BudgetOK' /\ budget'.of = budget.of /\ pool' \in PoolType /\ poolCache' \in PoolType
        /\ objCache' \in [Kinds -> [Groups -> Owners \cup {"absent"}]]
    BY <1>1 DEF vars, Inv, BudgetOK, TypeOK
  <2>2. QED
    BY <1>1, <2>1, WorldStep DEF vars
<1>2. CASE Reconcile \/ Crash
  BY <1>2, BeginInv, GetInv, ApplyInv, SweepInv, ConfirmInv, DeleteInv, EndInv DEF Reconcile
<1>3. CASE Sync \/ Users
  BY <1>3, EditsInv, UsersInv DEF Sync, Users
<1>4. QED
  BY <1>1, <1>2, <1>3 DEF Next

\* The sweep visits only kinds, and deletes only groups' children; the rest
\* is the types of the variables.
THEOREM TypeCorrect == Spec => []TypeOK
<1>1. Inv => TypeOK
  BY DEF Inv
<1>2. QED
  BY <1>1, InitInv, NextInv, PTL DEF Spec

-----------------------------------------------------------------------------
(* What the sweep deletes.                                                 *)

\* Only a delete of the confirmed identity makes an object disappear while
\* the pass moves on.
LEMMA SweptFacts ==
    ASSUME Inv, [Next]_vars, NEW k \in Kinds, NEW g \in Groups, Swept(k, g)
    PROVE  /\ k = pass.sweeping /\ g = pass.victim.group
           /\ objs[k][g].uid = pass.victim.uid
           /\ pass.pc = "delete"
<1>1. pass.pc = "delete" /\ objs' # objs /\ pass' # pass
  BY DEF Swept
<1>2. deleteOrphan
  BY <1>1 DEF Next, Reconcile, Sync, Users, vars, Begin, getWorkload, applyChild, groupFails,
              sweepAllOrphans, nextSweep, confirmOrphan, sweepFails, patchStatus, patchFails,
              SweptAll, Crash, syncPool, syncChildren, EditKind, EditGroups, UserTouches, UserCreates
<1>3. PassOK /\ TypeOK
  BY DEF Inv
<1>4. pass.sweeping \in Kinds /\ pass.victim.group \in Groups
  BY <1>1, <1>3 DEF PassOK
<1> DEFINE o == objs[pass.sweeping][pass.victim.group]
           v == IF o.uid = pass.victim.uid THEN Absent ELSE o
<1>5. v \in Object \cup {Absent} /\ (v = o \/ o.uid = pass.victim.uid)
  BY <1>3, <1>4, ObjectFacts
<1>6. objs' = [objs EXCEPT ![pass.sweeping][pass.victim.group] = v]
  BY <1>2 DEF deleteOrphan
<1> HIDE DEF v
<1>7. /\ objs'[pass.sweeping][pass.victim.group] = v
      /\ \A j \in Kinds, h \in Groups :
            j # pass.sweeping \/ h # pass.victim.group => objs'[j][h] = objs[j][h]
  BY <1>3, <1>4, <1>5, <1>6, ObjectUpdate DEF TypeOK
<1>8. Exists(objs[k][g]) /\ ~Exists(objs'[k][g])
  BY DEF Swept
<1>9. objs'[k][g] # objs[k][g]
  BY <1>8
<1>10. QED
  BY <1>1, <1>5, <1>7, <1>9

\* A sweep deletes only objects the pool has controlled, whoever puts what at
\* whichever name between the confirmation and the delete.
THEOREM NewcomersSpared == Spec => NewcomerSpared
<1> DEFINE Spared == \A k \in Kinds, g \in Groups : Swept(k, g) => objs[k][g].mine
<1>1. Inv /\ [Next]_vars => [Spared]_vars
  <2> SUFFICES ASSUME Inv, [Next]_vars, NEW k \in Kinds, NEW g \in Groups, Swept(k, g)
               PROVE  objs[k][g].mine
    OBVIOUS
  <2>1. k = pass.sweeping /\ g = pass.victim.group /\ objs[k][g].uid = pass.victim.uid
        /\ pass.pc = "delete"
    BY SweptFacts
  <2>2. objs[k][g].mine = TRUE
    BY <2>1 DEF Inv, Owned
  <2>3. QED
    BY <2>2
<1> HIDE DEF Spared
<1>2. Spec => [][Spared]_vars
  BY <1>1, InitInv, NextInv, PTL DEF Spec
<1>3. QED
  BY <1>2 DEF Spared, NewcomerSpared

\* "A failed replacement never costs the capacity it was meant to replace".
THEOREM ReplacementsFirst == Spec => ReplacementFirst
<1> DEFINE First == budget.of \cap {"delete", "release", "labels", "create"} = {} =>
                      \A k \in Kinds, g \in Groups :
                         Swept(k, g) /\ g \in pass.before.groups =>
                             \E other \in Kinds \ {k} : isControlledBy(objs[other][g])
<1>1. Inv /\ [Next]_vars => [First]_vars
  <2> SUFFICES ASSUME Inv, [Next]_vars, Quiet, NEW k \in Kinds, NEW g \in Groups, Swept(k, g),
                      g \in pass.before.groups
               PROVE  \E other \in Kinds \ {k} : isControlledBy(objs[other][g])
    BY DEF Quiet
  <2>1. k = pass.sweeping /\ g = pass.victim.group /\ pass.pc = "delete"
    BY SweptFacts
  <2>2. ~keep(k, g) /\ kind \in Kinds
    BY <2>1 DEF Inv, PassOK
  <2>3. k # kind /\ g \in pass.reconciled
    BY <2>2 DEF keep
  <2>4. isControlledBy(objs[kind][g])
    BY <2>1, <2>3 DEF Inv, Replaced
  <2>5. QED
    BY <2>2, <2>3, <2>4
<1> HIDE DEF First
<1>2. Spec => [][First]_vars
  BY <1>1, InitInv, NextInv, PTL DEF Spec
<1>3. QED
  BY <1>2 DEF First, ReplacementFirst
=============================================================================
