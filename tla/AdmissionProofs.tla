--------------------------- MODULE AdmissionProofs ---------------------------
(***************************************************************************)
(* What admission promises, for every set of specs users may submit, every *)
(* set of users and every table of permissions.                            *)
(***************************************************************************)
EXTENDS Admission, DistributionProofs, TLAPS

-----------------------------------------------------------------------------
(* The operators.                                                          *)

\* A spec is a list of groups, and each of them is what the schema lets in.
LEMMA GroupsOf ==
    ASSUME NEW s \in PoolSpec
    PROVE  /\ s.groups \in Seq(GroupSpec) /\ Len(s.groups) \in Nat \ {0}
           /\ \A k \in Index(s) : s.groups[k] \in GroupSpec
BY DEF PoolSpec, Index

\* One group after defaulting: still a group, and only its min may differ.
LEMMA DefaultGroup ==
    ASSUME NEW g \in GroupSpec
    PROVE  LET d == [g EXCEPT !.scaling.min = 0]
           IN  /\ d \in GroupSpec
               /\ d.name = g.name /\ d.owned = g.owned /\ d.child = g.child
<1>1. g.scaling \in Scaling /\ g.scaling.max # 0
  BY DEF GroupSpec
<1>2. /\ [g.scaling EXCEPT !.min = 0] \in Scaling
      /\ [g.scaling EXCEPT !.min = 0].max = g.scaling.max
  BY <1>1 DEF Scaling
<1>3. QED
  BY <1>1, <1>2 DEF GroupSpec

\* Default keeps everything of a spec but the mins of its groups.
LEMMA DefaultFacts ==
    ASSUME NEW s \in PoolSpec
    PROVE  /\ Default(s) \in PoolSpec
           /\ Default(s).kind = s.kind
<1> DEFINE G(k) == IF s.groups[k].scaling.min = Nil /\ s.groups[k].scaling.max = Nil
                   THEN [s.groups[k] EXCEPT !.scaling.min = 0] ELSE s.groups[k]
           gs == [k \in Index(s) |-> G(k)]
<1>1. Len(s.groups) \in Nat \ {0} /\ \A k \in Index(s) : s.groups[k] \in GroupSpec
  BY GroupsOf
<1>2. \A k \in Index(s) : G(k) \in GroupSpec
  BY <1>1, DefaultGroup
<1>3. gs \in Seq(GroupSpec) /\ Len(gs) = Len(s.groups)
  <2> HIDE DEF G
  <2> QED BY <1>1, <1>2 DEF Index
<1>4. gs # <<>>
  BY <1>1, <1>3
<1>5. Default(s) = [s EXCEPT !.groups = gs]
  BY DEF Default
<1> HIDE DEF gs
<1>6. QED
  BY <1>3, <1>4, <1>5 DEF PoolSpec

\* What a write submits is a spec with the submitted kind.
LEMMA SubmittedFacts ==
    ASSUME NEW s \in PoolSpec
    PROVE  Submitted(s) \in PoolSpec /\ Submitted(s).kind = s.kind
BY DefaultFacts DEF Submitted

\* A spec is not NoPool.
LEMMA SpecIsPool == NoPool \notin PoolSpec
BY DEF NoPool, PoolSpec

\* No rule looks at spec.replicas.
LEMMA ScaleFacts ==
    ASSUME NEW s \in PoolSpec, NEW r \in Totals
    PROVE  LET t == [s EXCEPT !.replicas = r]
           IN  /\ t \in PoolSpec
               /\ t.kind = s.kind /\ t.groups = s.groups
               /\ validatePodPoolSpec(t) <=> validatePodPoolSpec(s)
               /\ validateRenderedChildren(t) = validateRenderedChildren(s)
<1> DEFINE t == [s EXCEPT !.replicas = r]
<1>1. /\ t \in PoolSpec /\ t.kind = s.kind /\ t.whole = s.whole /\ t.groups = s.groups
  BY DEF PoolSpec
<1> HIDE DEF t
<1>2. validatePodPoolSpec(t) <=> validatePodPoolSpec(s)
  BY <1>1 DEF validatePodPoolSpec, validateWorkloadTemplate, Readable, LegalNames,
     UniqueNames, Index, validateOverflowSink, validateOpportunistic, Unbounded
<1>3. validateRenderedChildren(t) = validateRenderedChildren(s)
  BY <1>1 DEF validateRenderedChildren, Readable, Index
<1>4. QED
  BY <1>1, <1>2, <1>3 DEF t

-----------------------------------------------------------------------------
(* Sound pools stay sound.  AdmittedStaysSound is inductive as it stands:   *)
(* what an update excuses is what the stored pool had wrong, and a pool all *)
(* of whose writes were checked has nothing wrong.                          *)

\* What it takes for a spec to break none of the rules.
Clean(s) ==
    /\ validatePodPoolSpec(s)
    /\ \A k \in Index(s) : CELRules(s.groups[k].scaling)
    /\ validateRenderedChildren(s) = {}

\* A spec admitted as a new pool obeys every rule.
LEMMA CreateClean ==
    ASSUME NEW u, NEW s, NEW l,
           Ratcheted(NoPool, s), ValidateCreate(u, s, l)
    PROVE  Clean(s) /\ ~l
BY DEF Ratcheted, ValidateCreate, Clean, validatePoolNameCreate

\* An update that ratcheting and downgrading let through obeys every rule if
\* the stored spec does, and has its kind.
LEMMA UpdateClean ==
    ASSUME NEW u, NEW old \in PoolSpec, NEW new \in PoolSpec, Clean(old),
           Ratcheted(old, new), ValidateUpdate(u, old, new)
    PROVE  Clean(new) /\ new.kind = old.kind
<1>1. CASE old = new
  BY <1>1
<1>2. CASE old # new
  <2>1. /\ validatePodPoolSpec(new)
        /\ Readable(old) /\ Readable(new) => old.kind = new.kind
        /\ downgradePreExisting(old, new) = {}
    BY <1>2 DEF ValidateUpdate
  <2>2. Readable(old) /\ Readable(new)
    BY <2>1 DEF Clean, validatePodPoolSpec, validateWorkloadTemplate
  <2>3. validateRenderedChildren(new) = {}
    BY <2>1 DEF downgradePreExisting, Clean
  <2>4. \A k \in Index(new) : CELRules(new.groups[k].scaling)
    <3>1. TAKE k \in Index(new)
    <3>2. old # NoPool
      BY SpecIsPool
    <3>3. \/ CELRules(new.groups[k].scaling)
          \/ \E j \in Index(old) : old.groups[j].scaling = new.groups[k].scaling
      BY <3>2 DEF Ratcheted
    <3>4. QED
      BY <3>3 DEF Clean
  <2>5. QED
    BY <2>1, <2>2, <2>3, <2>4 DEF Clean
<1>3. QED
  BY <1>1, <1>2

\* The stored spec exists exactly when it is one.
LEMMA ExistsFacts == TypeOK => (Exists <=> spec \in PoolSpec)
BY SpecIsPool DEF TypeOK, Exists

\* The invariant, with its rules under one name.
LEMMA SoundMeans ==
    AdmittedStaysSound <=>
        TypeOK /\ (Exists /\ guarded => Clean(spec) /\ ~long /\ spec.kind = born)
BY DEF AdmittedStaysSound, Clean

\* Where a kind comes from is one of three answers.
LEMMA OriginType ==
    ASSUME TypeOK, NEW u, NEW old, NEW new
    PROVE  OriginOf(u, old, new) \in {"authorized", "denied", "unguarded"}
BY DEF OriginOf, TypeOK

\* A create.
LEMMA CreateSound ==
    ASSUME AdmittedStaysSound, NEW u, NEW s \in PoolSpec, NEW l \in BOOLEAN, Create(u, s, l)
    PROVE  AdmittedStaysSound'
<1>1. TypeOK
  BY SoundMeans
<1>2. TypeOK'
  BY <1>1, SubmittedFacts, OriginType DEF TypeOK, Create
<1>3. (Exists /\ guarded => Clean(spec) /\ ~long /\ spec.kind = born)'
  <2>1. SUFFICES ASSUME guarded'
                 PROVE  (Clean(spec) /\ ~long /\ spec.kind = born)'
    OBVIOUS
  <2>2. webhook /\ schema
    BY <1>1, <2>1 DEF Create, TypeOK
  <2>3. Clean(Submitted(s)) /\ ~l
    BY <2>2, CreateClean DEF Create, CreateAccepted
  <2>4. spec' = Submitted(s) /\ long' = l /\ born' = s.kind
    BY DEF Create
  <2>5. (Clean(spec))' <=> Clean(spec')
    BY DEF Clean, validatePodPoolSpec, validateWorkloadTemplate, Readable, LegalNames,
       UniqueNames, Index, validateOverflowSink, validateOpportunistic, Unbounded,
       validateRenderedChildren
  <2>6. QED
    BY <2>3, <2>4, <2>5, SubmittedFacts
<1>4. QED
  BY <1>2, <1>3 DEF AdmittedStaysSound, Clean

\* The rules look at the stored spec and at nothing else.
LEMMA CleanPrimed == (Clean(spec))' <=> Clean(spec')
BY DEF Clean, validatePodPoolSpec, validateWorkloadTemplate, Readable, LegalNames,
   UniqueNames, Index, validateOverflowSink, validateOpportunistic, Unbounded,
   validateRenderedChildren

\* An update, of the whole spec or of the annotation alone.
LEMMA UpdateSound ==
    ASSUME AdmittedStaysSound, NEW u, NEW s \in PoolSpec, NEW p \in BOOLEAN, Update(u, s, p)
    PROVE  AdmittedStaysSound'
<1>1. TypeOK /\ (Exists /\ guarded => Clean(spec) /\ ~long /\ spec.kind = born)
  BY SoundMeans
<1>2. TypeOK'
  BY <1>1, SubmittedFacts, OriginType DEF TypeOK, Update
<1>3. (Exists /\ guarded => Clean(spec) /\ ~long /\ spec.kind = born)'
  <2>1. SUFFICES ASSUME guarded'
                 PROVE  (Clean(spec) /\ ~long /\ spec.kind = born)'
    OBVIOUS
  <2>2. guarded /\ webhook /\ schema /\ Exists
    BY <1>1, <2>1 DEF Update, TypeOK
  <2>3. spec \in PoolSpec /\ Clean(spec) /\ ~long /\ spec.kind = born
    BY <1>1, <2>2, ExistsFacts
  <2>4. Ratcheted(spec, Submitted(s)) /\ ValidateUpdate(u, spec, Submitted(s))
    BY <2>2 DEF Update, UpdateAccepted
  <2>5. Clean(Submitted(s)) /\ Submitted(s).kind = spec.kind
    BY <2>3, <2>4, UpdateClean, SubmittedFacts
  <2>6. QED
    BY <2>3, <2>5, CleanPrimed DEF Update
<1>4. QED
  BY <1>2, <1>3 DEF AdmittedStaysSound, Clean

\* The scale subresource, which nobody checks.
LEMMA ScaleSound ==
    ASSUME AdmittedStaysSound, NEW r \in Totals, Scale(r)
    PROVE  AdmittedStaysSound'
<1>1. TypeOK /\ (Exists /\ guarded => Clean(spec) /\ ~long /\ spec.kind = born)
  BY SoundMeans
<1>2. spec \in PoolSpec /\ spec' = [spec EXCEPT !.replicas = r]
  BY <1>1, ExistsFacts DEF Scale
<1>3. /\ spec' \in PoolSpec /\ spec'.kind = spec.kind /\ spec'.groups = spec.groups
      /\ validatePodPoolSpec(spec') <=> validatePodPoolSpec(spec)
      /\ validateRenderedChildren(spec') = validateRenderedChildren(spec)
  BY <1>2, ScaleFacts
<1>4. Clean(spec) => Clean(spec')
  BY <1>3 DEF Clean, Index
<1>5. TypeOK'
  BY <1>1, <1>3 DEF TypeOK, Scale
<1>6. (Exists /\ guarded => Clean(spec) /\ ~long /\ spec.kind = born)'
  BY <1>1, <1>3, <1>4, CleanPrimed DEF Scale
<1>7. QED
  BY <1>5, <1>6 DEF AdmittedStaysSound, Clean

\* Every step keeps a checked pool sound.
LEMMA NextSound == AdmittedStaysSound /\ [Next]_vars => AdmittedStaysSound'
<1> SUFFICES ASSUME AdmittedStaysSound, [Next]_vars
             PROVE  AdmittedStaysSound'
  OBVIOUS
<1>1. ASSUME NEW u \in Users, NEW s \in Specs, NEW b \in BOOLEAN, Create(u, s, b)
      PROVE  AdmittedStaysSound'
  BY <1>1, CreateSound, SpecsAssumption
<1>2. ASSUME NEW u \in Users, NEW s \in Specs, NEW b \in BOOLEAN, Update(u, s, b)
      PROVE  AdmittedStaysSound'
  BY <1>2, UpdateSound, SpecsAssumption
<1>3. ASSUME NEW u \in Users, Exists, Update(u, spec, ~paused)
      PROVE  AdmittedStaysSound'
  <2>1. spec \in PoolSpec
    BY <1>3, ExistsFacts, SoundMeans
  <2>2. (~paused) \in BOOLEAN
    OBVIOUS
  <2>3. QED
    BY <1>3, <2>1, <2>2, UpdateSound
<1>4. ASSUME NEW r \in Totals, Scale(r)
      PROVE  AdmittedStaysSound'
  BY <1>4, ScaleSound
<1>5. CASE Delete
  BY <1>5 DEF Delete, AdmittedStaysSound, TypeOK, Exists
<1>6. CASE Reinstall \/ UNCHANGED vars
  <2>1. /\ UNCHANGED <<spec, long, paused, guarded, born, origin>>
        /\ webhook' \in BOOLEAN /\ schema' \in BOOLEAN
    BY <1>6, SoundMeans DEF Reinstall, vars, TypeOK
  <2>2. TypeOK'
    BY <2>1, SoundMeans DEF TypeOK
  <2>3. (Exists /\ guarded => Clean(spec) /\ ~long /\ spec.kind = born)'
    BY <2>1, SoundMeans, CleanPrimed DEF Exists
  <2>4. QED
    BY <2>2, <2>3 DEF AdmittedStaysSound, Clean
<1>7. QED
  BY <1>1, <1>2, <1>3, <1>4, <1>5, <1>6 DEF Next

\* No sequence of creates, updates, scalings, re-installations and deletions
\* leaves a pool that was checked at every write with an error in it, or with
\* another kind than it was created with.
THEOREM AdmittedSound == Spec => []AdmittedStaysSound
<1>1. Init => AdmittedStaysSound
  BY DEF Init, AdmittedStaysSound, TypeOK, Exists
<1>2. QED
  BY <1>1, NextSound, PTL DEF Spec

\* Specs, annotations and histories keep their types.
THEOREM TypeCorrect == Spec => []TypeOK
<1>1. AdmittedStaysSound => TypeOK
  BY DEF AdmittedStaysSound
<1>2. QED
  BY <1>1, AdmittedSound, PTL

-----------------------------------------------------------------------------
(* Who let the kind in.                                                    *)

\* A kind that a checked update brings in was authorized: the stored one can
\* not be read, so it vouches for nothing.
LEMMA NewKindAuthorized ==
    ASSUME NEW u, NEW old, NEW new, old.kind # new.kind, ValidateUpdate(u, old, new)
    PROVE  checkWorkloadAuthorization(u, new)
<1>1. old # new
  OBVIOUS
<1>2. Readable(new) /\ ~Readable(old)
  BY <1>1 DEF ValidateUpdate, validatePodPoolSpec, validateWorkloadTemplate
<1>3. QED
  BY <1>1, <1>2 DEF ValidateUpdate, gvkVouchedFor

\* One step under the webhook never lets a kind in that its user may not
\* create.
LEMMA NextAuthorized == TypeOK /\ KindAuthorized /\ [Next]_vars => KindAuthorized'
<1> SUFFICES ASSUME TypeOK, origin # "denied", [Next]_vars
             PROVE  origin' # "denied"
  BY DEF KindAuthorized
<1>1. ASSUME NEW u \in Users, NEW s \in Specs, NEW b \in BOOLEAN, Create(u, s, b)
      PROVE  origin' # "denied"
  <2>1. s \in PoolSpec /\ Submitted(s).kind = s.kind
    BY SpecsAssumption, SubmittedFacts
  <2>2. webhook => checkWorkloadAuthorization(u, s)
    BY <1>1, <2>1 DEF Create, CreateAccepted, ValidateCreate, validatePodPoolSpec,
       validateWorkloadTemplate, checkWorkloadAuthorization
  <2>3. QED
    BY <1>1, <2>2 DEF Create, OriginOf
<1>2. ASSUME NEW u, NEW s \in PoolSpec, NEW p, Update(u, s, p)
      PROVE  origin' # "denied"
  <2>1. Submitted(s).kind = s.kind
    BY SubmittedFacts
  <2>2. webhook /\ spec.kind # s.kind => checkWorkloadAuthorization(u, s)
    BY <1>2, <2>1, NewKindAuthorized
    DEF Update, UpdateAccepted, checkWorkloadAuthorization
  <2>3. QED
    BY <1>2, <2>2 DEF Update, OriginOf, Exists
<1>3. ASSUME NEW u \in Users, Exists, Update(u, spec, ~paused)
      PROVE  origin' # "denied"
  BY <1>2, <1>3, ExistsFacts
<1>4. CASE (\E r \in Totals : Scale(r)) \/ Delete \/ Reinstall \/ UNCHANGED vars
  BY <1>4 DEF Scale, Delete, Reinstall, vars
<1>5. QED
  BY <1>1, <1>2, <1>3, <1>4, SpecsAssumption DEF Next

\* Whatever was stored before, and whoever stored it, a kind that comes in
\* while the webhook is installed comes in by a user who may create it.
THEOREM KindsAuthorized == Spec => []KindAuthorized
<1>1. Init => KindAuthorized
  BY DEF Init, KindAuthorized
<1>2. QED
  BY <1>1, NextAuthorized, TypeCorrect, PTL DEF Spec

-----------------------------------------------------------------------------
(* What stays possible.                                                    *)

\* The schema lets a spec in over any other when it lets it in as new, and
\* always over itself.
LEMMA RatchetedFacts ==
    ASSUME NEW old \in PoolSpec, NEW new
    PROVE  Ratcheted(old, old) /\ (Ratcheted(NoPool, new) => Ratcheted(old, new))
<1>1. old # NoPool
  BY SpecIsPool
<1>2. Ratcheted(old, old)
  BY <1>1 DEF Ratcheted
<1>3. ASSUME Ratcheted(NoPool, new)
      PROVE  Ratcheted(old, new)
  BY <1>1, <1>3 DEF Ratcheted
<1>4. QED
  BY <1>2, <1>3

\* Repair stays possible in every reachable state: nothing stored stands in
\* the way of a spec that obeys every rule, and what is wrong with the stored
\* children need not be put right all at once.
THEOREM RepairStaysPossible == Spec => []RepairAccepted
<1>1. TypeOK => RepairAccepted
  <2> SUFFICES ASSUME TypeOK, Exists, NEW u \in Users, NEW s \in Specs,
                      Lawful(s), Lawful(Default(s)),
                      validateRenderedChildren(s) \subseteq validateRenderedChildren(spec),
                      validateRenderedChildren(Default(s)) \subseteq validateRenderedChildren(spec),
                      IF Readable(spec) THEN s.kind = spec.kind ELSE s.kind \in MayCreate[u]
               PROVE  UpdateAccepted(u, s)
    BY DEF RepairAccepted
  <2>1. /\ spec \in PoolSpec /\ s \in PoolSpec /\ Lawful(Submitted(s))
        /\ validateRenderedChildren(Submitted(s)) \subseteq validateRenderedChildren(spec)
    BY ExistsFacts, SpecsAssumption DEF Submitted
  <2>2. Ratcheted(spec, Submitted(s))
    BY <2>1, RatchetedFacts DEF Lawful
  <2>3. Submitted(s).kind = s.kind
    BY <2>1, SubmittedFacts
  <2>4. downgradePreExisting(spec, Submitted(s)) = {}
    BY <2>1 DEF downgradePreExisting, SameIssue
  <2>5. ValidateUpdate(u, spec, Submitted(s))
    BY <2>1, <2>3, <2>4 DEF ValidateUpdate, Lawful, gvkVouchedFor,
       Readable, checkWorkloadAuthorization
  <2>6. QED
    BY <2>2, <2>5 DEF UpdateAccepted
<1>2. QED
  BY <1>1, TypeCorrect, PTL

\* A pool that needs none of the defaults can always be paused and resumed,
\* valid or not.
THEOREM PauseStaysPossible == Spec => []DefaultedPausable
<1>1. TypeOK => DefaultedPausable
  <2> SUFFICES ASSUME TypeOK, Exists, Default(spec) = spec, NEW u \in Users
               PROVE  UpdateAccepted(u, spec)
    BY DEF DefaultedPausable, AlwaysPausable
  <2>1. Submitted(spec) = spec
    BY DEF Submitted
  <2>2. Ratcheted(spec, spec)
    BY ExistsFacts, RatchetedFacts
  <2>3. QED
    BY <2>1, <2>2 DEF UpdateAccepted, ValidateUpdate
<1>2. QED
  BY <1>1, TypeCorrect, PTL

-----------------------------------------------------------------------------
(* Where errors come from.  ErrorsInherited is not inductive: an error that *)
(* an update lets in is the same issue as one stored before, and to find it *)
(* among the legacy every error must be known to have one field only, its   *)
(* type and detail given, unless it is about labels.                        *)

\* The errors there are, told by what fixes their field.
IsError(e) ==
    /\ e = [group |-> e.group, type |-> e.type, field |-> e.field, detail |-> e.detail]
    /\ \/ e.type = "Invalid" /\ e.field = "child"
       \/ e.type = "Forbidden" /\ e.detail = "labels"
       \/ e.type = "Forbidden" /\ e.detail = "nested" /\ e.field = "workloadTemplate"
       \/ e.type = "Forbidden" /\ e.detail \in OwnedPaths /\ e.field = e.detail

\* Two errors that pass for the same issue are one, unless about labels.
LEMMA SameIssueSameError ==
    ASSUME NEW e, NEW o, IsError(e), IsError(o), SameIssue(e, o), e.detail # "labels"
    PROVE  e = o
<1>1. e.group = o.group /\ e.type = o.type /\ e.detail = o.detail
  BY DEF SameIssue
<1>2. e.field = o.field
  BY <1>1 DEF IsError, OwnedPaths
<1>3. QED
  BY <1>1, <1>2 DEF IsError

\* All of a pool's errors.
LEMMA RenderErrorsType ==
    ASSUME NEW s, NEW e \in validateRenderedChildren(s)
    PROVE  IsError(e)
<1>1. \A n, p : IsError(PathError(n, p))
  BY DEF PathError, IsError
<1>2. \A n, m : IsError(ChildError(n, m))
  BY DEF ChildError, IsError
<1>3. IsError(NestedError)
  BY DEF NestedError, IsError
<1>4. ASSUME NEW g, e \in GroupErrors(g)
      PROVE  IsError(e)
  BY <1>1, <1>2, <1>4 DEF GroupErrors, checkControllerOwnedPaths
<1>5. QED
  BY <1>3, <1>4 DEF validateRenderedChildren

\* The inductive invariant: every error of the stored pool is the same issue
\* as an error of the legacy.
Inherited ==
    /\ \A o \in legacy : IsError(o)
    /\ Exists => \A e \in validateRenderedChildren(spec) :
                    \E o \in legacy : SameIssue(e, o)

\* An update under the webhook passes the legacy on.
LEMMA UpdateInherits ==
    ASSUME TypeOK, Inherited, NEW u, NEW s \in PoolSpec, NEW p, Update(u, s, p)
    PROVE  Inherited'
<1>1. Submitted(s) \in PoolSpec /\ spec' = Submitted(s) /\ Exists
  BY SubmittedFacts DEF Update
<1>2. CASE webhook
  <2>1. legacy' = legacy /\ ValidateUpdate(u, spec, spec')
    BY <1>1, <1>2 DEF Update, UpdateAccepted
  <2>2. CASE spec' = spec
    BY <1>1, <2>1, <2>2 DEF Inherited, Exists
  <2>3. CASE spec' # spec
    <3>1. downgradePreExisting(spec, spec') = {}
      BY <2>1, <2>3 DEF ValidateUpdate
    <3>2. \A e \in validateRenderedChildren(spec') :
             \E o \in validateRenderedChildren(spec) : SameIssue(e, o)
      BY <3>1 DEF downgradePreExisting
    <3>3. \A e \in validateRenderedChildren(spec') : \E o \in legacy : SameIssue(e, o)
      BY <1>1, <3>2 DEF Inherited, SameIssue
    <3>4. QED
      BY <2>1, <3>3 DEF Inherited, validateRenderedChildren, Readable, Index
  <2>4. QED
    BY <2>2, <2>3
<1>3. CASE ~webhook
  <2>1. legacy' = validateRenderedChildren(spec')
    BY <1>1, <1>3 DEF Update
  <2>2. QED
    BY <1>1, <2>1, RenderErrorsType DEF Inherited, SameIssue
<1>4. QED
  BY <1>2, <1>3

\* Every step passes the legacy on.
LEMMA NextInherits == TypeOK /\ Inherited /\ [Next]_vars => Inherited'
<1> SUFFICES ASSUME TypeOK, Inherited, [Next]_vars
             PROVE  Inherited'
  OBVIOUS
<1>1. ASSUME NEW u \in Users, NEW s \in Specs, NEW b \in BOOLEAN, Create(u, s, b)
      PROVE  Inherited'
  <2>1. Submitted(s) \in PoolSpec /\ spec' = Submitted(s)
    BY <1>1, SpecsAssumption, SubmittedFacts DEF Create
  <2>2. CASE webhook
    <3>1. validateRenderedChildren(spec') = {} /\ legacy' = {}
      BY <1>1, <2>1, <2>2 DEF Create, CreateAccepted, ValidateCreate
    <3>2. QED
      BY <3>1 DEF Inherited
  <2>3. CASE ~webhook
    <3>1. legacy' = validateRenderedChildren(spec')
      BY <1>1, <2>1, <2>3 DEF Create
    <3>2. QED
      BY <2>1, <3>1, RenderErrorsType DEF Inherited, SameIssue
  <2>4. QED
    BY <2>2, <2>3
<1>2. ASSUME NEW u \in Users, NEW s \in Specs, NEW b \in BOOLEAN, Update(u, s, b)
      PROVE  Inherited'
  BY <1>2, UpdateInherits, SpecsAssumption
<1>3. ASSUME NEW u \in Users, Exists, Update(u, spec, ~paused)
      PROVE  Inherited'
  BY <1>3, UpdateInherits, ExistsFacts
<1>4. ASSUME NEW r \in Totals, Scale(r)
      PROVE  Inherited'
  <2>1. validateRenderedChildren(spec') = validateRenderedChildren(spec) /\ Exists
    BY <1>4, ScaleFacts, ExistsFacts DEF Scale
  <2>2. QED
    BY <1>4, <2>1 DEF Inherited, Scale
<1>5. CASE Delete
  BY <1>5 DEF Delete, Inherited, Exists
<1>6. CASE Reinstall \/ UNCHANGED vars
  BY <1>6 DEF Reinstall, vars, Inherited, Exists
<1>7. QED
  BY <1>1, <1>2, <1>3, <1>4, <1>5, <1>6 DEF Next

\* An error in a stored pool was in that group when the pool was last written
\* without the webhook, unless it is a podpools.dev/* label beside or after
\* another one of the same group.
THEOREM ErrorsOnlyInherited == Spec => []ErrorsInherited
<1>1. Init => Inherited
  BY DEF Init, Inherited, Exists
<1>2. Inherited => ErrorsInherited
  <2> SUFFICES ASSUME Inherited, Exists, NEW e \in validateRenderedChildren(spec),
                      e.detail # "labels"
               PROVE  e \in legacy
    BY DEF Inherited, ErrorsInherited
  <2>1. PICK o \in legacy : SameIssue(e, o)
    BY DEF Inherited
  <2>2. IsError(e) /\ IsError(o)
    BY <2>1, RenderErrorsType DEF Inherited
  <2>3. QED
    BY <2>1, <2>2, SameIssueSameError
<1>3. QED
  BY <1>1, <1>2, NextInherits, TypeCorrect, PTL DEF Spec

-----------------------------------------------------------------------------
(* The warnings.                                                           *)

\* The call that distributes a stored pool's replicas.
LEMMA DistributedArguments ==
    ASSUME NEW s \in PoolSpec, NEW obs \in Observations(s)
    PROVE  LET gs == [k \in Index(s) |-> s.groups[k].scaling]
           IN  Arguments(s.replicas, gs, obs) /\ Len(gs) = Len(s.groups)
<1> DEFINE gs == [k \in Index(s) |-> s.groups[k].scaling]
<1>1. Len(s.groups) \in Nat /\ \A k \in Index(s) : s.groups[k] \in GroupSpec
  BY GroupsOf
<1>2. \A k \in Index(s) : s.groups[k].scaling \in Scaling
  BY <1>1 DEF GroupSpec
<1>3. gs \in Seq(Scaling) /\ Len(gs) = Len(s.groups)
  BY <1>1, <1>2 DEF Index
<1>4. s.replicas \in Nat
  BY TotalsAssumption DEF PoolSpec
<1>5. obs \in [1 .. Len(gs) -> Nat \cup {Nil}]
  BY <1>3, TotalsAssumption DEF Observations, Index
<1>6. QED
  BY <1>3, <1>4, <1>5 DEF Arguments

\* What the webhook warns of, and what it does not warn of, is what the
\* distribution does with every stored pool, however much capacity is seen.
THEOREM WarningsTellTheTruth == Spec => []WarningsTrue
<1>1. TypeOK => WarningsTrue
  <2> SUFFICES ASSUME TypeOK, Exists, NEW obs \in Observations(spec)
               PROVE  LET d == Distributed(spec, obs) IN
                      /\ ~warnOnFullyCappedPool(spec) => d.Unplaced = 0
                      /\ \A k \in warnOnUnreadableTarget(spec) :
                            LET sc == spec.groups[k].scaling IN
                            sc.max = Nil /\ ~IsOpportunistic(sc) => d.Targets[k] <= GroupFloor(sc)
    BY DEF WarningsTrue
  <2> DEFINE gs == [k \in Index(spec) |-> spec.groups[k].scaling]
  <2>1. /\ Arguments(spec.replicas, gs, obs) /\ Len(gs) = Len(spec.groups)
        /\ Distributed(spec, obs) = ComputeGroupTargets(spec.replicas, gs, obs)
    BY ExistsFacts, DistributedArguments DEF Distributed
  <2>2. Index(spec) = 1 .. Len(gs) /\ \A k \in Index(spec) : gs[k] = spec.groups[k].scaling
    BY <2>1 DEF Index
  <2> HIDE DEF gs
  <2>3. ASSUME NEW k \in Index(spec), Unbounded(spec, k)
        PROVE  Distributed(spec, obs).Unplaced = 0
    <3>1. k \in 1 .. Len(gs) /\ ~IsBounded(gs[k])
      BY <2>2, <2>3 DEF Unbounded
    <3>2. QED
      BY <2>1, <3>1, UnboundedTakesAll
  <2>4. ASSUME NEW k \in warnOnUnreadableTarget(spec),
               spec.groups[k].scaling.max = Nil, ~IsOpportunistic(spec.groups[k].scaling)
        PROVE  Distributed(spec, obs).Targets[k] <= GroupFloor(spec.groups[k].scaling)
    <3>1. /\ k \in 1 .. Len(gs) /\ gs[k] = spec.groups[k].scaling
          /\ gs[k].target # Nil /\ ~TargetReadable(gs[k])
          /\ gs[k].max = Nil /\ ~IsOpportunistic(gs[k])
      BY <2>2, <2>4 DEF warnOnUnreadableTarget
    <3>2. ComputeGroupTargets(spec.replicas, gs, obs).Targets[k] <= GroupFloor(gs[k])
      BY <2>1, <3>1, UnreadableStaysAtFloor
    <3>3. QED
      BY <2>1, <3>1, <3>2
  <2>5. QED
    BY <2>3, <2>4 DEF warnOnFullyCappedPool
<1>2. QED
  BY <1>1, TypeCorrect, PTL

=============================================================================
