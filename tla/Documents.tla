------------------------------ MODULE Documents ------------------------------
(***************************************************************************)
(* The two conversions between a pool and its children's documents         *)
(* (internal/workload/render.go).  On the way out, BuildChildWorkload      *)
(* merges a group's overrides into the pool's template, strips what was    *)
(* pasted from a live object and writes the fields the controller owns.    *)
(* On the way back the counts a child publishes, which a foreign workload  *)
(* type may declare as 64-bit integers, are narrowed to what the pool's    *)
(* status can store, and summed.                                           *)
(*                                                                         *)
(* A document is a map from keys to nodes, and a node is a map again or a  *)
(* leaf.  The run is one pass over the groups of a pool that share one     *)
(* parsed template.                                                        *)
(***************************************************************************)
EXTENDS Integers, Sums

CONSTANTS
    Groups,      \* number of groups
    Templates,   \* spec.workloadTemplate
    Overrides,   \* spec.groups[].overrides, NoOverrides or Malformed
    Maps,        \* the maps that occur in them, at any level
    Depth,       \* how many levels of maps are below each of these
    MaxDepth,    \* the deepest nesting the decoder accepts
    Targets,     \* what the distribution gives a group
    Counts,      \* a count in a child's status, Absent where it has none
    MaxInt32

VARIABLES
    input,     \* the pool's spec: template, overrides and target of each group
    published, \* what each child's controller has published
    parsed,    \* the template in memory, shared by the groups
    cursor,    \* the next group, 0 before the pass and Groups + 1 after the loop
    children,  \* what was rendered for each group
    rows,      \* status.groups[].replicas
    poolTotal, \* status.replicas
    shares     \* status.groups[].sharePercent

renderVars == <<input, published, parsed, cursor, children, rows, poolTotal, shares>>

-----------------------------------------------------------------------------
(* Documents.                                                              *)

Leaf(v)   == [leaf |-> v]
Number(n) == [num |-> n]
Map(f)    == [map |-> f]
Null      == Leaf("null")
Empty     == [k \in {} |-> Null]
IsMap(n)    == "map" \in DOMAIN n
IsString(n) == "leaf" \in DOMAIN n /\ n # Null

\* What a decoder can find at a key.
Node == [map : Maps] \cup {Null} \cup [leaf : STRING] \cup [num : Int]

\* The name of group g, in its child's name and labels.
NameOf(g) == [group |-> g]

NoOverrides == Leaf("none")
Malformed   == Leaf("malformed")
Failed      == Leaf("error")
Absent      == Leaf("absent")

Without(d, keys) == [k \in DOMAIN d \ keys |-> d[k]]
With(d, k, n)    == [x \in DOMAIN d \cup {k} |-> IF x = k THEN n ELSE d[x]]

ASSUME GroupsAssumption == Groups \in Nat \ {0}

ASSUME CountsAssumption ==
    /\ MaxInt32 \in Nat \ {0} /\ Targets \subseteq 0 .. MaxInt32
    /\ Counts \subseteq [num : Int] \cup {Absent}

\* Documents are finite trees of maps.
ASSUME DocumentsAssumption ==
    /\ Templates \subseteq Maps
    /\ Overrides \subseteq [map : Maps] \cup {NoOverrides, Malformed}
    /\ MaxDepth \in Nat /\ Depth \in [Maps -> 0 .. MaxDepth]
    /\ \A d \in Maps :
          /\ d = [k \in DOMAIN d |-> d[k]]
          /\ \A k \in DOMAIN d :
                /\ d[k] \in Node
                /\ IsMap(d[k]) => Depth[d[k].map] < Depth[d]

\* What is at key k (a set of at most one node), and the map there, or an
\* empty one.
Field(d, k) == IF k \in DOMAIN d THEN {d[k]} ELSE {}
Sub(d, k)   == IF k \in DOMAIN d /\ IsMap(d[k]) THEN d[k].map ELSE Empty

\* The keys that a patch leaves in a map: those it does not set to null.
Left(base, patch) == {k \in DOMAIN base \cup DOMAIN patch : k \in DOMAIN patch => patch[k] # Null}

\* Maps merge, a null deletes, anything else replaces; a map that meets no
\* map is taken over as it is.
MergeMaps[bp \in Maps \X Maps] ==
    LET base == bp[1]  patch == bp[2] IN
    [k \in Left(base, patch) |->
        IF k \notin DOMAIN patch THEN base[k]
        ELSE IF k \in DOMAIN base /\ IsMap(base[k]) /\ IsMap(patch[k])
        THEN Map(MergeMaps[<<base[k].map, patch[k].map>>])
        ELSE patch[k]]

-----------------------------------------------------------------------------
(* BuildChildWorkload.                                                     *)

Pasted == {"uid", "ownerReferences"}

\* The annotation kubectl apply leaves, and annotations that hold no other.
Annotations(md) ==
    IF "annotations" \notin DOMAIN md \/ ~IsMap(md["annotations"]) THEN md
    ELSE LET left == Without(md["annotations"].map, {"last-applied"}) IN
         IF DOMAIN left = {} THEN Without(md, {"annotations"})
         ELSE With(md, "annotations", Map(left))

stripPastedMetadata(d) ==
    LET bare == Without(d, {"status"}) IN
    IF "metadata" \in DOMAIN bare /\ IsMap(bare["metadata"])
    THEN With(bare, "metadata", Map(Annotations(Without(bare["metadata"].map, Pasted))))
    ELSE bare

\* The two labels of the selector, and the three of child and pods.
MatchLabels(g)      == [k \in {"pool", "group"} |-> IF k = "pool" THEN Leaf("this pool") ELSE NameOf(g)]
ControllerLabels(g) == With(MatchLabels(g), "managed-by", Leaf("podpool-controller"))

Labelled(labels, g) ==
    [k \in DOMAIN labels \cup DOMAIN ControllerLabels(g) |->
        IF k \in DOMAIN ControllerLabels(g) THEN ControllerLabels(g)[k] ELSE labels[k]]

\* The pod template with the controller's labels; what stands in the place
\* of a map is replaced by one.
PodTemplate(t, g) ==
    With(t, "metadata", Map(With(Sub(t, "metadata"), "labels",
                                 Map(Labelled(Sub(Sub(t, "metadata"), "labels"), g)))))

\* child.GetLabels(): nothing, unless every label is a string.
GetLabels(md) ==
    LET labels == Sub(md, "labels") IN
    IF \A k \in DOMAIN labels : IsString(labels[k]) THEN labels ELSE Empty

\* Name, namespace, labels and owner reference.  The setters ignore their errors: where
\* metadata is no map, nothing is set.
Metadata(d, g) ==
    IF "metadata" \in DOMAIN d /\ ~IsMap(d["metadata"]) THEN d
    ELSE LET md == Sub(d, "metadata") IN
         With(d, "metadata", Map([k \in DOMAIN md \cup {"name", "namespace", "labels", "ownerReferences"} |->
             CASE k = "name"            -> NameOf(g)
               [] k = "namespace"       -> Leaf("this namespace")
               [] k = "labels"          -> Map(Labelled(GetLabels(md), g))
               [] k = "ownerReferences" -> Leaf("this pool")
               [] OTHER                 -> md[k]]))

\* What is left of template and overrides once they are merged.
Merged(template, over) ==
    stripPastedMetadata(IF over = NoOverrides THEN template ELSE MergeMaps[<<template, over.map>>])

\* Mutant of BuildChildWorkload: a selector of the user's is kept.
BuildChildWorkloadKeepsSelector(template, over, g, replicas) ==
    IF over = Malformed THEN Failed
    ELSE LET d    == Merged(template, over)
             spec == Sub(d, "spec")
         IN  IF "template" \notin DOMAIN spec \/ ~IsMap(spec["template"]) THEN Failed
             ELSE Map(Metadata(With(d, "spec", Map(
                     [k \in DOMAIN spec \cup {"selector", "replicas"} |->
                        CASE k = "template" -> Map(PodTemplate(spec["template"].map, g))
                          [] k = "selector" ->
                                IF k \in DOMAIN spec THEN spec[k]
                                ELSE Map(With(Empty, "matchLabels", Map(MatchLabels(g))))
                          [] k = "replicas" -> Number(replicas)
                          [] OTHER          -> spec[k]])), g))

BuildChildWorkload(template, over, g, replicas) ==
    IF over = Malformed THEN Failed
    ELSE LET d    == Merged(template, over)
             spec == Sub(d, "spec")
         IN  IF \/ "template" \notin DOMAIN spec \/ ~IsMap(spec["template"])
                \/ "selector" \in DOMAIN spec /\ ~IsMap(spec["selector"])
             THEN Failed
             ELSE Map(Metadata(With(d, "spec", Map(
                     [k \in DOMAIN spec \cup {"selector", "replicas"} |->
                        CASE k = "template" -> Map(PodTemplate(spec["template"].map, g))
                          [] k = "selector" ->
                                Map(With(Sub(spec, "selector"), "matchLabels", Map(MatchLabels(g))))
                          [] k = "replicas" -> Number(replicas)
                          [] OTHER          -> spec[k]])), g))

-----------------------------------------------------------------------------
(* The counts.                                                             *)

\* Mutant of ReadInt32Checked: an unchecked conversion, which wraps.
ReadInt32CheckedWraps(v) ==
    IF v = Absent THEN 0
    ELSE ((v.num + MaxInt32 + 1) % (2 * (MaxInt32 + 1))) - (MaxInt32 + 1)

ReadInt32Checked(v) ==
    IF v = Absent \/ v.num < 0 THEN 0 ELSE IF v.num > MaxInt32 THEN MaxInt32 ELSE v.num

clampInt32(v) == IF v < 0 THEN 0 ELSE IF v > MaxInt32 THEN MaxInt32 ELSE v

\* A whole percentage.  (The quotient is taken in floating point, which may
\* be one short where 100 * replicas / sum is whole; not for sums below 10.)
shareOfTotal(replicas, sum) ==
    IF sum <= 0 \/ replicas <= 0 THEN 0
    ELSE IF replicas >= sum THEN 100 ELSE (100 * replicas) \div sum

-----------------------------------------------------------------------------
(* The pass.                                                               *)

RenderInit ==
    /\ input \in [template : Templates, over : [1 .. Groups -> Overrides],
                  target : [1 .. Groups -> Targets]]
    /\ published \in [1 .. Groups -> Counts]
    /\ parsed = Empty
    /\ cursor = 0
    /\ children = [g \in 1 .. Groups |-> Failed]
    /\ rows = [g \in 1 .. Groups |-> 0]
    /\ poolTotal = 0
    /\ shares = [g \in 1 .. Groups |-> 0]

\* Once per pass, after its GVK could be read.
ParseTemplate ==
    /\ cursor = 0
    /\ parsed' = input.template
    /\ cursor' = 1
    /\ UNCHANGED <<input, published, children, rows, poolTotal, shares>>

\* Mutant of reconcileGroup: the overrides are merged into the template in
\* place.
reconcileGroupInPlace ==
    /\ cursor \in 1 .. Groups
    /\ \E child \in {BuildChildWorkload(parsed, input.over[cursor], cursor, input.target[cursor])} :
          /\ children' = [children EXCEPT ![cursor] = child]
          /\ rows' = IF child = Failed THEN rows
                     ELSE [rows EXCEPT ![cursor] = ReadInt32Checked(published[cursor])]
    /\ parsed' = IF input.over[cursor] \in {NoOverrides, Malformed} THEN parsed
                 ELSE Merged(parsed, input.over[cursor])
    /\ cursor' = cursor + 1
    /\ UNCHANGED <<input, published, poolTotal, shares>>

\* One group: rendered, applied and read back.  A group that cannot be
\* rendered keeps the row it had.
reconcileGroup ==
    /\ cursor \in 1 .. Groups
    /\ \E child \in {BuildChildWorkload(parsed, input.over[cursor], cursor, input.target[cursor])} :
          /\ children' = [children EXCEPT ![cursor] = child]
          /\ rows' = IF child = Failed THEN rows
                     ELSE [rows EXCEPT ![cursor] = ReadInt32Checked(published[cursor])]
    /\ cursor' = cursor + 1
    /\ UNCHANGED <<input, published, parsed, poolTotal, shares>>

\* A wide accumulator, narrowed once; the shares are taken of the narrowed
\* sum.
summariseGroups ==
    /\ cursor = Groups + 1
    /\ poolTotal' = clampInt32(RunningSum(rows, Groups)[Groups])
    /\ shares' = [g \in 1 .. Groups |-> shareOfTotal(rows[g], poolTotal')]
    /\ cursor' = cursor + 1
    /\ UNCHANGED <<input, published, parsed, children, rows>>

RenderNext == ParseTemplate \/ reconcileGroup \/ summariseGroups

RenderSpec == RenderInit /\ [][RenderNext]_renderVars

-----------------------------------------------------------------------------
(* What the conversions promise.                                           *)

\* The types of the variables: whatever the children publish, every count
\* and every share is one the pool's schema can store.
RenderTypeOK ==
    /\ cursor \in 0 .. Groups + 2
    /\ \A g \in 1 .. Groups : children[g] = Failed \/ IsMap(children[g])
    /\ rows \in [1 .. Groups -> 0 .. MaxInt32]
    /\ poolTotal \in 0 .. MaxInt32
    /\ shares \in [1 .. Groups -> 0 .. 100]

\* The map a patch is applied to, and what it meets at key k.
Old(target)      == IF IsMap(target) THEN target.map ELSE Empty
Meets(target, k) == IF k \in DOMAIN Old(target) THEN Old(target)[k] ELSE Null

\* RFC 7386, as the RFC defines it: a patch that is a map makes a map of
\* whatever it meets, so that no null of the patch is left.
MergePatch[tp \in Node \X Node] ==
    LET target == tp[1]  patch == tp[2] IN
    IF ~IsMap(patch) THEN patch
    ELSE Map([k \in Left(Old(target), patch.map) |->
                IF k \notin DOMAIN patch.map THEN Old(target)[k]
                ELSE MergePatch[<<Meets(target, k), patch.map[k]>>]])

\* The keys at which, or below which, a map of the patch that meets no map
\* holds a null.
NullsIntoNothing[tp \in Node \X Node] ==
    LET target == tp[1]  patch == tp[2] IN
    IF ~IsMap(patch) THEN {}
    ELSE {k \in DOMAIN patch.map :
             \/ ~IsMap(target) /\ patch.map[k] = Null
             \/ NullsIntoNothing[<<Meets(target, k), patch.map[k]>>] # {}}

Rendered == {g \in 1 .. Groups : children[g] # Failed}

\* The document the user asked for, by the RFC.
Asked(g) ==
    IF input.over[g] = NoOverrides THEN input.template
    ELSE MergePatch[<<Map(input.template), input.over[g]>>].map

\* Whatever template and overrides say about them, the fields by which the
\* controller finds and sizes a child are the controller's: the pods match
\* the selector, the replicas are the target, name, namespace, owner and
\* labels are the pool's, and nothing of a pasted identity is left.
OwnedFieldsWin ==
    \A g \in Rendered :
        LET d    == children[g].map
            spec == Sub(d, "spec")
            pods == Sub(Sub(Sub(spec, "template"), "metadata"), "labels")
            md   == Sub(d, "metadata")
        IN  /\ Field(spec, "replicas") = {Number(input.target[g])}
            /\ Field(Sub(spec, "selector"), "matchLabels") = {Map(MatchLabels(g))}
            /\ \A k \in DOMAIN MatchLabels(g) : Field(pods, k) = {MatchLabels(g)[k]}
            /\ Field(d, "status") = {} /\ Field(md, "uid") = {}
            /\ (\A n \in Field(Asked(g), "metadata") : IsMap(n)) =>
                  /\ Field(md, "name") = {NameOf(g)}
                  /\ Field(md, "namespace") = {Leaf("this namespace")}
                  /\ Field(md, "ownerReferences") = {Leaf("this pool")}
                  /\ \A k \in DOMAIN ControllerLabels(g) :
                        Field(Sub(md, "labels"), k) = {ControllerLabels(g)[k]}

\* Two maps agree on every key but some.
SameBut(keys, d, e) == \A k \in (DOMAIN d \cup DOMAIN e) \ keys : Field(d, k) = Field(e, k)

\* "Overrides follow RFC 7386 semantics", "callers can merge one shared
\* template many times": every field that is the user's is in the child just
\* as the RFC says, whichever groups were rendered before.  Not where an
\* override has a null inside a map that the template does not have: there
\* MergeMaps keeps the null.  And of the child's own labels only if all are
\* strings: GetLabels returns none of them otherwise.
UserFieldsKept ==
    \A g \in Rendered :
        LET a == Asked(g)
            d == children[g].map
            SameAt(k, keys)        == SameBut(keys, Sub(a, k), Sub(d, k))
            SameBelow(k, j, keys)  == SameBut(keys, Sub(Sub(a, k), j), Sub(Sub(d, k), j))
            pods(e)                == Sub(Sub(Sub(e, "spec"), "template"), "metadata")
        IN  (input.over[g] = NoOverrides
                \/ NullsIntoNothing[<<Map(input.template), input.over[g]>>] = {}) =>
            /\ SameBut({"spec", "metadata", "status"}, a, d)
            /\ SameAt("spec", {"template", "selector", "replicas"})
            /\ SameBelow("spec", "selector", {"matchLabels"})
            /\ SameBelow("spec", "template", {"metadata"})
            /\ SameBut({"labels"}, pods(a), pods(d))
            /\ SameBut(DOMAIN ControllerLabels(g), Sub(pods(a), "labels"), Sub(pods(d), "labels"))
            /\ SameAt("metadata", {"name", "namespace", "labels", "annotations"} \cup Pasted)
            /\ SameBelow("metadata", "annotations", {"last-applied"})
            /\ (\A k \in DOMAIN Sub(Sub(a, "metadata"), "labels") :
                   IsString(Sub(Sub(a, "metadata"), "labels")[k])) =>
                  SameBelow("metadata", "labels", DOMAIN ControllerLabels(g))

\* What a rendered child claims to run, in a number of any size.
Reported(g) ==
    IF g \notin Rendered \/ published[g] = Absent \/ published[g].num < 0 THEN 0
    ELSE published[g].num

\* "Clamping high fails in the safe direction": the narrowed counts compare
\* with every target a group or a pool can have just as the published ones
\* do, one by one and in sum, and the pool's schema can store them.
CountsCompareAlike ==
    /\ RenderTypeOK
    /\ cursor = Groups + 2 =>
        \A t \in 1 .. MaxInt32 :
            /\ \A g \in 1 .. Groups : rows[g] >= t <=> Reported(g) >= t
            /\ poolTotal >= t <=>
                  RunningSum([g \in 1 .. Groups |-> Reported(g)], Groups)[Groups] >= t

\* The inductive invariant behind these: what the pass has written so far, as
\* a function of the pool and of what the children publish.
RenderInv ==
    /\ input \in [template : Templates, over : [1 .. Groups -> Overrides],
                  target : [1 .. Groups -> Targets]]
    /\ published \in [1 .. Groups -> Counts]
    /\ cursor \in 0 .. Groups + 2
    /\ cursor > 0 => parsed = input.template
    /\ children = [g \in 1 .. Groups |->
          IF g < cursor THEN BuildChildWorkload(input.template, input.over[g], g, input.target[g])
          ELSE Failed]
    /\ rows = [g \in 1 .. Groups |->
          IF children[g] = Failed THEN 0 ELSE ReadInt32Checked(published[g])]
    /\ poolTotal = IF cursor = Groups + 2 THEN clampInt32(RunningSum(rows, Groups)[Groups]) ELSE 0
    /\ shares = [g \in 1 .. Groups |->
          IF cursor = Groups + 2 THEN shareOfTotal(rows[g], poolTotal) ELSE 0]
=============================================================================
