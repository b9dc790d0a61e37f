----------------------------- MODULE MCDocuments -----------------------------
(* Documents with two groups and the documents that meet every branch of   *)
(* the merge.                                                              *)
EXTENDS Documents, FiniteSetsExt, TLC

Text == Leaf("x")

\* A bare template, one pasted from a live object, one without labels, one
\* with a selector, one without .spec.template.
Spec0 == [template |-> Map(Empty)]
Bare  == [spec |-> Map(Spec0)]

Live  == [spec     |-> Map([template |-> Map([metadata |-> Map([labels |-> Map([team |-> Text])])]),
                            replicas |-> Number(7), paused |-> Text]),
          metadata |-> Map([uid |-> Text, ownerReferences |-> Text, note |-> Text,
                            namespace |-> Leaf("elsewhere"),
                            annotations |-> Map([note |-> Text] @@ ("last-applied" :> Text)),
                            labels |-> Map([team |-> Text, pool |-> Leaf("other")])]),
          status   |-> Text]

Selecting == [spec |-> Map([template |-> Map([metadata |-> Null]),
                            selector |-> Map([extra |-> Text, matchLabels |-> Map([pool |-> Text])])])]

Hollow == [spec |-> Map([paused |-> Text])]

MCTemplates == {Bare, Live, Selecting, Hollow}

Under(k, n) == Map(k :> n)
Labels(n)   == Under("metadata", Under("labels", n))

MCOverrides ==
    { NoOverrides, Malformed,
      Labels(Map([team |-> Leaf("blue")])),
      Labels(Map([team |-> Null])),
      Labels(Map([team |-> Leaf("blue"), old |-> Null])),
      Labels(Map([team |-> Leaf("blue"), build |-> Number(1)])),
      Under("metadata", Map([uid |-> Text, ownerReferences |-> Text, namespace |-> Null])),
      Under("metadata", Under("annotations", Under("last-applied", Text))),
      Under("metadata", Text),
      Under("metadata", Null),
      Under("spec", Map([replicas |-> Number(9), paused |-> Null])),
      Under("spec", Under("template", Null)),
      Under("spec", Under("template", Labels(Map([team |-> Leaf("red"), pool |-> Text])))),
      Under("spec", Under("selector", Text)),
      Under("spec", Under("selector", Map([matchLabels |-> Text, extra |-> Leaf("red")]))) }

\* The maps in a map, itself included, and how deep it is.
RECURSIVE MapsOf(_)
MapsOf(d) == {d} \cup UNION {MapsOf(d[k].map) : k \in {k \in DOMAIN d : IsMap(d[k])}}

RECURSIVE DepthOf(_)
DepthOf(d) == LET below == {DepthOf(d[k].map) : k \in {k \in DOMAIN d : IsMap(d[k])}}
              IN  IF below = {} THEN 0 ELSE 1 + Max(below)

MCMaps  == UNION ({MapsOf(d) : d \in MCTemplates}
                     \cup {MapsOf(n.map) : n \in {n \in MCOverrides : IsMap(n)}})
MCDepth == [d \in MCMaps |-> DepthOf(d)]

MCCounts == {Absent} \cup {Number(n) : n \in {-1, 1, 3, 4}}
=============================================================================
