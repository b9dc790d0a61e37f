----------------------------- MODULE MCAdmission -----------------------------
(* Admission over pools of one or two groups that are in order, or break   *)
(* one of the rules each.                                                  *)
EXTENDS Admission

Shape(lo, hi, pct, opp) ==
    [min |-> lo, max |-> hi, target |-> pct, opportunistic |-> opp]

Free     == Shape(0, Nil, Nil, FALSE)
Bare     == Shape(Nil, Nil, Nil, FALSE)
Typo     == Shape(Nil, Nil, 0, FALSE)
CapTypo  == Shape(1, 2, 0, FALSE)
Cap      == Shape(Nil, 2, Nil, FALSE)
Inverted == Shape(3, 2, Nil, FALSE)
Opp      == Shape(1, Nil, Nil, TRUE)
OppShare == Shape(Nil, Nil, 50, TRUE)

Group(name, a) == [name |-> name, scaling |-> a, owned |-> {}, child |-> Renders]

One(a)    == << Group("base", a) >>
Two(a, b) == << Group("base", a), Group("burst", b) >>

\* The same with paths of the controller's overridden, or with a child that
\* does not come out right.
Owning(k, paths)    == [Two(Cap, Free) EXCEPT ![k].owned = paths]
Failing(k, message) == [Owning(k, {"replicas"}) EXCEPT ![k].child = message]

Untemplated(groups) == [k \in DOMAIN groups |->
    [groups[k] EXCEPT !.child = "no .spec.template"]]

MCGroups ==
    { One(Free), One(Bare), One(Opp),
      Two(Cap, Free), Two(Bare, Bare), Two(Cap, Typo), Two(Typo, Free),
      Two(Opp, Free), Two(Opp, CapTypo), Two(Free, Opp), Two(OppShare, Free),
      Two(Inverted, Free),
      [Two(Cap, Free) EXCEPT ![1].name = BadName],
      [Two(Cap, Free) EXCEPT ![2].name = "base"] }

MCFaulty ==
    { Owning(1, {"replicas"}), Owning(2, {"replicas"}),
      Owning(1, {"pool"}), Owning(1, {"pool", "group"}), Owning(1, {"group"}),
      Failing(1, "wrong type"), Failing(1, Malformed) }

Pool(kind, whole, groups) ==
    [replicas |-> 4, kind |-> kind, whole |-> whole, groups |-> groups]

MCSpecs ==
    {Pool(k, TRUE, gs) : k \in {"Deployment", "Rollout", Unreadable}, gs \in MCGroups}
    \cup {Pool("Deployment", TRUE, gs) : gs \in MCFaulty}
    \cup {Pool(PodPool, TRUE, One(Free)),
           Pool("Deployment", FALSE, Untemplated(One(Free))),
           Pool("Deployment", FALSE, Untemplated(Owning(1, {"replicas"})))}

MCUsers == {"dev", "ops"}
MCMayCreate == [u \in MCUsers |->
    IF u = "dev" THEN {"Deployment"} ELSE {"Deployment", "Rollout", PodPool}]
=============================================================================
