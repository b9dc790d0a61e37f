--------------------------- MODULE MCDistributor ---------------------------
(* Distributor over every list of three groups drawn from ten shapes.      *)
EXTENDS DistributionReference

Shape(lo, hi, pct, opp) ==
    [min |-> lo, max |-> hi, target |-> pct, opportunistic |-> opp]

\* Admissible shapes, an unreadable target (0), and an opportunistic group
\* stored with a target before the rule against it existed.
MCScalings ==
    { Shape(Nil, Nil, Nil, FALSE), Shape(2, Nil, Nil, FALSE),
      Shape(1, 2, Nil, FALSE),     Shape(Nil, 3, 50, FALSE),
      Shape(2, Nil, 34, FALSE),    Shape(Nil, Nil, 60, FALSE),
      Shape(1, Nil, 0, FALSE),
      Shape(Nil, Nil, Nil, TRUE),  Shape(2, Nil, Nil, TRUE),
      Shape(Nil, Nil, 50, TRUE) }

MCTotals == {0, 1, 2, 3, 5, 7}

MCCapacities == {0, 1, 3}

\* Shapes admission accepts, for the cold start.
MCAdmissible ==
    { Shape(2, Nil, Nil, TRUE), Shape(Nil, Nil, Nil, FALSE),
      Shape(Nil, 9, 60, FALSE), Shape(2, Nil, 34, FALSE) }

=============================================================================
