--------------------------- MODULE MCPairJudging ---------------------------
EXTENDS PairJudging, TLC

CONSTANTS d1, d2, x, y

MCCriterionOf == [d \in Defects |-> CHOOSE c \in Criteria : TRUE]

\* The two defects read their tests in opposite orders.
MCRank == [p \in Pair |-> IF p[1] = d1 THEN p[2] ELSE 10 - p[2]]

\* Two defects that read the same, two that do not, and one with many tests.
MCReviews ==
    {[defects |-> {d1, d2}, tests |-> {1, 2}, text |-> d1 :> x @@ d2 :> x],
     [defects |-> {d1, d2}, tests |-> {1, 2}, text |-> d1 :> x @@ d2 :> y],
     [defects |-> {d1}, tests |-> {1, 2, 3}, text |-> d1 :> x @@ d2 :> x]}

\* Nothing is carried, or one verdict.
MCPriors == {[q \in Question |-> IF q = <<x, 1>> THEN v ELSE "none"] : v \in {"none", "fails"}}
=============================================================================
