------------------------- MODULE MCOfxRabbitControl -------------------------
EXTENDS OfxRabbitControl, TLC

CONSTANTS p1, p2, p3, g1, g2

\* g1 holds p1 and g2, which holds p2; p3 is in no group.
MCMember == g1 :> {p1, g2} @@ g2 :> {p2}
MCKind == p1 :> "int" @@ p2 :> "int" @@ p3 :> "bool"

Symmetry == Permutations(Vals)
=============================================================================
