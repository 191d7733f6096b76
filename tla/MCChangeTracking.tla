-------------------------- MODULE MCChangeTracking --------------------------
EXTENDS ChangeTracking, TLC

Symmetry == Permutations(Clients) \cup Permutations(Vals \ {Default}) \cup Permutations(Service)
=============================================================================
