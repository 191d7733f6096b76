------------------------- MODULE MCParameterManager -------------------------
(* ParameterManager with a few parameters and ids, for TLC. *)
EXTENDS ParameterManager, TLC

\* The parameters are interchangeable: nothing names one of them.
Symmetry == Permutations(Obj)
=============================================================================
