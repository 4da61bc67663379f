---------------------------- MODULE MCEvalHistory ----------------------------
(***************************************************************************)
(* EvalHistory with interchangeable composite versions.                    *)
(***************************************************************************)
EXTENDS EvalHistory, TLC

Symmetry == Permutations(Versions)

=============================================================================
