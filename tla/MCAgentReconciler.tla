-------------------------- MODULE MCAgentReconciler --------------------------
(***************************************************************************)
(* AgentReconciler with a spec, the same with an experiment selected, and  *)
(* one of another composite version.                                       *)
(***************************************************************************)
EXTENDS AgentReconciler

CONSTANTS s1, s2, s3, v1, v2

MCCompositeVersion == [s \in Specs |-> IF s = s3 THEN v2 ELSE v1]
MCWithExperiment == [s \in Specs |-> IF s = s1 THEN s2 ELSE s]

\* The agent is created with the one spec that has no experiment.
MCInit == Init /\ Stored(ad).spec = s1

MCSpec == MCInit /\ [][Next]_vars /\ Fairness

=============================================================================
