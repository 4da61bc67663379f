----------------------------- MODULE DesiredState -----------------------------
(***************************************************************************)
(* What the operator promises the author of an AgentDeployment, in terms   *)
(* of generations alone: the generation asked for only grows; the one that *)
(* is applied to the cluster and the one the status vouches for follow it, *)
(* never ahead of it and never backwards; and once the object is gone      *)
(* nothing more is applied or reported for it.                             *)
(***************************************************************************)
EXTENDS Integers

VARIABLES
    desired,    \* metadata.generation of the AgentDeployment
    applied,    \* the generation the Rollout's spec was computed from
    observed,   \* status.observedGeneration
    exists      \* the API server holds the AgentDeployment

dvars == <<desired, applied, observed, exists>>

DInit ==
    /\ desired = 1
    /\ applied = 0
    /\ observed = 0
    /\ exists = TRUE

Request ==
    /\ exists
    /\ desired' = desired + 1
    /\ UNCHANGED <<applied, observed, exists>>

Apply ==
    /\ exists
    /\ applied' \in applied .. desired
    /\ UNCHANGED <<desired, observed, exists>>

Report ==
    /\ exists
    /\ observed' \in observed .. desired
    /\ UNCHANGED <<desired, applied, exists>>

Retire ==
    /\ exists
    /\ exists' = FALSE
    /\ UNCHANGED <<desired, applied, observed>>

DNext == Request \/ Apply \/ Report \/ Retire

DSpec == DInit /\ [][DNext]_dvars

=============================================================================
