------------------------- MODULE MCAgentDependencies -------------------------
(***************************************************************************)
(* AgentDependencies with a caller that depends on the callee, and a       *)
(* callee that may or may not depend on the caller.                        *)
(***************************************************************************)
EXTENDS AgentDependencies

CONSTANTS caller, callee

MCChoices == [a \in Agents |-> IF a = caller THEN {{callee}} ELSE {{}, {caller}}]

=============================================================================
