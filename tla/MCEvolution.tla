----------------------------- MODULE MCEvolution -----------------------------
(***************************************************************************)
(* Evolution with the DSPy optimizer on failure, reviewed by humans or     *)
(* supposed to be, and with the LLM optimizer on a schedule.               *)
(***************************************************************************)
EXTENDS Evolution

MCOptions ==
    {[mode |-> "dspy", approval |-> TRUE,
      strategy |-> "prompt-optimizer", trigger |-> "on-canary-fail"],
     [mode |-> "llm", approval |-> FALSE, strategy |-> "all", trigger |-> "periodic"]}

=============================================================================
