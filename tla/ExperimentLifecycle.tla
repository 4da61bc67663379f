------------------------- MODULE ExperimentLifecycle -------------------------
(***************************************************************************)
(* What an A/B experiment promises: it begins once, it is decided once and *)
(* only on enough scores from both sides of its beginning, and the record  *)
(* of an outcome is written once, after the decision and in agreement with *)
(* it.                                                                     *)
(***************************************************************************)
EXTENDS Integers

CONSTANTS Experiments, MinSamples, MinControl

VARIABLES
    judged,     \* quality scores the judge has produced
    began,      \* how many there were when the experiment began; -1 before
    outcome,    \* "none", "Promoted" or "Rejected"
    recorded    \* the outcomes on record, as pairs

lvars == <<judged, began, outcome, recorded>>

LInit ==
    /\ judged \in Nat
    /\ began = [e \in Experiments |-> -1]
    /\ outcome = [e \in Experiments |-> "none"]
    /\ recorded = {}

Judged ==
    /\ judged' = judged + 1
    /\ UNCHANGED <<began, outcome, recorded>>

Begin(e) ==
    /\ began[e] = -1
    /\ \E n \in 0..judged : began' = [began EXCEPT ![e] = n]
    /\ UNCHANGED <<judged, outcome, recorded>>

Decide(e) ==
    /\ outcome[e] = "none"
    /\ began[e] >= MinControl
    /\ judged - began[e] >= MinSamples
    /\ \E o \in {"Promoted", "Rejected"} : outcome' = [outcome EXCEPT ![e] = o]
    /\ UNCHANGED <<judged, began, recorded>>

Record ==
    /\ \E S \in SUBSET {e \in Experiments : outcome[e] # "none"} :
         recorded' = recorded \cup {<<e, outcome[e]>> : e \in S}
    /\ UNCHANGED <<judged, began, outcome>>

LNext == \/ Judged
         \/ \E e \in Experiments : Begin(e) \/ Decide(e)
         \/ Record

LSpec == LInit /\ [][LNext]_lvars

=============================================================================
