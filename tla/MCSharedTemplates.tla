--------------------------- MODULE MCSharedTemplates ---------------------------
(***************************************************************************)
(* SharedTemplates with two agents and the names of the quality check and  *)
(* of the judge.  An agent calls for nothing, for the quality check in its *)
(* steps and for the judge, or (config/samples/evaluation-example.yaml)    *)
(* for the judge in both.                                                  *)
(***************************************************************************)
EXTENDS SharedTemplates

CONSTANTS a, b, quality, judge

MCNothing == [steps |-> {}, features |-> {}]
MCQuality == [steps |-> {quality}, features |-> {judge}]
MCSample == [steps |-> {judge}, features |-> {judge}]

MCChoices == {MCNothing, MCQuality, MCSample}
MCSampleOnly == {MCSample}

=============================================================================
