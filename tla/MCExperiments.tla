---------------------------- MODULE MCExperiments ----------------------------
(***************************************************************************)
(* Experiments with two experiments of one kind.  One wins if it is        *)
(* evaluated early and loses once more scores are in, the other the other  *)
(* way round.  The judge's last two scores are alike.  The agent starts    *)
(* with p selected; the judge has already sent one score if it experiments *)
(* with prompts, so that there may be too few to compare with, and three   *)
(* if it experiments with tools.                                           *)
(***************************************************************************)
EXTENDS Experiments

CONSTANTS p, q, first

MCBetter ==
    {<<e, h>> \in Experiments \X SUBSET (1..MaxScores) : (e = p) <=> Cardinality(h) <= first}

MCKey == [k \in 1..MaxScores |-> IF k = MaxScores THEN k - 1 ELSE k]

MCInit == Init /\ Stored(ad).name = p /\ judged = IF kind = "prompt" THEN 1 ELSE 3

MCFairSpec == MCInit /\ [][Next]_vars /\ Fairness

=============================================================================
