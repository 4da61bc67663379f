----------------------------- MODULE EvalHistory -----------------------------
(***************************************************************************)
(* What one agent's status says about the quality of its answers: step 5.8 *)
(* (reconcileEvalHistory) reads judge scores from Langfuse into            *)
(* status.evalHistory, a ring; step 5.11 (reconcileMemoryLifecycle) takes  *)
(* snapshots of its recent mean and looks for drift; step 5.13             *)
(* (reconcileOptimizationScorecard) computes the trend and looks for a     *)
(* regression since the last promotion; step 6 writes the status.          *)
(*                                                                         *)
(* A score's time is its place in the sequence of all scores.  The clock   *)
(* is left out: a snapshot may or may not be due, and the mean of the last *)
(* seven days, which nothing reads, is not computed.  Scores are           *)
(* hundredths.  A reconcile may start at any time; one that began from an  *)
(* old copy of the status does nothing but meet a conflict in step 6.      *)
(***************************************************************************)
EXTENDS Integers, Sequences, FiniteSets, FiniteSetsExt, Functions

CONSTANTS
    Versions,       \* composite versions a score's comment may name
    NoVersion,      \* a comment without "cv=<version>"
    Values,         \* the judge's scores, in hundredths
    QueryLimit,     \* scores asked of Langfuse: 20
    MaxEvalHistory, \* the ring's size: 50
    SampleSize,     \* history entries a snapshot averages: 10
    Scale,          \* makes the averages whole: a multiple of 1..SampleSize
    MinSnapshots,   \* snapshots drift is computed from: 4
    MaxSnapshots,   \* spec.memory.maxSnapshots
    TrendWindow,    \* entries on either side of a trend: 3
    MinSide,        \* entries on either side of a promotion: 3
    MaxScores,      \* bound: scores the judge produces
    MaxDecisions,   \* bound: experiments decided
    MaxFaults       \* bound: outages, conflicts, failed calls, restarts

ASSUME ScoresAssumption == NoVersion \notin Versions /\ Values \subseteq 0..100
ASSUME ScaleAssumption == Scale \in Nat /\ \A n \in 1..SampleSize : Scale % n = 0
ASSUME SizesAssumption ==
    /\ {QueryLimit, MaxEvalHistory, SampleSize, MinSnapshots, MaxSnapshots, TrendWindow,
        MinSide} \subseteq Nat \ {0}
    \* 50 and 20 in the code: see NoScoreTwice.
    /\ MaxEvalHistory >= 2 * QueryLimit - 1
    /\ MaxEvalHistory >= 2 * TrendWindow
ASSUME BoundsAssumption == {MaxScores, MaxDecisions, MaxFaults} \subseteq Nat

VARIABLES
    judged,    \* the scores Langfuse holds, oldest first
    stored,    \* the AgentDeployment's status
    pc,        \* the step Reconcile takes next
    me,        \* the copy Reconcile holds
    faults,
    recorded   \* history: the scores ever stored in status.evalHistory

vars == <<judged, stored, pc, me, faults, recorded>>

Steps == {"idle", "history", "experiment", "memory", "scorecard", "status"}
Trends == {"improving", "degrading", "stable"}

\* A score without a version is never looked at.
Scores == [ver : Versions, val : Values] \cup {[ver |-> NoVersion, val |-> 0]}

\* history: the places of its entries in judged; snaps: meanQualityScore of each
\* memory snapshot, times Scale; lineage: promptLineage and toolLineage together.
Decisions == [promoted : BOOLEAN, at : Nat]
Statuses == [history : Seq(Nat), snaps : Seq(Nat), drifted : BOOLEAN,
             lineage : Seq(Decisions), trend : Trends, regressed : BOOLEAN]

NewStatus == [history |-> <<>>, snaps |-> <<>>, drifted |-> FALSE,
              lineage |-> <<>>, trend |-> "stable", regressed |-> FALSE]

Init ==
    /\ judged = <<>>
    /\ stored = NewStatus
    /\ pc = "idle" /\ me = NewStatus
    /\ faults = 0 /\ recorded = {}

(***************************************************************************)
(* The ring of scores.                                                     *)
(***************************************************************************)

LastOf(seq, n) == SubSeq(seq, IF Len(seq) > n THEN Len(seq) - n + 1 ELSE 1, Len(seq))

\* What a score is recognised by.
Key(i) == <<judged[i].ver, judged[i].val>>

\* Mutant: nothing is evicted.
AppendEvalHistoryUncapped(history, i) == Append(history, i)

\* Mutant: the ring keeps one entry less than the bound that keeps it safe.
AppendEvalHistoryShort(history, i) == LastOf(Append(history, i), 2 * QueryLimit - 2)

\* Mutant: the ring keeps its oldest entries.
AppendEvalHistoryOldest(history, i) ==
    IF Len(history) < MaxEvalHistory THEN Append(history, i) ELSE history

AppendEvalHistory(history, i) == LastOf(Append(history, i), MaxEvalHistory)

\* One turn of the loop over the scores fetched: a score is passed over when the history,
\* or the batch so far, has one of the same version and value.
WithScore(acc, i) ==
    IF Key(i) \in acc.seen THEN acc
      ELSE [history |-> AppendEvalHistory(acc.history, i), seen |-> acc.seen \cup {Key(i)}]

WithScores(history, batch) ==
    LET acc[k \in 0..Len(batch)] ==
            IF k = 0
              THEN [history |-> history, seen |-> {Key(history[n]) : n \in DOMAIN history}]
              ELSE WithScore(acc[k - 1], batch[k])
    IN  acc[Len(batch)].history

\* The scores Langfuse answers with, those without a version left out.
Latest == {i \in DOMAIN judged : /\ i > Len(judged) - QueryLimit
                                 /\ judged[i].ver # NoVersion}

\* fetchJudgeScoresFromLangfuse: the query asks for no order, and the code does not
\* sort the answer.
Batches ==
    {batch \in [1..Cardinality(Latest) -> Latest] : Range(batch) = Latest}

(***************************************************************************)
(* Memory drift.                                                           *)
(***************************************************************************)

Total(seq) ==
    LET sum[k \in 0..Len(seq)] == IF k = 0 THEN 0 ELSE sum[k - 1] + seq[k]
    IN  sum[Len(seq)]

ValueSum(entries) == Total([k \in DOMAIN entries |-> judged[entries[k]].val])

\* recentMeanQuality of the last min(10, len) entries.
RecentMean(history) ==
    LET recent == LastOf(history, SampleSize)
    IN  (ValueSum(recent) * Scale) \div Len(recent)

\* appendMemorySnapshot.
WithSnapshot(snaps, mean) == LastOf(Append(snaps, mean), MaxSnapshots)

\* Mutant: the halves are taken the wrong way round.
DriftedBackwards(snaps) ==
    LET half == Len(snaps) \div 2
    IN  Len(snaps) >= MinSnapshots
        /\ 10 * Total(SubSeq(snaps, 1, half)) < 9 * Total(LastOf(snaps, half))

\* Mutant: a middle snapshot counts for the baseline.
DriftedWithMiddle(snaps) ==
    LET half == Len(snaps) \div 2
    IN  Len(snaps) >= MinSnapshots
        /\ 10 * Total(LastOf(snaps, half)) < 9 * Total(SubSeq(snaps, 1, Len(snaps) - half))

\* computeDriftScore against the default threshold: the newer half's mean is more
\* than 10 % below the older half's.  A middle snapshot counts for neither.
Drifted(snaps) ==
    LET half == Len(snaps) \div 2
        baseline == Total(SubSeq(snaps, 1, half))
        recent == Total(LastOf(snaps, half))
    IN  Len(snaps) >= MinSnapshots /\ 10 * recent < 9 * baseline

(***************************************************************************)
(* The scorecard.                                                          *)
(***************************************************************************)

\* computeQualityTrend: the means of the two latest windows, 0.02 apart.
QualityTrend(history) ==
    LET n == TrendWindow
        recent == ValueSum(LastOf(history, n))
        older == ValueSum(SubSeq(history, Len(history) - 2 * n + 1, Len(history) - n))
    IN  IF Len(history) < 2 * n THEN "stable"
          ELSE CASE recent - older > 2 * n    -> "improving"
                 [] recent - older < -(2 * n) -> "degrading"
                 [] OTHER                     -> "stable"

\* mostRecentPromotionTime; -1 stands for none.
LastPromotion(lineage) ==
    Max({lineage[k].at : k \in {k \in DOMAIN lineage : lineage[k].promoted}} \cup {-1})

\* The values on one side of a promotion.
SideSum(history, side) ==
    Total([k \in DOMAIN history |-> IF k \in side THEN judged[history[k]].val ELSE 0])

\* Mutant: sums are compared instead of means.
RegressedBySums(history, pivot) ==
    LET pre == {k \in DOMAIN history : history[k] <= pivot}
        post == DOMAIN history \ pre
    IN  /\ Cardinality(pre) >= MinSide /\ Cardinality(post) >= MinSide
        /\ 10 * SideSum(history, post) < 9 * SideSum(history, pre)

\* detectRegression: the mean since the promotion is more than 10 % below the mean
\* before it, on enough entries of both.
Regressed(history, pivot) ==
    LET pre == {k \in DOMAIN history : history[k] <= pivot}
        post == DOMAIN history \ pre
    IN  /\ Cardinality(pre) >= MinSide /\ Cardinality(post) >= MinSide
        /\ 10 * SideSum(history, post) * Cardinality(pre)
             < 9 * SideSum(history, pre) * Cardinality(post)

(***************************************************************************)
(* The controller.                                                         *)
(***************************************************************************)

Fault == faults < MaxFaults /\ faults' = faults + 1

Return == pc' = "idle" /\ me' = NewStatus

Fetch ==
    /\ pc = "idle"
    /\ pc' = "history" /\ me' = stored
    /\ UNCHANGED <<judged, stored, faults, recorded>>

\* reconcileEvalHistory; an error from Langfuse is logged.
ReconcileEvalHistory ==
    /\ pc = "history"
    /\ pc' = "experiment"
    /\ \/ /\ \E batch \in Batches : me' = [me EXCEPT !.history = WithScores(@, batch)]
          /\ UNCHANGED faults
       \/ Fault /\ UNCHANGED me
    /\ UNCHANGED <<judged, stored, recorded>>

\* Steps 5.9 and 5.10 may each decide an experiment (module Experiments).
DecideExperiment ==
    /\ pc = "experiment"
    /\ pc' = "memory"
    /\ \E n \in 0..2 : \E decided \in [1..n -> [promoted : BOOLEAN, at : {Len(judged)}]] :
         /\ Len(me.lineage) + n <= MaxDecisions
         /\ me' = [me EXCEPT !.lineage = @ \o decided]
    /\ UNCHANGED <<judged, stored, faults, recorded>>

\* reconcileMemoryLifecycle: a snapshot if one is due, as the first one always is,
\* and there is something to average; then the drift.
ReconcileMemoryLifecycle ==
    /\ pc = "memory"
    /\ pc' = "scorecard"
    /\ \E due \in IF me.snaps = <<>> THEN {TRUE} ELSE BOOLEAN :
         LET snaps == IF due /\ me.history # <<>>
                        THEN WithSnapshot(me.snaps, RecentMean(me.history)) ELSE me.snaps
         IN  me' = [me EXCEPT !.snaps = snaps, !.drifted = Drifted(snaps)]
    /\ UNCHANGED <<judged, stored, faults, recorded>>

\* reconcileOptimizationScorecard.
ReconcileScorecard ==
    /\ pc = "scorecard"
    /\ pc' = "status"
    /\ me' = [me EXCEPT !.trend = QualityTrend(me.history),
                        !.regressed = /\ LastPromotion(me.lineage) # -1
                                      /\ Regressed(me.history, LastPromotion(me.lineage))]
    /\ UNCHANGED <<judged, stored, faults, recorded>>

\* updateStatus.
UpdateStatus ==
    /\ pc = "status"
    /\ stored' = me
    /\ recorded' = recorded \cup Range(me.history)
    /\ Return
    /\ UNCHANGED <<judged, faults>>

\* The status write meets somebody else's, or one of the controller's own that the
\* cache had not seen, or fails, or the operator restarts before it.
StatusFails ==
    /\ pc = "status"
    /\ Fault
    /\ Return
    /\ UNCHANGED <<judged, stored, recorded>>

\* The judge runner reports a score to Langfuse.
Judge ==
    /\ Len(judged) < MaxScores
    /\ \E score \in Scores : judged' = Append(judged, score)
    /\ UNCHANGED <<stored, pc, me, faults, recorded>>

Controller == \/ Fetch \/ ReconcileEvalHistory \/ DecideExperiment
              \/ ReconcileMemoryLifecycle \/ ReconcileScorecard \/ UpdateStatus

Next == Controller \/ StatusFails \/ Judge

Spec == Init /\ [][Next]_vars

(***************************************************************************)
(* Properties.                                                             *)
(***************************************************************************)

\* The variables' types.
TypeOK ==
    /\ judged \in Seq(Scores) /\ Len(judged) <= MaxScores
    /\ pc \in Steps
    /\ \A status \in {stored, me} : status \in Statuses /\ Len(status.history) <= MaxEvalHistory
    /\ faults \in 0..MaxFaults /\ recorded \subseteq DOMAIN judged

\* A score is stored once: one that was evicted from the ring never comes back,
\* although Langfuse goes on listing it for as long as it is among the latest.
NoScoreTwice ==
    [][\A k \in DOMAIN stored'.history :
         LET i == stored'.history[k]
         IN  i \in recorded => i \in Range(stored.history)]_vars

\* A judge who always gives the same score raises no alarm, whatever the versions,
\* the number of entries on each side, and evictions: all three signals compare
\* means.
SteadyQualityIsQuiet ==
    (\A i, j \in DOMAIN judged :
         NoVersion \notin {judged[i].ver, judged[j].ver} => judged[i].val = judged[j].val) =>
        \A status \in {stored, me} :
            ~status.drifted /\ ~status.regressed /\ status.trend = "stable"

\* Drift is only reported of snapshots one of which fell below an earlier one.
DriftMeansDecline ==
    \A status \in {stored, me} :
        status.drifted =>
            \E k, l \in DOMAIN status.snaps : k < l /\ status.snaps[l] < status.snaps[k]

\* A regression is only reported of a promotion after which the judge gave a lower
\* score than one from before it.
RegressionFollowsPromotion ==
    \A status \in {stored, me} :
        status.regressed =>
            \E k \in DOMAIN status.lineage, i, j \in DOMAIN judged :
                /\ status.lineage[k].promoted
                /\ i <= status.lineage[k].at /\ status.lineage[k].at < j
                /\ judged[j].val < judged[i].val

\* When Langfuse has answered, every score among the latest, or one just like it, is
\* in the history or was in it before, however full the ring was and whatever a
\* conflict or a restart lost before.  (One that was in it may have made room for
\* the others, and comes back at the next reconcile.)
LatestKnown ==
    [][pc = "history" /\ pc' = "experiment" /\ faults' = faults =>
         \A i \in Latest :
             \E j \in Range(me.history) \cup Range(me'.history) : Key(j) = Key(i)]_vars

=============================================================================
