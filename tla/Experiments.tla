----------------------------- MODULE Experiments -----------------------------
(***************************************************************************)
(* A/B experiments of one AgentDeployment: steps 5.8 (eval history), 5.9   *)
(* (reconcilePromptExperiment) or 5.10 (reconcileToolExperiment), and 6    *)
(* (the status write) of Reconcile.  The two handlers are the same state   *)
(* machine over objects of their own, named by fields of their own in the  *)
(* spec; a prompt experiment also writes two ConfigMaps.  The agent        *)
(* experiments with prompts or with tools, never both at a time.           *)
(*                                                                         *)
(* Objects are sequences of versions, as in AgentReconciler.  A score is   *)
(* its place among those the judge has produced, which is also its time;   *)
(* the history in the status is a set of scores, and the t-test a          *)
(* constant: the histories by which a variant is better.  A reconcile may  *)
(* start at any time: each ends in a RequeueAfter or in an error that is   *)
(* retried.                                                                *)
(***************************************************************************)
EXTENDS Integers, Sequences, FiniteSets, InformerCache

CONSTANTS
    Experiments,       \* PromptVariants or ToolExperiments, by name
    None,              \* no experiment; the prompt nobody experimented with
    MinSamples,        \* promptExperimentMinSamples, toolExperimentMinSamples
    Better,            \* welchTTest: experiments and the histories favouring them
    Key,               \* of each score: its composite version and value, or None
                       \* if its comment does not tell the version
    QueryLimit,        \* scores asked of Langfuse: 20
    MaxEvalHistory,    \* size of status.evalHistory: 50
    MaxLineage,        \* size of promptLineage and of toolLineage: 20
    MaxScores,         \* bound: scores the judge produces
    MaxEdits,          \* bound: spec edits and deletions of experiments
    MaxFaults          \* bound: failed calls, Langfuse outages, restarts

ASSUME NamesAssumption == None \notin Experiments
ASSUME SamplesAssumption == MinSamples \in Nat \ {0} /\ MaxScores \in Nat
ASSUME BetterAssumption == Better \subseteq Experiments \X SUBSET Nat
ASSUME KeyAssumption == DOMAIN Key = 1..MaxScores
ASSUME SizesAssumption == {QueryLimit, MaxEvalHistory, MaxLineage} \subseteq Nat \ {0}
ASSUME BoundsAssumption == MaxEdits \in Nat /\ MaxFaults \in Nat

VARIABLES
    kind,        \* "prompt" or "tool"
    ad,          \* versions of the AgentDeployment, cached first, stored last
    ex,          \* versions of each PromptVariant or ToolExperiment
    variantCM,   \* whose prompt the per-experiment ConfigMap holds
    mainCM,      \* whose prompt promptConfigMap holds
    judged,      \* number of scores the judge has sent to Langfuse
    pc,          \* the step Reconcile takes next
    me,          \* the AgentDeployment copy Reconcile holds
    current,     \* no one has written the AgentDeployment since that copy
    got,         \* the experiment copy the handler holds
    gotCurrent,  \* no one has written the experiment since that copy
    edits, faults,
    outcome      \* history: the outcome first stored for each experiment

vars == <<kind, ad, ex, variantCM, mainCM, judged, pc, me, current, got,
          gotCurrent, edits, faults, outcome>>

cluster == <<kind, variantCM, mainCM, judged>>
copies == <<me, current, got, gotCurrent>>

MinControl == 2

Decided == {"Promoted", "Rejected"}
Existing == {"Pending", "Testing"} \cup Decided
Phases == Existing \cup {"deleted"}

\* name: spec.evolution.promptExperiment or toolExperiment; lineage: promptLineage
\* or toolLineage; ever: the lineage with the entries the ring has dropped (a history
\* field); opt: optimizationGeneration.
Agents == [name : Experiments \cup {None}, history : SUBSET (1..MaxScores),
           lineage : Seq(Experiments \X Decided), ever : Seq(Experiments \X Decided),
           opt : Nat]

\* started: the score count at ExperimentStartedAt, -1 before; scores: the
\* number of VariantScores.
Variants == [phase : Phases, started : Int, scores : Nat]

NewAgent == [name |-> None, history |-> {},
             lineage |-> <<>>, ever |-> <<>>, opt |-> 0]
NewVariant == [phase |-> "Pending", started |-> -1, scores |-> 0]

Init ==
    /\ kind \in {"prompt", "tool"}
    /\ \E e \in Experiments \cup {None} : ad = <<[NewAgent EXCEPT !.name = e]>>
    /\ ex = [e \in Experiments |-> <<NewVariant>>]
    /\ variantCM = None
    /\ mainCM = None
    /\ judged \in 0..MaxScores
    /\ pc = "idle"
    /\ me = NewAgent /\ current = FALSE
    /\ got = NewVariant /\ gotCurrent = FALSE
    /\ edits = 0 /\ faults = 0
    /\ outcome = [e \in Experiments |-> "none"]

(***************************************************************************)
(* The controller.                                                         *)
(***************************************************************************)

Fault == faults < MaxFaults /\ faults' = faults + 1

\* The name of the experiment the handler is about.
Name == me.name

Fetch ==
    /\ pc = "idle"
    /\ pc' = "history"
    /\ me' = Cached(ad)
    /\ current' = InSync(ad)
    /\ UNCHANGED <<ad, ex, cluster, got, gotCurrent, edits, faults, outcome>>

\* The scores Langfuse lists that no entry of the history is like, by version and value.
Unread ==
    {k \in 1..judged : /\ k > judged - QueryLimit
                       /\ Key[k] # None
                       /\ \A j \in me.history : Key[j] # Key[k]}

\* The batches the loop may append: of scores that are alike it takes the one listed
\* first, and the list is in no particular order.
Batches ==
    LET Alike(k) == {j \in Unread : Key[j] = Key[k]}
        repeated == {k \in Unread : Alike(k) # {k}}
    IN  {batch \in {Unread \ skipped : skipped \in SUBSET repeated} :
            \A k \in repeated : Cardinality(batch \cap Alike(k)) = 1}

\* The histories the ring may leave: which entries a full one drops is left open.
Rings(scores) ==
    IF Cardinality(scores) <= MaxEvalHistory
      THEN {scores}
      ELSE {kept \in SUBSET scores : Cardinality(kept) = MaxEvalHistory}

\* reconcileEvalHistory, on the copy in memory; an error from Langfuse is logged.
ReconcileEvalHistory ==
    /\ pc = "history"
    /\ pc' = "experiment"
    /\ \/ /\ \E batch \in Batches : \E kept \in Rings(me.history \cup batch) :
                me' = [me EXCEPT !.history = kept]
          /\ UNCHANGED faults
       \/ Fault /\ UNCHANGED me
    /\ UNCHANGED <<ad, ex, cluster, current, got, gotCurrent, edits, outcome>>

\* The handler returned; an error is logged and Reconcile goes on.
EndHandler ==
    /\ pc' = "status"
    /\ got' = NewVariant /\ gotCurrent' = FALSE

\* Reconcile returned.
Return ==
    /\ pc' = "idle"
    /\ me' = NewAgent /\ current' = FALSE
    /\ got' = NewVariant /\ gotCurrent' = FALSE

\* Mutant: what is not control is the variant's, counted by subtraction.
VariantScoresBySubtraction(e) == Cardinality(me.history) - e.started

\* collectControlScores and collectVariantScores: the history's scores from
\* before and from after the start.
ControlScores(e) == Cardinality({k \in me.history : k <= e.started})
VariantScores(e) == Cardinality({k \in me.history : k > e.started})

\* startExperiment and startToolExperiment: the status about to be written.
Begun(e) == [e EXCEPT !.phase = "Testing", !.started = judged]

\* Mutant: the guard on the control group is dropped.
EvaluateWithoutControl(e) ==
    LET progress == [e EXCEPT !.scores = VariantScores(e)]
    IN  IF VariantScores(e) < MinSamples THEN progress
          ELSE [progress EXCEPT !.phase =
                  IF <<Name, me.history>> \in Better THEN "Promoted" ELSE "Rejected"]

\* Mutant: one score more than asked for is waited for.
EvaluateOnOneMore(e) ==
    LET progress == [e EXCEPT !.scores = VariantScores(e)]
    IN  IF VariantScores(e) <= MinSamples \/ ControlScores(e) < MinControl
          THEN progress
          ELSE [progress EXCEPT !.phase =
                  IF <<Name, me.history>> \in Better THEN "Promoted" ELSE "Rejected"]

\* evaluateExperiment and evaluateToolExperiment: the status about to be
\* written: progress, or the verdict of the t-test.
Evaluate(e) ==
    LET progress == [e EXCEPT !.scores = VariantScores(e)]
    IN  IF VariantScores(e) < MinSamples \/ ControlScores(e) < MinControl
          THEN progress
          ELSE [progress EXCEPT !.phase =
                  IF <<Name, me.history>> \in Better THEN "Promoted" ELSE "Rejected"]

\* No experiment is selected, or it is gone or over.
NothingToTest ==
    /\ pc = "experiment"
    /\ Name # None => Cached(ex[Name]).phase \notin {"Pending", "Testing"}
    /\ EndHandler
    /\ UNCHANGED <<ad, ex, cluster, me, current, edits, faults, outcome>>

\* reconcilePromptExperiment: get the experiment and dispatch on its phase.
ReconcilePromptExperiment ==
    /\ pc = "experiment" /\ kind = "prompt" /\ Name # None
    /\ LET e == Cached(ex[Name])
       IN  \/ e.phase = "Pending" /\ got' = e /\ pc' = "configmap"
           \/ /\ e.phase = "Testing" /\ got' = Evaluate(e)
              /\ pc' = IF Evaluate(e).phase = "Promoted" THEN "install" ELSE "write"
    /\ gotCurrent' = InSync(ex[Name])
    /\ UNCHANGED <<ad, ex, cluster, me, current, edits, faults, outcome>>

\* reconcileToolExperiment, with startToolExperiment: there is nothing to install.
ReconcileToolExperiment ==
    /\ pc = "experiment" /\ kind = "tool" /\ Name # None
    /\ LET e == Cached(ex[Name])
       IN  \/ e.phase = "Pending" /\ got' = Begun(e)
           \/ e.phase = "Testing" /\ got' = Evaluate(e)
    /\ pc' = "write"
    /\ gotCurrent' = InSync(ex[Name])
    /\ UNCHANGED <<ad, ex, cluster, me, current, edits, faults, outcome>>

\* startExperiment: the per-experiment ConfigMap, then the start time.
CreateVariantConfigMap ==
    /\ pc = "configmap"
    /\ \/ /\ variantCM' = Name
          /\ got' = Begun(got)
          /\ pc' = "write"
          /\ UNCHANGED <<gotCurrent, faults>>
       \/ /\ Fault
          /\ EndHandler
          /\ UNCHANGED variantCM
    /\ UNCHANGED <<kind, ad, ex, mainCM, judged, me, current, edits, outcome>>

\* Mutant: an error of the ConfigMap write is logged and not returned.
InstallPromptOrNot ==
    /\ pc = "install"
    /\ pc' = "write"
    /\ \/ mainCM' = Name /\ UNCHANGED faults
       \/ Fault /\ UNCHANGED mainCM
    /\ UNCHANGED <<kind, ad, ex, variantCM, judged, me, current, got,
                   gotCurrent, edits, outcome>>

\* promoteVariant, first part: the winning prompt goes to promptConfigMap.
InstallPrompt ==
    /\ pc = "install"
    /\ \/ /\ mainCM' = Name
          /\ pc' = "write"
          /\ UNCHANGED <<got, gotCurrent, faults>>
       \/ /\ Fault
          /\ EndHandler
          /\ UNCHANGED mainCM
    /\ UNCHANGED <<kind, ad, ex, variantCM, judged, me, current, edits, outcome>>

LastOf(seq, n) == SubSeq(seq, IF Len(seq) > n THEN Len(seq) - n + 1 ELSE 1, Len(seq))

\* appendPromptLineage, appendToolLineage and incrementOptimizationGeneration,
\* on the copy in memory.
WithOutcome(a, name, phase) ==
    [a EXCEPT !.lineage = LastOf(Append(@, <<name, phase>>), MaxLineage),
              !.ever = Append(@, <<name, phase>>),
              !.opt = IF phase = "Promoted" THEN @ + 1 ELSE @]

\* Mutant: the outcome is recorded before the experiment's status is written.
WriteVariantRecordingFirst ==
    /\ pc = "write"
    /\ me' = IF got.phase \in Decided THEN WithOutcome(me, Name, got.phase) ELSE me
    /\ EndHandler
    /\ IF gotCurrent
         THEN /\ ex' = [ex EXCEPT ![Name] = Append(@, got)]
              /\ outcome' = IF got.phase \in Decided
                              THEN [outcome EXCEPT ![Name] = got.phase] ELSE outcome
         ELSE UNCHANGED <<ex, outcome>>
    /\ UNCHANGED <<ad, cluster, current, edits, faults>>

\* The Status().Update that ends startExperiment, evaluateExperiment,
\* promoteVariant and rejectVariant (and the tool ones).  It conflicts if
\* someone else wrote the experiment; an unchanged status is not a new version.
WriteVariant ==
    /\ pc = "write"
    /\ EndHandler
    /\ \/ /\ gotCurrent
          /\ ex' = IF got = Stored(ex[Name]) THEN ex
                     ELSE [ex EXCEPT ![Name] = Append(@, got)]
          /\ IF got.phase \in Decided
               THEN /\ me' = WithOutcome(me, Name, got.phase)
                    /\ outcome' = [outcome EXCEPT ![Name] = got.phase]
               ELSE UNCHANGED <<me, outcome>>
          /\ UNCHANGED faults
       \/ /\ ~gotCurrent
          /\ UNCHANGED <<ex, me, outcome, faults>>
       \/ /\ Fault
          /\ UNCHANGED <<ex, me, outcome>>
    /\ UNCHANGED <<ad, cluster, current, edits>>

\* updateStatus: the status write conflicts if the AgentDeployment changed, and
\* then Reconcile is retried from the object as stored.
UpdateStatus ==
    /\ pc = "status"
    /\ Return
    /\ \/ /\ current
          /\ ad' = IF me = Stored(ad) THEN ad ELSE Append(ad, me)
          /\ UNCHANGED faults
       \/ /\ ~current
          /\ UNCHANGED <<ad, faults>>
       \/ /\ Fault
          /\ UNCHANGED ad
    /\ UNCHANGED <<ex, cluster, edits, outcome>>

\* The operator restarts anywhere in Reconcile, with fresh caches.
Restart ==
    /\ Fault
    /\ Return
    /\ ad' = <<Stored(ad)>>
    /\ ex' = [e \in Experiments |-> <<Stored(ex[e])>>]
    /\ UNCHANGED <<cluster, edits, outcome>>

(***************************************************************************)
(* The caches, the judge and the user.                                     *)
(***************************************************************************)

DeliverAgent ==
    /\ ~InSync(ad)
    /\ ad' = Tail(ad)
    /\ UNCHANGED <<ex, cluster, pc, copies, edits, faults, outcome>>

DeliverExperiment(e) ==
    /\ ~InSync(ex[e])
    /\ ex' = [ex EXCEPT ![e] = Tail(@)]
    /\ UNCHANGED <<ad, cluster, pc, copies, edits, faults, outcome>>

Judge ==
    /\ judged < MaxScores
    /\ judged' = judged + 1
    /\ UNCHANGED <<kind, ad, ex, variantCM, mainCM, pc, copies, edits,
                   faults, outcome>>

SelectExperiment(e) ==
    /\ edits < MaxEdits
    /\ edits' = edits + 1
    /\ Stored(ad).name # e
    /\ ad' = Append(ad, [Stored(ad) EXCEPT !.name = e])
    /\ current' = FALSE
    /\ UNCHANGED <<ex, cluster, pc, me, got, gotCurrent, faults, outcome>>

\* A name is not used again after its object is deleted.
DeleteExperiment(e) ==
    /\ edits < MaxEdits
    /\ edits' = edits + 1
    /\ Stored(ex[e]).phase \in Existing
    /\ LET gone == [Stored(ex[e]) EXCEPT !.phase = "deleted"]
       IN  ex' = [ex EXCEPT ![e] = Append(@, gone)]
    /\ gotCurrent' = (gotCurrent /\ Name # e)
    /\ UNCHANGED <<ad, cluster, pc, me, current, got, faults, outcome>>

Controller == \/ Fetch \/ ReconcileEvalHistory
              \/ NothingToTest \/ ReconcilePromptExperiment \/ ReconcileToolExperiment
              \/ CreateVariantConfigMap \/ InstallPrompt \/ WriteVariant
              \/ UpdateStatus

Next == \/ Controller
        \/ Restart
        \/ DeliverAgent
        \/ \E e \in Experiments : DeliverExperiment(e)
        \/ Judge
        \/ \E e \in Experiments \cup {None} : SelectExperiment(e)
        \/ \E e \in Experiments : DeleteExperiment(e)

Spec == Init /\ [][Next]_vars

\* Workers and watches keep going.  Neither the user nor the judge owes
\* anything.
Fairness == /\ WF_vars(Controller)
            /\ WF_vars(DeliverAgent)
            /\ \A e \in Experiments : WF_vars(DeliverExperiment(e))

FairSpec == Spec /\ Fairness

(***************************************************************************)
(* Properties.                                                             *)
(***************************************************************************)

Steps == {"idle", "history", "experiment", "configmap", "install", "write", "status"}

\* The variables' types; the steps of the two handlers are about an experiment.
TypeOK ==
    /\ kind \in {"prompt", "tool"}
    /\ ad \in Seq(Agents) /\ Len(ad) > 0
    /\ ex \in [Experiments -> Seq(Variants)]
    /\ \A e \in Experiments : Len(ex[e]) > 0
    /\ variantCM \in Experiments \cup {None}
    /\ mainCM \in Experiments \cup {None}
    /\ judged \in 0..MaxScores
    /\ pc \in Steps
    /\ me \in Agents /\ current \in BOOLEAN
    /\ got \in Variants /\ gotCurrent \in BOOLEAN
    /\ pc \in {"configmap", "install", "write"} => Name # None
    /\ edits \in 0..MaxEdits /\ faults \in 0..MaxFaults
    /\ outcome \in [Experiments -> Decided \cup {"none"}]

Promotions(lineage) == {i \in 1..Len(lineage) : lineage[i][2] = "Promoted"}

\* What a lineage says is what happened: it is the latest entries of a record in which
\* no experiment is twice, each has the outcome its own status got, and whose promotions
\* optimizationGeneration counts, those the ring has dropped included.
Faithful(a, outcomes) ==
    /\ a.lineage = LastOf(a.ever, MaxLineage)
    /\ \A i, j \in 1..Len(a.ever) : a.ever[i][1] = a.ever[j][1] => i = j
    /\ \A i \in 1..Len(a.ever) : a.ever[i][2] = outcomes[a.ever[i][1]]
    /\ a.opt = Cardinality(Promotions(a.ever))

\* promptLineage and toolLineage never record an outcome twice, or one that is not
\* the experiment's, whatever versions the caches served and however often the
\* reconcile was retried, and forget only the oldest.
LineageFaithful == \A i \in 1..Len(ad) : Faithful(ad[i], outcome)

Entries(a) == {a.ever[i] : i \in 1..Len(a.ever)}

\* The experiments implement ExperimentLifecycle: begun once, decided once and on
\* enough scores, recorded after the decision and in agreement with it.
Lifecycle == INSTANCE ExperimentLifecycle WITH
    began    <- [e \in Experiments |-> Stored(ex[e]).started],
    recorded <- Entries(Stored(ad))

ImplementsLifecycle == Lifecycle!LSpec

\* A variant is not marked Promoted before its prompt is in promptConfigMap.
PromotedIsInstalled ==
    [][\A e \in Experiments :
         Stored(ex[e]).phase # "Promoted" /\ Stored(ex'[e]).phase = "Promoted"
           => mainCM = e \/ kind = "tool"]_vars

Stuck(e) == Stored(ad).name = e /\ Stored(ex[e]).phase = "Testing"

\* Versions and values of the judge's scores from before and from after the start.
KeysBefore(e) == {Key[k] : k \in 1..Stored(ex[e]).started} \ {None}
KeysAfter(e) == {Key[k] : k \in (Stored(ex[e]).started + 1)..judged} \ {None}

\* An experiment does not stay in Testing while it is selected and has enough scores
\* on both sides of its start, not counting those that are like another one.
EventuallyDecided ==
    \A e \in Experiments :
        []<>~(/\ Stuck(e)
              /\ Cardinality(KeysBefore(e) \ KeysAfter(e)) >= MinControl
              /\ Cardinality(KeysAfter(e) \ KeysBefore(e)) >= MinSamples)

\* "After PromptExperimentMinSamples judge scores are collected, the controller runs a
\* Welch's t-test and auto-promotes or rejects the variant": provided there are scores
\* to compare them with.
DecidedAfterMinSamples ==
    \A e \in Experiments :
        []<>~(/\ Stuck(e)
              /\ Stored(ex[e]).started >= MinControl
              /\ judged - Stored(ex[e]).started >= MinSamples)

\* OptimizationGeneration is "Incremented each time a prompt experiment or tool
\* experiment is promoted": between reconciles it counts the promotions.
GenerationCountsPromotions ==
    pc = "idle" =>
        Stored(ad).opt = Cardinality({e \in Experiments : outcome[e] = "Promoted"})

=============================================================================
