------------------------------- MODULE Evolution -------------------------------
(***************************************************************************)
(* The self-evolution loop of one agent: step 5.7 (reconcileEvolution with *)
(* its threshold tuner, its two prompt optimizers and its model upgrader)  *)
(* between the fetch of the AgentDeployment and steps 5.9 and 6, which     *)
(* start the experiment it wired and write the status it changed.          *)
(*                                                                         *)
(* The DSPy optimizer creates a PromptVariant, then patches the spec; the  *)
(* answer to the patch is decoded into the copy Reconcile holds.  The LLM  *)
(* is called in between, so users, Argo and caches move on meanwhile.  Of  *)
(* an experiment only its phase is kept: Experiments has the rest.  A      *)
(* reconcile may start at any time, as each ends in a requeue.             *)
(***************************************************************************)
EXTENDS Integers, Sequences, Functions, InformerCache

CONSTANTS
    Variants,      \* bound: the times, in seconds, dspyVariantName puts in its names
    None,          \* no experiment, no DSPy job
    Own,           \* an experiment of the user's
    Options,       \* what the rest of spec.evolution may say
    MaxHistory,    \* maxEvolutionHistory
    MaxEdits,      \* bound: edits of spec.evolution.promptExperiment
    MaxFaults      \* bound: failed calls and restarts

ASSUME NamesAssumption ==
    Variants \subseteq Nat /\ None \notin Variants /\ Own \notin Variants /\ None # Own
ASSUME OptionsAssumption ==
    Options \subseteq
      [mode : {"llm", "dspy"}, approval : BOOLEAN,
       strategy : {"threshold-tuner", "prompt-optimizer", "model-upgrader", "all"},
       trigger : {"on-canary-fail", "periodic", "both"}]
ASSUME BoundsAssumption ==
    MaxHistory \in Nat \ {0} /\ MaxEdits \in Nat /\ MaxFaults \in Nat

VARIABLES
    ad,         \* versions of the AgentDeployment, cached first, stored last
    pv,         \* versions of the status.phase of each DSPy variant
    prompt,     \* whose prompt promptConfigMap holds: Own is the user's, None the LLM's
    rollout,    \* the phase that updateStatus would read off the cached Rollout
    pc,         \* the step Reconcile takes next
    me,         \* the AgentDeployment copy Reconcile holds
    current,    \* no one has written the AgentDeployment since that copy
    made,       \* the variant this reconcile created
    proposals,  \* the proposals of this reconcile (a history field once recorded)
    edits, faults

cluster == <<pv, prompt, rollout>>
vars == <<ad, cluster, pc, me, current, made, proposals, edits, faults>>

Phases == {"", "Stable", "Degraded"}

\* "Decided" is Promoted or Rejected.
VariantPhases == {"absent", "", "Testing", "Decided"}
Experiments == Variants \cup {None, Own}

Strategies == {"threshold-tuner", "prompt-optimizer", "dspy-optimizer", "model-upgrader"}

\* A strategy, with the variant it is about if there is one.
Proposals == Strategies \X Experiments
Histories == {h \in Seq(Proposals) : Len(h) <= MaxHistory}

\* exp: spec.evolution.promptExperiment; job: status.evolution.dspyJobName; tuned:
\* there are tunedThresholds.
Agents == [opt : Options, exp : Experiments, phase : Phases,
           job : Variants \cup {None}, tuned : BOOLEAN, hist : Histories]

NewAgent(opt) == [opt |-> opt, exp |-> None, phase |-> "", job |-> None,
                  tuned |-> FALSE, hist |-> <<>>]

Init ==
    /\ \E opt \in Options : ad = <<NewAgent(opt)>> /\ me = NewAgent(opt)
    /\ pv = [v \in Variants |-> <<"absent">>]
    /\ prompt = Own
    /\ rollout = "Stable"
    /\ pc = "idle" /\ current = FALSE /\ made = None /\ proposals = <<>>
    /\ edits = 0 /\ faults = 0

Fault == faults < MaxFaults /\ faults' = faults + 1

(***************************************************************************)
(* Reconcile.                                                              *)
(***************************************************************************)

Return == /\ pc' = "idle" /\ me' = NewAgent(me.opt) /\ current' = FALSE
          /\ made' = None /\ proposals' = <<>>

Fetch ==
    /\ pc = "idle"
    /\ pc' = "tune" /\ me' = Cached(ad) /\ current' = InSync(ad)
    /\ UNCHANGED <<ad, cluster, made, proposals, edits, faults>>

\* The phase the status had when it was fetched; nothing stores "RollingBack".
Failing == me.phase = "Degraded"

\* A schedule is set and nextEvalAt is never written: periodicTriggerDue holds.
ShouldFire == Failing \/ me.opt.trigger # "on-canary-fail"

Runs(strategy) == me.opt.strategy \in {strategy, "all"}

NotFired ==
    /\ pc = "tune" /\ ~ShouldFire
    /\ pc' = "experiment"
    /\ UNCHANGED <<ad, cluster, me, current, made, proposals, edits, faults>>

\* runThresholdTuner: its result stays in memory until the status is written.  The
\* analysis runs and Langfuse may have too few measurements for one.
RunThresholdTuner ==
    /\ pc = "tune" /\ ShouldFire
    /\ pc' = "prompt"
    /\ \/ UNCHANGED <<me, proposals>>
       \/ /\ Runs("threshold-tuner")
          /\ me' = [me EXCEPT !.tuned = TRUE]
          /\ proposals' = <<<<"threshold-tuner", None>>>>
    /\ UNCHANGED <<ad, cluster, current, made, edits, faults>>

\* A prompt is optimized after a failure only, whatever fired the loop.
Optimizing == Failing /\ Runs("prompt-optimizer")

\* runPromptOptimizer.  Without a failed analysis run there is nothing to work on;
\* a pull request or a ConfigMap write that fails leaves a proposal all the same.
RunPromptOptimizer ==
    /\ pc = "prompt" /\ Optimizing /\ me.opt.mode = "llm"
    /\ pc' = "upgrade"
    /\ \/ UNCHANGED <<prompt, proposals>>
       \/ /\ proposals' = Append(proposals, <<"prompt-optimizer", None>>)
          /\ \/ UNCHANGED prompt
             \/ ~me.opt.approval /\ prompt' = None
    /\ UNCHANGED <<ad, pv, rollout, me, current, made, edits, faults>>

\* Mutant: the experiment the spec selects is not looked at.
BlockedByJobOnly == me.job # None /\ Cached(pv[me.job]) = "Testing"

\* Mutant: a variant that has not been started counts as active, too.
BlockedByUnstarted ==
    me.exp # None \/ (me.job # None /\ Cached(pv[me.job]) \in {"", "Testing"})

\* The guards of reconcileDspyOptimizer.
Blocked == me.exp # None \/ (me.job # None /\ Cached(pv[me.job]) = "Testing")

SkipOptimizer ==
    /\ pc = "prompt"
    /\ Optimizing => me.opt.mode = "dspy" /\ Blocked
    /\ pc' = "upgrade"
    /\ UNCHANGED <<ad, cluster, me, current, made, proposals, edits, faults>>

\* reconcileDspyOptimizer passes its guards; the history has the scores it asks for.
DspyRuns == pc = "prompt" /\ Optimizing /\ me.opt.mode = "dspy" /\ ~Blocked

Fresh == {v \in Variants : Stored(pv[v]) = "absent"}

\* dspyVariantName: time goes on.
NextNames == {v \in Fresh : \A w \in Fresh : v <= w}

\* Mutant: the error of the create is not returned.
CreateVariantOrNot ==
    /\ DspyRuns
    /\ \E v \in NextNames :
         /\ \/ pv' = [pv EXCEPT ![v] = Append(@, "")] /\ UNCHANGED faults
            \/ Fault /\ UNCHANGED pv
         /\ made' = v
         /\ me' = [me EXCEPT !.job = v]
    /\ pc' = "patch"
    /\ UNCHANGED <<ad, prompt, rollout, current, proposals, edits>>

\* The LLM has answered: createDspyPromptVariant, a variant in the empty phase.
CreateVariant ==
    /\ DspyRuns
    /\ \E v \in NextNames :
         /\ pv' = [pv EXCEPT ![v] = Append(@, "")]
         /\ made' = v
         /\ me' = [me EXCEPT !.job = v]
    /\ pc' = "patch"
    /\ UNCHANGED <<ad, prompt, rollout, current, proposals, edits, faults>>

\* The key, the LLM or the create fails: logged.  So is a name given twice.
OptimizerFails ==
    /\ DspyRuns
    /\ \/ Fresh = {} /\ UNCHANGED faults
       \/ Fault
    /\ pc' = "upgrade"
    /\ UNCHANGED <<ad, cluster, me, current, made, proposals, edits>>

\* Mutant: the answer is not decoded into the copy.
DecodedSpecOnly(answer, copy) == [copy EXCEPT !.exp = answer.exp]

\* The server's answer decoded into the copy: fields it omits keep their value.
Decoded(answer, copy) ==
    [answer EXCEPT !.job   = IF @ = None THEN copy.job ELSE @,
                   !.tuned = @ \/ copy.tuned,
                   !.hist  = IF @ = <<>> THEN copy.hist ELSE @]

\* The merge patch names no resourceVersion: it applies to whatever is stored.
PatchExperiment ==
    /\ pc = "patch"
    /\ \/ LET answer == [Stored(ad) EXCEPT !.exp = made]
          IN  /\ ad' = Append(ad, answer)
              /\ me' = Decoded(answer, me)
              /\ current' = TRUE
              /\ UNCHANGED faults
       \/ /\ Fault
          /\ me' = [me EXCEPT !.exp = made]
          /\ UNCHANGED <<ad, current>>
    /\ proposals' = Append(proposals, <<"dspy-optimizer", made>>)
    /\ pc' = "upgrade"
    /\ UNCHANGED <<cluster, made, edits>>

\* Mutant: one entry too many is kept.
RingOffByOne(entries) ==
    IF Len(entries) <= MaxHistory THEN entries
      ELSE SubSeq(entries, Len(entries) - MaxHistory, Len(entries))

\* appendEvolutionHistory, for several entries.
Ring(entries) ==
    IF Len(entries) <= MaxHistory THEN entries
      ELSE SubSeq(entries, Len(entries) - MaxHistory + 1, Len(entries))

\* runModelUpgrader on a plateau, or not, and the end of reconcileEvolution.
RecordProposals ==
    /\ pc = "upgrade"
    /\ \E upgrade \in {<<>>, <<<<"model-upgrader", None>>>>} :
         /\ upgrade # <<>> => Runs("model-upgrader")
         /\ proposals' = proposals \o upgrade
         /\ me' = [me EXCEPT !.hist = Ring(@ \o proposals \o upgrade)]
    /\ pc' = "experiment"
    /\ UNCHANGED <<ad, cluster, current, made, edits, faults>>

\* reconcilePromptExperiment: no experiment, one of the user's, one that is over,
\* or one not seen yet.
NothingToTest ==
    /\ pc = "experiment"
    /\ me.exp \in Variants => Cached(pv[me.exp]) \notin {"", "Testing"}
    /\ pc' = "status"
    /\ UNCHANGED <<ad, cluster, me, current, made, proposals, edits, faults>>

\* The status write of an experiment, or its conflict.
WritePhase(v, phase) ==
    pv' = IF InSync(pv[v]) THEN [pv EXCEPT ![v] = Append(@, phase)] ELSE pv

StartExperiment ==
    /\ pc = "experiment"
    /\ me.exp \in Variants /\ Cached(pv[me.exp]) = ""
    /\ WritePhase(me.exp, "Testing")
    /\ pc' = "status"
    /\ UNCHANGED <<ad, prompt, rollout, me, current, made, proposals, edits, faults>>

\* evaluateExperiment with too few scores, promoteVariant or rejectVariant.
EvaluateExperiment ==
    /\ pc = "experiment"
    /\ me.exp \in Variants /\ Cached(pv[me.exp]) = "Testing"
    /\ \/ UNCHANGED <<pv, prompt>>
       \/ WritePhase(me.exp, "Decided") /\ prompt' \in {prompt, me.exp}
    /\ pc' = "status"
    /\ UNCHANGED <<ad, rollout, me, current, made, proposals, edits, faults>>

\* updateStatus writes the status only; the spec stays as stored.
UpdateStatus ==
    /\ pc = "status"
    /\ LET new == [me EXCEPT !.exp = Stored(ad).exp, !.phase = rollout]
       IN  ad' = IF current /\ new # Stored(ad) THEN Append(ad, new) ELSE ad
    /\ Return
    /\ UNCHANGED <<cluster, edits, faults>>

\* The status write failed; so does a step before 5.7, when nothing is lost yet.
StepFails ==
    /\ pc = "status"
    /\ Fault
    /\ Return
    /\ UNCHANGED <<ad, cluster, edits>>

\* The operator restarts and lists the objects afresh.
Restart ==
    /\ Fault
    /\ ad' = <<Stored(ad)>>
    /\ pv' = [v \in Variants |-> <<Stored(pv[v])>>]
    /\ Return
    /\ UNCHANGED <<prompt, rollout, edits>>

DeliverAgent ==
    /\ ~InSync(ad) /\ ad' = Tail(ad)
    /\ UNCHANGED <<cluster, pc, me, current, made, proposals, edits, faults>>

DeliverVariant(v) ==
    /\ ~InSync(pv[v]) /\ pv' = [pv EXCEPT ![v] = Tail(@)]
    /\ UNCHANGED <<ad, prompt, rollout, pc, me, current, made, proposals, edits, faults>>

(***************************************************************************)
(* The user and Argo Rollouts.                                             *)
(***************************************************************************)

SelectExperiment(e) ==
    /\ edits < MaxEdits
    /\ edits' = edits + 1
    /\ Stored(ad).exp # e
    /\ ad' = Append(ad, [Stored(ad) EXCEPT !.exp = e])
    /\ current' = FALSE
    /\ UNCHANGED <<cluster, pc, me, made, proposals, faults>>

\* A canary fails, or a later one is promoted.
RolloutEnds ==
    /\ rollout' \in {"Stable", "Degraded"} \ {rollout}
    /\ UNCHANGED <<ad, pv, prompt, pc, me, current, made, proposals, edits, faults>>

Optimize ==
    \/ RunPromptOptimizer \/ SkipOptimizer
    \/ CreateVariant \/ OptimizerFails \/ PatchExperiment

Controller ==
    \/ Fetch \/ NotFired \/ RunThresholdTuner \/ Optimize \/ RecordProposals
    \/ NothingToTest \/ StartExperiment \/ EvaluateExperiment \/ UpdateStatus

Next ==
    \/ Controller \/ StepFails \/ Restart
    \/ DeliverAgent \/ \E v \in Variants : DeliverVariant(v)
    \/ \E e \in {None, Own} : SelectExperiment(e)
    \/ RolloutEnds

Spec == Init /\ [][Next]_vars

\* The worker and the watches keep going; faults and edits come to an end.
Fairness == /\ WF_vars(Controller)
            /\ WF_vars(DeliverAgent)
            /\ \A v \in Variants : WF_vars(DeliverVariant(v))

FairSpec == Spec /\ Fairness

(***************************************************************************)
(* Properties.                                                             *)
(***************************************************************************)

Steps == {"idle", "tune", "prompt", "patch", "upgrade", "experiment", "status"}

\* The variables' types; the history is bounded.
TypeOK ==
    /\ ad \in Seq(Agents) /\ Len(ad) > 0
    /\ pv \in [Variants -> Seq(VariantPhases)] /\ \A v \in Variants : Len(pv[v]) > 0
    /\ prompt \in Experiments
    /\ rollout \in Phases
    /\ pc \in Steps /\ me \in Agents /\ current \in BOOLEAN
    /\ made \in Variants \cup {None}
    /\ proposals \in Seq(Proposals)
    /\ edits \in 0..MaxEdits /\ faults \in 0..MaxFaults

\* No version of the AgentDeployment, and no copy of it, selects a variant of the
\* optimizer's that does not exist: it is created before the spec is patched.
SelectedExists ==
    /\ \A v \in Range(ad) : v.exp \in Variants => Stored(pv[v.exp]) # "absent"
    /\ me.exp \in Variants => Stored(pv[me.exp]) # "absent"

\* What a reconcile knows: an experiment is not selected while the optimizer runs,
\* as far as its copy goes, and a copy that is current is right about that.
OptimizerKnows ==
    /\ pc = "patch" => me.exp = None
    /\ pc = "patch" => made \in Variants /\ Stored(pv[made]) # "absent"
    /\ current /\ pc \in {"tune", "prompt", "patch"} => me.exp = Stored(ad).exp

\* The last MaxHistory entries of old with more added at its end.
Extended(old, more, new) ==
    /\ Len(new) = IF Len(old) + Len(more) <= MaxHistory THEN Len(old) + Len(more)
                    ELSE MaxHistory
    /\ \A i \in 1..Len(new) :
         new[i] = (old \o more)[((Len(old) + Len(more)) - Len(new)) + i]

Recorded == pc \in {"experiment", "status"}

\* What Reconcile knows of the history: a copy that is current has the stored one, to
\* which this reconcile's proposals are added at the end, and a history once begun is
\* not found empty later.
HistoryKnown ==
    /\ pc \in {"idle", "tune"} => proposals = <<>>
    /\ current /\ ~Recorded => me.hist = Stored(ad).hist
    /\ current /\ Recorded => Extended(Stored(ad).hist, proposals, me.hist)
    /\ Stored(ad).hist = <<>> => \A v \in Range(ad) : v.hist = <<>>
    /\ Stored(ad).hist = <<>> /\ ~Recorded => me.hist = <<>>

\* Everything that Reconcile holds, or that the cache may still show, selects the same
\* experiment.
ExperimentSeen ==
    /\ Stored(ad).exp # None
    /\ \A v \in Range(ad) : v.exp = Stored(ad).exp
    /\ pc # "idle" => me.exp = Stored(ad).exp

\* "A/B experiment already active -- don't override": that holds for an experiment which
\* the running reconcile has fetched, if it runs, and which the cache can no longer fail
\* to show.  No failure, restart or late event brings the optimizer to replace it; only
\* the user does.  One selected after the fetch, or not yet in the cache at the fetch,
\* has no such promise: the patch overrides it.
SeenExperimentKept ==
    [][ExperimentSeen /\ edits' = edits
         => ExperimentSeen' /\ Stored(ad').exp = Stored(ad).exp]_vars

\* status.evolution.history changes only by having the proposals of the reconcile that
\* writes it added at its end, each once, and nothing is lost but the oldest entries
\* of a full ring, although the patch makes the copy of a stale reconcile current again.
NoProposalForgotten ==
    [][Stored(ad').hist # Stored(ad).hist
         => Extended(Stored(ad).hist, proposals, Stored(ad').hist)]_vars

\* The optimizer left a variant in Testing which no spec selects any more.
Orphaned ==
    /\ Stored(ad).exp = None /\ Stored(ad).job \in Variants
    /\ Stored(pv[Stored(ad).job]) = "Testing"

\* An agent that stays Degraded gets an experiment, whatever fails on the way,
\* except that a variant abandoned during its test stops the optimizer for good.
OnlyAnOrphanStopsTheOptimizer ==
    <>[](rollout = "Degraded" /\ me.opt.mode = "dspy" /\ Fresh # {}
          /\ Runs("prompt-optimizer"))
      => <>[](Stored(ad).exp # None \/ Orphaned)

=============================================================================
