# TLA+ specifications of the AgentRoll operator

AgentRoll is a Kubernetes operator. The user writes one `AgentDeployment` per AI
agent; the operator turns it into an Argo `Rollout`, a `Service` and a few other
objects, mirrors the Rollout's progress back into the status, and drives A/B
experiments, memory snapshots and self-evolution around it. This directory models
that operator in TLA+, checks the models with TLC and proves theorems about them
with TLAPS.

The whole operator is one `Reconcile` function that runs again and again, per agent,
against a database it shares with others (the API server) and of which it sees an
older version (the informer cache). What can go wrong here goes wrong *between* the
calls of one reconcile, or between two reconciles, so that is what the modules are
about; manifests, wording and the text of templates are not.

## The parts of the system

Line numbers of the code are in `PROJECT.json`; ADC is
`src/internal/controller/agentdeployment_controller.go`.

| part | code | state it keeps | operations | correct when |
|---|---|---|---|---|
| reconcile loop | ADC `Reconcile`, `reconcileRollout`, `updateStatus`, `handleDeletion`, `SetupWithManager` | the finalizer; the Rollout's spec; `status.phase`, `stableVersion`, `observedGeneration`, conditions | fetch, add finalizer, CreateOrUpdate of the Rollout, status write, delete and release, requeue | the last spec is applied and reported, the Rollout never goes back or comes back, nothing is left asleep before it is done, deletion completes |
| prompt experiments | `prompt_experiment.go` | `PromptVariant.status`, two ConfigMaps, `promptLineage`, `optimizationGeneration` | start, collect, t-test, promote, reject | begun once, decided once, on enough scores, recorded once and truthfully |
| tool experiments | `tool_experiment.go` | `ToolExperiment.status`, `toolLineage`, `optimizationGeneration` | the same without ConfigMaps | the same |
| eval history | `evaluation.go` | `status.evalHistory`, a ring of 50 | read Langfuse, deduplicate, append | no score twice, none of the latest missed that was not known before |
| A2A dependency gate | ADC `checkAgentDependencies` | none; reads the phases of other agents | block or pass a reconcile | no canary before its dependencies are Stable, and no agent blocked for ever |
| memory backend | `memory_backend.go` | `status.memory`, snapshot keys | export and save at a canary's start, restore and import after its failure | what the status promises is in the Secret; nothing is forgotten unless a canary failed; a backend that is down holds nothing up |
| memory lifecycle | `memory_lifecycle.go` | `status.memory.snapshots`, drift score | periodic snapshot, drift | every drift reported has a decline behind it |
| optimization scorecard | `optimization_scorecard.go` | `status.evolution.scorecard` | trend, regression, generation count | a regression reported belongs to a promotion; steady quality is quiet |
| evolution loop | `evolution.go` | `status.evolution` (history, proposals, timestamps) | triggers, threshold tuner, prompt optimizer, model upgrader, PR | no proposal is forgotten before its place in the ring is needed |
| DSPy optimizer | `dspy_optimizer.go` | a PromptVariant, `spec.evolution.promptExperiment`, `dspyJobName` | ask the LLM, create the variant, patch the spec | no running experiment is overridden, a failing agent gets its experiment |
| managed AnalysisTemplates | ADC `reconcileAnalysisTemplate`, `tool_check_template.go`, `memory_check_template.go` | five AnalysisTemplates per namespace | CreateOrUpdate with a controller reference | no agent takes over another's, an optional one blocks nobody, each holds what it is for |
| pod, Service, ServiceAccount, tool wiring | ADC `buildPodSpec`, `reconcileService`, ... | derived objects | pure translation | the manifest is the spec's |
| KEDA scaling | ADC `reconcileScaledObject` | a ScaledObject | CreateOrUpdate | one writer of `replicas` |
| webhook | `agentdeployment_webhook.go` | none | validate one object | bad specs are refused |
| entry point | `cmd/main.go` | none | start the manager | - |
| analysis runners | `examples/`, `templates/analysis/` (Python) | none | read Langfuse, ask a judge | - |

They interact through API objects only. The user writes AgentDeployments,
PromptVariants and ToolExperiments; Argo Rollouts reads the Rollout's spec and writes
its status; Argo's analysis Jobs read Langfuse; the judge writes scores to Langfuse and
the operator reads them. `For(AgentDeployment)`, `Owns(Rollout)`, `Owns(Service)` and
the watch on PromptVariants wake the reconciler, as does the `RequeueAfter` (15 or 30
seconds) every full reconcile ends in. Reconciles of one agent never overlap (the work
queue sees to that); those of four different agents may.

What is hard about it:

- every read is answered by a cache that lags; the same reconcile may see a new
  AgentDeployment and an old Rollout;
- every write of an object in memory is optimistic: it fails if anyone wrote in between;
- a reconcile writes several objects, one after the other, and can stop between any two:
  a conflict, an API error, a restart of the process;
- the steps from 5.7 on are "non-fatal": their errors are logged and the reconcile goes
  on, so a half-done step is not retried as such;
- timestamps and counts, not events, decide about experiments.

## The modules

`InformerCache` holds what the others share: an API object is the sequence of its versions,
from the one in the informer cache (`Cached`) to the one in the API server (`Stored`), and a
watch event drops the head.

### AgentReconciler, and its contract DesiredState

One AgentDeployment, its Rollout, the reconcile goroutine, the caches, the user, Argo.

| state | in the code |
|---|---|
| `ad`, `ro` | the versions of the AgentDeployment and of the Rollout |
| `pc` | which API call `Reconcile` makes next: add the finalizer, CreateOrUpdate the Rollout, write the status; or delete the Rollout, release the finalizer |
| `me`, `current` | the copy of the AgentDeployment `Reconcile` holds; whether its resourceVersion is still the stored one |
| `version` | the composite version built in step 2, which the optimizer's patch does not rebuild |
| `queued`, `timer` | the key is in the work queue; a `RequeueAfter` is outstanding |
| `used` | how many of the bounded perturbations have happened |

Each API call that can change something or read something of its own is an action:
`Fetch`, `AddFinalizer`, `ReconcileRollout`, `PatchSpec`, `UpdateStatus`, `CleanUp`, `Release`.
`PatchSpec` is the one thing the steps between the Rollout and the status do to the objects of this
module: the DSPy optimizer (step 5.7) patches `spec.evolution.promptExperiment` without naming a
resourceVersion, which makes a new generation, and the server's answer replaces the copy. A stale copy
is current from then on, of a generation above all that the cache and the Rollout know of, and the
status is written for that generation although step 4 ran on an older one. `WithExperiment` says
which spec a spec becomes. When the optimizer sends the patch is Evolution's subject; here it may
whenever the copy selects no experiment.
`CreateOrUpdate` is one action: its read is from the cache and only its write takes time.
A failed call is `StepFails`, a restart `Restart`. Argo is external: it takes up a new
template, pauses, promotes and aborts whenever it likes.

What is abstracted: a pod template, its pod hash and the AgentDeployment spec it comes
from are one value of `Specs`; `CompositeVersion` says which specs share a composite
version (the proofs hold for any such function; the run has a spec, the same with an experiment,
and one of another version). Of the Argo strategy only the `stable-version` argument is kept, because it is
taken from the status and so makes the Rollout depend on what the last status write said.
The stable ReplicaSet is read by its own List, which may fail or be stale: `labelRead`.
`scorecard.updatedAt` is taken from the clock at every reconcile, so a status write may be
a new version although nothing else changed: `tick`. The other creating steps (3 to 3.6,
5, 5.5) are calls that may fail. The model assumes no `dependsOn`, and that a restarted
operator lists what the API server holds (a single API server, or a consistent list).
`from` in a Rollout is a history field (the generation it was computed from), for the
properties only.

`DesiredState` is the contract in terms of generations alone: the one asked for grows, the
applied and the reported ones follow it, never ahead and never backwards, and nothing
moves once the object is gone. `ImplementsDesiredState` is the refinement.

### Experiments, and its contract ExperimentLifecycle

Steps 5.8 (eval history), 5.9 or 5.10 (the experiment) and 6 (the status write) of a
reconcile, for one agent and several PromptVariants (`kind = "prompt"`) or ToolExperiments
(`kind = "tool"`, chosen at the start): the two handlers are the same code but for the ConfigMaps.

| state | in the code |
|---|---|
| `ad` | versions of the AgentDeployment: the selected experiment's name, the scores in the history, the lineage, the generation; `ever` is a history field, the lineage with what its ring has evicted |
| `ex` | versions of each PromptVariant or ToolExperiment: phase, start, number of scores |
| `variantCM`, `mainCM` | whose prompt `<agent>-prompt-experiment` and `promptConfigMap` hold |
| `judged` | scores in Langfuse |
| `pc`, `me`, `current`, `got`, `gotCurrent` | the handler's position and its two copies |
| `outcome` | history variable: the outcome each experiment's status got first |

A score is its place among those the judge produced, which is also its time: `started` is how many
had been produced at `ExperimentStartedAt`. `Key` gives each score its version and value, or none
if its comment names no version. `ReconcileEvalHistory` appends what the code does: of the last
`QueryLimit` scores those with a version that no entry of the history is like, and of several alike
the one Langfuse lists first, which may be any (`Batches`); which entries a full history drops is
left open (`Rings`), the order of appending being EvalHistory's subject. So the history may hold
fewer scores than the judge gave. The t-test is the constant `Better`, the set of (experiment,
history) for which it says the variant is better; the runs use one that changes its mind as scores
come in, in either direction. `Fetch` may happen at any
time because every reconcile ends in a `RequeueAfter` or in an error that is retried.
Left out: editing a variant's prompt while it is tested, other writers of the ConfigMaps, and
reuse of a deleted experiment's name. The sizes of the query, the history and the lineage are
constants; the runs have the code's 20 and 50, which their scores do not reach, and a lineage ring
of 1, which they overflow.

`ExperimentLifecycle` is the contract: an experiment begins once, is decided once, only with
`MinControl` scores before and `MinSamples` after its beginning, and the record is written
after the decision and agrees with it.

### AgentDependencies

Several AgentDeployments of one namespace that name each other in `spec.dependsOn`, their
Rollouts, and one reconcile per agent, all running side by side
(`MaxConcurrentReconciles` is 4).

| state | in the code |
|---|---|
| `ad[a]` | versions of AgentDeployment `a`: its pod template, its `dependsOn`, its `status.phase` |
| `ro[a]` | versions of its Rollout: the template asked for, the one Argo's status is about, its phase |
| `rec[a]` | the reconcile of `a`: idle, in the loop of `checkAgentDependencies` (`unchecked` is what the loop has left), at the Rollout or at the status; the copy it holds and whether that is current |
| `queued` | keys in the work queue, or waiting for a `RequeueAfter`, which may fire at any time |
| `served`, `rec[a].seen` | history: agents Argo has promoted at least once; dependencies this reconcile could have read as Stable since it began |

`CheckDependency` is one turn of the loop, `Blocked` the return with a `RequeueAfter`. The loop
is over a list in the code and stops at the first dependency that is not ready; here the order
is left open. Because each dependency is read by its own `Get`, others act between two turns.
The rest of a reconcile is AgentReconciler's subject and kept as far as other agents can see it:
the write of the Rollout's template and the write of the phase. So the finalizer, deletion, the
`stable-version` argument and the timestamps of the status are left out, agents are never
deleted, and a status write that would change the phase to what it is already is no new version.
Phase `Pending` is also what no Rollout gives, as in `updateStatus`. That no agent names
itself is the webhook's `validateDependsOn`, an assumption here (`NoSelfDependency`).

Three things about the code decide its behaviour. A blocked reconcile returns before
`updateStatus`, so the phase of a blocked agent is frozen at whatever it was, and that is what
other gates read. Nothing watches a dependency: only the `RequeueAfter` looks again. And the gate
stands before the write of the Rollout, not before the promotion, so it has no say in a canary
under way; the API's comment promises otherwise, which is a finding.

### MemoryBackend

Step 5.12 (`reconcileMemoryBackend`) of one agent with a Mem0 backend, between the write of the
Rollout and the write of the status, and the Mem0 session that the pods of all its versions share.

| state | in the code |
|---|---|
| `ad`, `ro` | versions of the AgentDeployment (template, phase, `lastMemorySnapshotVersion`) and of the Rollout |
| `secret` | versions of the snapshot Secret: its `snapshot-version` label and its data |
| `memory` | external: what Mem0 holds, as the set of agent versions that wrote some of it |
| `pc`, `me`, `current`, `held` | the position, the copy, and the memory exported or read from the Secret |
| `before`, `failed` | history: the memory when Argo began the rollout; the versions whose rollout was aborted |

The start and the failure of a canary are no events: `CanaryStarted` and `CanaryFailed` compare the
phase in the copy with that of the cached Rollout, and `updateStatus` reads the Rollout again.
Every call of Mem0 and the API server may fail at any time and for ever (`BackendFails`). A version
is a number, so that "later" has a meaning. Left out: credentials, the sidecar, an edit of the
two options, a Rollout that is deleted.

### EvalHistory

Steps 5.8, 5.11 and 5.13 (`reconcileEvalHistory`, `reconcileMemoryLifecycle`,
`reconcileOptimizationScorecard`), the pure algorithms among the steps, over every sequence of
scores: `WithScores` (the deduplication and the ring of `appendEvalHistory`), `RecentMean`,
`WithSnapshot` and `Drifted` (`computeDriftScore`), `QualityTrend`, `LastPromotion` and
`Regressed` (`detectRegression`). They are recursive functions over sequences and sub-sequences, over
a status that only comes into being through reconciles, with conflicts and outages between them. The
query names no order and the code does not sort what it gets, so `Batches` has every order of the
`Latest` scores. Numbers are exact: scores are hundredths and a mean is kept times `Scale`, where the
code has floats; comparisons are of sums (`Total`, `SideSum`), cross-multiplied. Time is the place
in the sequence of scores; whether a snapshot is due is a choice. Steps 5.9 and 5.10 may each decide
an experiment in one reconcile (`DecideExperiment`).

### Evolution

Step 5.7 (`reconcileEvolution`) with its four strategies and the steps after it as far as it
reads their work: the start and the end of an experiment (5.9) and the status write (6).

| state | in the code |
|---|---|
| `ad` | versions of the AgentDeployment: `promptExperiment`, `phase`, `dspyJobName`, whether there are tuned thresholds, `evolution.history` |
| `pv` | versions of the phase of each PromptVariant the optimizer makes |
| `prompt` | whose prompt `promptConfigMap` holds |
| `rollout` | external: the phase `updateStatus` would read |
| `pc`, `me`, `current`, `made`, `proposals` | the position, the copy, the variant just created, the proposals of this reconcile (a history variable once they are recorded) |

`CreateVariant` and `PatchExperiment` are two actions, because the API server, the user and the
caches act in between. The merge patch names no resourceVersion, and its answer is decoded into the
copy: `Decoded` keeps the fields the answer omits, and the copy is current from then on, even if it
was stale before. What the LLM, Langfuse and GitHub say is a choice. Seconds (`dspyVariantName`)
are the numbers in `Variants`; running out of them is a bound.

### SharedTemplates

Steps 3 to 3.3 of the agents of one namespace, side by side, and the templates they share by name.

| state | in the code |
|---|---|
| `agent[a]` | versions of the agent: generation, the templates its rollout steps refer to, and those its features call for |
| `tmpl[t]` | versions of an AnalysisTemplate: label, controller reference, which of the contents it has |
| `rolled[a]` | the generation of the Rollout (steps 4 to 6 are one action) |
| `work[a]` | the reconcile of `a`: its copy and what it has yet to reconcile |

`SkipUsersOwn` and `TakeUp` are the Get of `reconcileAnalysisTemplate` with its check of the label,
`ApplyTemplate` and `GiveUp` the CreateOrUpdate with `SetControllerReference`, for which the
template is read again. Steps 3.1 to 3.3 have no such check and only log their errors. The garbage
collector and the user are external.

## What the runs show

The `MC` modules give the constants their values; MemoryBackend needs none.

| run | shows | bounds |
|---|---|---|
| `reconciler` | `QuietMeansConverged`: when only a requeue timer is left to wake the controller, the stored Rollout is the spec's and the status reports it, so no conflict, error, restart, stale read or patch in the middle of a reconcile is ever forgotten. `FinalizerGuardsRollout`: no Rollout beside an agent without the finalizer. `NoResurrection`: no Rollout once the agent is gone. `RolloutNeverRegresses`, the refinement of `DesiredState`, and `Inductive`, the invariant the proofs use. `EventuallyServed`: in the end the last generation is applied and reported, and `stableVersion` is the version of Argo's stable ReplicaSet. `DeletionCompletes`. | 3 specs of 2 versions, 1 edit and the deletion in any order, 1 perturbation (a patch by the optimizer is one); Argo writes while the cached Rollout is at most 1 version behind |
| `experiments` | `LineageFaithful`: no outcome twice, none that is not the experiment's, the lineage is the latest of them and the generation counts all promotions. `PromotedIsInstalled`. The refinement of `ExperimentLifecycle`. `EventuallyDecided`: a selected experiment with enough scores on both sides, those that are alike not counted, is decided. | 2 experiments, of prompts or of tools, 5 scores the last two of which are alike, minimum 1, lineage ring 1, 1 edit, 1 fault |
| `generation_counts` | **violated.** A promotion whose status write conflicts or fails is never counted. | 2 experiments, of prompts or of tools, 6 scores, minimum 3, 1 fault |
| `experiment_decided` | **violated.** A judge that repeats a score: the minimum of scores is collected and the experiment stays in Testing. | 5 scores, two alike, minimum 3, no edit, no fault |
| `dependencies` | `UpstreamStableFirst`: a Rollout is created, or given a new template, only by a reconcile that was itself shown each dependency Stable after it began; what an earlier reconcile or an earlier spec saw does not count. It does not say how old the phases shown are. `GateInvariant`, why that is so. `CycleStaysStuck`: agents that wait for each other are never freed by a promotion, a retry or a restart, only by an edit of one of their specs; this includes cycles made by an edit while agents are running. `EventuallyAllServed`: without a cycle, and if no rollout stays aborted, every agent ends up rolled out and reported Stable. | a caller that depends on a callee, which may depend on the caller, 1 edit, 1 fault |
| `dependency_doc` | **violated.** A canary is promoted while a dependency is Degraded. | as `dependencies` |
| `memory_backend` | `SnapshotBacksStatus`: a snapshot any copy of the status tells of is in the Secret, or a later one is. `LabelBoundsContent`: a snapshot labelled with a version has nothing a later version wrote. `NothingLostWithoutFailure`: until a rollout has been aborted, memory only grows. `BackendNeverBlocks`. `Inductive`, for the proofs. | 2 versions, 2 faults (an aborted rollout is one) |
| `memory_pre_canary` | **violated.** The restore brings back the snapshot of an earlier rollout. | 1 fault: the abort. Mem0 being down for one export is enough, and so is a canary whose start no reconcile saw |
| `eval_history` | `NoScoreTwice`: an evicted score never comes back. `LatestKnown`: none of the latest scores is missed that was not in the history before. `SteadyQualityIsQuiet`, `DriftMeansDecline`, `RegressionFollowsPromotion`: no alarm without a decline, and no regression without a promotion between the higher score and the lower (which of several is not checked: the run has one decision). | 4 scores of 2 versions and 2 values or without a version, query limit 2, ring 3, 1 decision, 1 fault |
| `evolution` | `SeenExperimentKept`: once the running reconcile has fetched an experiment, and every version the cache may still show selects it, only the user replaces it. One selected after the fetch, or not yet in the cache at the fetch, is overridden by the patch. `SelectedExists`: no version or copy selects a variant not yet created. `NoProposalForgotten`: whenever the stored history changes, it is exactly the last entries, as many as the ring holds, of the old one and the writing reconcile's proposals. `OnlyAnOrphanStopsTheOptimizer`: an agent that stays Degraded gets its experiment, unless a variant was abandoned in Testing. | 2 variants, ring 2, 1 user edit, 1 fault; DSPy on failure, and the LLM optimizer on a schedule |
| `shared_templates` | `OwnerKept`: a template changes hands by being deleted only. `OnlyAnOwnerBlocks`: an agent whose required templates nobody else owns is rolled out, whatever happens to optional templates, the user's and those of agents gone. | 2 agents, 2 templates, 1 user action, 1 fault, caches at most 2 versions behind for the garbage collector to act |
| `judge_template` | **violated.** Steps 3 and 3.1 write different contents into `agent-judge-check`, again and again. | 1 agent that follows the evaluation sample, no edit, no fault |

Why these bounds are enough, as far as one can tell: every conflict and every stale cache comes
without a count; what is counted is what happens outside, or by accident. One edit and a
deletion let a copy be two versions behind, a Rollout be made from an older generation than the
one cached, and a deletion hit each of these; one fault can hit any step. The optimizer's patch
is one perturbation, so in `reconciler` no restart or error is added to it; the theorems have no such
limit. The two agents of the dependency runs cover both positions of a gate and the smallest cycle; a
longer chain adds waiting, not a new kind of step, and the theorems hold for any graph. `experiments`
has a minimum of 1 sample, below the 3 the CRD allows. The handlers only compare the minimum with a
count, and with 1 the five scores hold two points at which an experiment is evaluated, with different
verdicts, so that a decision whose write failed is taken again the other way, and time for both
experiments to be decided, so that the lineage ring evicts. The two violated runs have 3.
The ring of `eval_history` has to be smaller than the scores
there are, and at least twice the query less one, as 50 and 20 are (`SizesAssumption`; a smaller
ring lets a score back in, as a mutant shows). Symmetry is used over the versions in `eval_history` only, which checks no liveness.

Deadlock checking is off for AgentReconciler, whose system may come to rest (the agent is
gone), and for SharedTemplates, where both agents can be deleted. In the others another reconcile
can always start.

**Fairness.** `WF` on the disjunction of the controller's steps (a worker takes whatever is
queued and goes on), on each watch and on the requeue timer: controller-runtime's workers and
informers promise that much, and a weak fairness is all that is used since none of these is
disabled by others for long. In SharedTemplates it is per agent: four workers
(`MaxConcurrentReconciles`) serve two agents, and the queue gives each its turn. Neither the
user, nor the judge, nor Mem0, nor the LLM, nor a fault is fair. Argo is fair in
AgentDependencies only, where an agent waits for another one's rollout: it takes up a template
and ends its rollout one way or the other, as its progress deadline sees to. That it does not
end in an abort for good, and that the agents get created, are premises of
`EventuallyAllServed`. The garbage collector is fair in SharedTemplates.

## What is proved

All theorems hold for every value of the constants under the named assumptions of the module, in
particular for any number of edits and faults. `InformerCacheProofs` has the lemmas on versions the
other modules of proofs cite.

**AgentReconcilerProofs**: `TypeInvariant`, `InductiveInvariant`, `FinalizerGuards`,
`NothingResurrected`, `NeverRegresses`, `Implementation` (the refinement of `DesiredState`) and
`NoLostWakeUp` (`Spec => []QuietMeansConverged`).

The properties are not inductive by themselves, because they speak about the stored versions
and the controller acts on old ones. `Inductive` says how far behind it can be:
`GenerationsOrdered` (later versions have later generations, and none reports more than its
own), `RolloutBehindCache` (the Rollout was made from a generation the cache already has, and
the copy in memory lies between the two), `CopyCurrent` (a current copy is the stored
version, and on the deletion path the cache is up to date with it), `FinalizerKept` (a
finalizer once seen is still stored, or the object is gone and was being deleted),
`BranchTaken` (the branch `Reconcile` is in tells what is stored). `RolloutBehindCache` is
the heart: a reconcile always starts from a version at least as new as the one the Rollout was
made from, because the API server answers in order and the cache never goes back; it is
preserved by a restart because the fresh list holds the newest version. `CopyCurrent` is what
makes an accepted write a step of `DesiredState`. The optimizer's patch puts the copy ahead of the
cache, so `RolloutBehindCache` bounds it there by what is stored only, and `NoLostWakeUp` has to rest
on the event of that patch: the status written after it reports a generation the Rollout does not
have yet, and the event, still to come or in the queue, brings the reconcile that applies it. The module states what one step does to the
abstract state once (`StepKeepsPromise`) and draws three theorems from it.

`NoLostWakeUp` has an invariant of its own, `WakeUp`: an object being deleted still has its
finalizer, so that the deletion path is taken and not the early return (`DeletionGuarded`); and
between `reconcileRollout` and `updateStatus` the Rollout is as asked for, or an event is to
come or has queued the agent (`RolloutApplied`). Every write leaves an event to come
(`WriteAwakes`), so the only step that can end in quiet is a status write that found nothing to
write, on a current copy and with a cache that was up to date: exactly then what is stored is
what was asked for (`ComesToRest`).

**AgentDependenciesProofs**: `TypeInvariant`, `GateHolds`, `GatePromise`, `CyclesStay`, for any
set of agents and any dependency lists. `GateInvariant` is inductive. It speaks of all versions of
all objects, not only of the cached or the stored ones, because `Stable` travels: Argo writes
`Healthy`, a later reconcile reads it from its cache and writes `Stable`, a later one of another
agent reads that from its own. Three lemmas (`AgentChange`, `RolloutChange`, `ReconcileChange`) say
once what a step can do to one agent's objects and reconcile; the theorems are drawn from them.

**ExperimentsProofs**: `TypeInvariant`, `FaithfulLineage`, `PromotionInstalls` and
`Implementation` (the refinement of `ExperimentLifecycle`), for any experiments, either kind and
any verdicts of the t-test. The inductive invariant says that an experiment not decided has no
outcome yet (`StoredPhases`), no history is longer than there are scores (`HistoryBehind`), what
the handler is about to write over an experiment that nobody has written since is a beginning,
progress or a decision on enough scores (`CopyKnows`), every lineage, stored or in memory, is the
latest entries of a record (`ever`) that tells the outcomes as they were, and a current copy has all
that is on record (`LineagesKnown`), and a
prompt about to be marked promoted is in place (`Installed`). The point is the handler that acts
on a phase from a stale cache: its copy is then not current, its write is refused, and nothing
is recorded.

**MemoryBackendProofs**: `TypeInvariant`, `InductiveInvariant`, `SnapshotBacked`, `LabelBounds`,
`NothingLost`. The invariant is an order of versions: what a copy works on lies between what is
rolled out and what the cache has (`InOrder`), so no Secret is labelled ahead of the Rollout and
no older reconcile can overwrite a later snapshot; what is remembered was written by versions
rolled out so far (`MemoryInOrder`); and a restore, or a `Degraded` Rollout, has an aborted one
before it (`FailureFirst`).

**EvolutionProofs**: `TypeInvariant`, `SelectedVariantExists`, `ExperimentKept`, `HistoryKept`, for
any ring size, options and bounds. `OptimizerKnows`: where the patch is sent the copy selects no
experiment, and a current copy is right about that. `HistoryKnown`: a current copy's history is the
stored one, with this reconcile's proposals added once they are recorded. Both have to survive the patch, which makes any copy current by decoding
the server's answer into it: an answer with a history replaces the copy's, an answer without one has
nothing to lose.

**SharedTemplatesProofs**: `TypeInvariant` and `NoTakeover`. `OwnerKept` needs no invariant but the
types: an update is accepted on the stored version only, whose owner has just been compared.

**EvalHistoryProofs**: `TypeInvariant`, `NoScoreStoredTwice`,
`LatestScoresKnown`, `SteadyQualityStaysQuiet`, `DriftIsDecline`, `RegressionIsAfterPromotion`, for any
sequence of scores, any sizes of rings and windows and any `Scale`, given `SizesAssumption`: the ring
is at least twice the query's limit less one, which is why an evicted score stays away, and at
least twice the trend's window.

The module has two halves. The first is about the operators. The installed provers cannot use an
induction theorem that takes an operator, so `SetInduction` draws the principle from the
well-foundedness of `<` on the naturals for a *set* of numbers, and `TurnInduction` and `LoopRuns`
from that for a loop; `TotalRuns` and `WithScoresRuns` say that the two recursive functions are such
loops. From there: a sum is bounded place by place (`TotalMonotone`), a mean of equal scores
is that score (`RecentMeanFacts`; `ScaleAssumption` has the division come out even), a lower mean has a
lower entry behind it (`DriftedDeclines`, `RegressedDeclines`), and appending keeps the shape of the
ring (`RingPush`).

The second half is the invariant, `IInv`. `Ring`: the entries of a history are of distinct scores, and
each is less than `QueryLimit` places older than any entry before it. Hence, by
counting (`RingPush`), when the full ring evicts its first entry, that one is older than anything the
query can still list: only `QueryLimit - 1` of the other entries can be older than it.
`Reach`: a score ever stored is in the stored history and in the copy's, or out of reach, and a copy
holds nothing back that the stored history had lost; it outlives a new score, a refused status write
and a restart, and is what `NoScoreTwice` needs. `Good` carries the signals: a copy's snapshots
under a steady judge are that judge's score, and each alarm it shows has a decline behind it *now*.
Only one step ever removes what an alarm rests on, a new snapshot in a full ring, and it computes the
drift afresh.

Only model-checked: liveness (`EventuallyServed`, `DeletionCompletes`, `EventuallyDecided`,
`EventuallyAllServed`, `BackendNeverBlocks`, `OnlyAnOrphanStopsTheOptimizer`,
`OnlyAnOwnerBlocks`), which TLAPS 1.4.5 cannot do (no `ENABLED`). Every safety property the runs
check is proved. No module declares a `RECURSIVE` operator.

## What was found

Five properties that a comment of the code's own API promises do not hold; the runs give the
traces.

1. `GenerationCountsPromotions`. `promoteVariant` stores the variant's `Promoted` first and counts the
   promotion in memory; if the status write of step 6 is refused, the retry finds the variant promoted
   and does nothing. `optimizationGeneration` and the lineage miss it for ever.
2. `PreCanaryMemoryRestored`. `restoreMemorySnapshot` imports the snapshot recorded last. If
   the one of this canary was not taken (Mem0 was down, the canary began and failed between two
   reconciles' looks, the Secret's write conflicted) that is an earlier rollout's, and what the stable
   version remembered since is dropped.
3. `JudgeStaysInTemplate`. `agent-judge-check` is among `managedAnalysisTemplates`, whose default
   content is the quality check. An agent that both sets `evaluation` and refers to the template in its
   steps, as the sample does, has it rewritten twice in every reconcile.
4. `DecidedAfterMinSamples`. `reconcileEvalHistory` drops a score whose version and value are already
   in the history, so a judge that repeats itself never fills it, and the experiment stays in Testing
   with its minimum of scores collected. `agentdeployment_types.go` 561 and 577 promise the t-test and
   the verdict then. Given enough *different* scores it is decided (`EventuallyDecided`).
5. `DegradedDependencyBlocksPromotion`. The gate is asked once, before the Rollout is written, and of
   the cache. A dependency that has just left Stable, or degrades during the canary, does not block the
   promotion, which `agentdeployment_types.go` 54-57 says it does.

## Met on the way, with no run

What follows the models or the reading showed; no run is about it, because no document promises
otherwise, because it heals, or because it is outside the models.

- `stableVersion` names the canary's version while the cached Rollout status is still about the old
  template (ADC 1027); it heals with Argo's status. Until then the canary's cost is compared with
  its own.
- `handleDeletion` may release the finalizer before the Rollout is deleted, when the cache has
  not seen it (ADC 351). The owner reference has it collected.
- An experiment with fewer than two scores before its start is never decided.
- After the optimizer's patch the status is written for the patched generation, which step 4 of that
  reconcile has not applied: `observedGeneration` is ahead of the Rollout until the patch's own event
  has the agent reconciled again.
- A prompt is installed before its variant is marked; if the mark fails and the retry, with more scores,
  rejects the variant, its prompt stays installed (`prompt_experiment.go` 226).
- Selecting another experiment and back leaves the other's prompt in the shared ConfigMap.
- `humanApproval` is not looked at by the DSPy mode, whose `promoteVariant` writes `promptConfigMap`;
  the API's comment asks for a pull request (`agentdeployment_types.go` 528, 551).
- `writePromptToConfigMap` sets no owner reference, though its comment claims one (`evolution.go` 440):
  the ConfigMap outlives the agent.
- An optimizer patch overrides an experiment that the user selected while the LLM was asked, up to
  30 s, or shortly before, if the cache had not seen it at the fetch (`dspy_optimizer.go` 49 has
  "don't override"). A patch that fails leaves the selection in memory, and step 5.9 then starts a variant that no spec
  names; left in `Testing`, it blocks the optimizer (`Orphaned`).
- Each time the loop fires `lastProposalAt` changes, so the status write wakes the controller: a hot
  loop while the agent is Degraded. The periodic trigger is due at every reconcile, as nothing writes
  `nextEvalAt`.
- The operator's role has no `create` on promptvariants (ADC 99).
- The check of the label and the update of a managed template rest on two reads; a template the user
  creates in between is overwritten, and steps 3.1 to 3.3 overwrite one at any time.
- The agent that created a template keeps it as long as it exists; a second agent of the namespace
  that refers to it in its steps is not rolled out.
- `evalHistory` is promised to be the last 50 scores in chronological order
  (`agentdeployment_types.go` 401). A new score with the version and value of one in the history
  is not appended (`evaluation.go` 264), so these are 50 different scores, not the last 50 (finding 4
  is what comes of it); one batch is appended in the order Langfuse lists it; and a
  score that makes room for a batch, while an equal one of the same batch was passed over because
  of it, is gone until the next reconcile appends that one, out of order. The proof of
  `LatestScoresKnown` brought the last out; it is why `LatestKnown` allows for what was in the
  history before the batch.
- `SetupWithManager`'s comment (ADC 1833) promises a rate limiter with a base of 5 s and a
  maximum of 5 min; the options set none. Timing is not in the models.
- `status.canaryVersion`, `lastAnalysisResult` and the phase `RollingBack` are declared and never
  written; `rollback.onFailedAnalysis` is never read.

## Not modelled

- Pod, Service, ServiceAccount and tool wiring, and the contents of templates: translations without
  state. Their failed calls are `StepFails` of AgentReconciler.
- KEDA scaling: one CreateOrUpdate whose interesting part, a second writer of `spec.replicas`, is KEDA's.
- The webhook: checks of one object; `validateDependsOn` is an assumption of AgentDependencies.
- The Python runners, charts, Terraform and CI: not state of the operator.
- Of modelled parts: timing and back-off, leader election and metrics, the t-test (any verdicts), the
  texts of prompts and pull requests, the pod template's environment, the mean of the last seven days,
  and `rollbackOnDrift`, which only words an event.

The parts are checked side by side, not as one product: what one step reads of another's work is
in both modules (the status write and its conflict, the phase, the Rollout's versions). Of the steps
in between one writes it, the optimizer's patch of the spec: Evolution and AgentReconciler have it.
It is not in Experiments, where it would be one more way of selecting an experiment, nor in
MemoryBackend and EvalHistory, whose agents have no DSPy optimizer.

## Where to go from here

Both kinds of experiment selected at once, so that steps 5.9 and 5.10 share one status write; an
edit of a variant's prompt during its test, and the environment of the pod template against the
ConfigMap it names are the three extensions with the most to find.
