--------------------------- MODULE AgentReconciler ---------------------------
(***************************************************************************)
(* The reconcile loop of the AgentRoll operator for one AgentDeployment:   *)
(* AgentDeploymentReconciler.Reconcile, reconcileRollout, updateStatus and *)
(* handleDeletion, run against an API server with optimistic concurrency,  *)
(* informer caches that lag behind it, the user, and Argo Rollouts.        *)
(*                                                                         *)
(* An API object is the sequence of its versions from the one the informer *)
(* cache holds (the head) to the one the API server holds (the last): a    *)
(* read through the manager's client returns the head.  A resourceVersion  *)
(* is only ever compared for equality, so it is not kept: a write of the   *)
(* cached version is accepted if that version is also the last, a write of *)
(* the copy in memory if `current' says so.  A version with live = FALSE   *)
(* is a deleted (or not yet created) object.                               *)
(*                                                                         *)
(* The agent declares no spec.dependsOn, whose gate returns between the    *)
(* finalizer and the Rollout.  Of the non-fatal steps 5.7-5.13 one writes  *)
(* a field of this model: the DSPy optimizer patches the spec, between     *)
(* reconcileRollout and updateStatus.                                      *)
(***************************************************************************)
EXTENDS Integers, Sequences, InformerCache

CONSTANTS
    Specs,             \* pod templates the user may ask for; also their hashes
    Versions,          \* composite versions
    CompositeVersion,  \* buildCompositeVersion: the version of each spec
    WithExperiment,    \* each spec with its promptExperiment selected
    None,              \* the empty string of a hash or of a version
    MaxEdits,          \* bound: the user edits while the spec changed less often
    MaxBehind,         \* bound: Argo writes while the Rollout's cache is no
                       \* more versions behind than this
    MaxPerturbations   \* bound: API errors, restarts, stale ReplicaSet lists,
                       \* lost Rollouts, patches of the optimizer, status writes
                       \* that only move a clock

ASSUME CompositeVersionAssumption == CompositeVersion \in [Specs -> Versions]
\* buildCompositeVersion does not look at spec.evolution; buildPodSpec does.
ASSUME WithExperimentAssumption ==
    /\ WithExperiment \in [Specs -> Specs]
    /\ \A s \in Specs : /\ CompositeVersion[WithExperiment[s]] = CompositeVersion[s]
                        /\ WithExperiment[WithExperiment[s]] = WithExperiment[s]

ASSUME NoneAssumption == None \notin Specs \cup Versions
ASSUME BoundsAssumption == {MaxEdits, MaxBehind, MaxPerturbations} \subseteq Nat

VARIABLES
    ad,       \* versions of the AgentDeployment, cached first, stored last
    ro,       \* versions of the Argo Rollout, cached first, stored last
    pc,       \* the step the reconcile goroutine takes next
    me,       \* the AgentDeployment copy Reconcile holds in memory
    version,  \* the compositeVersion Reconcile built from it in step 2
    current,  \* no one has written the AgentDeployment since that copy's version
    queued,   \* the agent's key is in the work queue
    timer,    \* the RequeueAfter of the last reconcile has not fired yet
    used      \* perturbations so far

vars == <<ad, ro, pc, me, version, current, queued, timer, used>>

Phases == {"", "Pending", "Progressing", "Stable", "Degraded", "RollingBack"}
RolloutPhases == {"", "Progressing", "Paused", "Healthy", "Degraded"}

Agents ==
    {a \in [live : BOOLEAN, gen : Nat, spec : Specs \cup {None},
            deleting : BOOLEAN, fin : BOOLEAN,
            phase : Phases, stable : Versions \cup {None}, obs : Nat] :
       a.live => a.spec # None}

\* tmpl, arg: the pod template and the stable-version analysis argument of the
\* spec; from: the AgentDeployment generation that spec was computed from (a
\* history field); phase, cur, stable: what Argo reports.
Rollouts == [live : BOOLEAN, from : Nat,
             tmpl : Specs \cup {None}, arg : Versions \cup {None},
             phase : RolloutPhases, cur : Specs \cup {None}, stable : Specs \cup {None}]

NoAgent == [live |-> FALSE, gen |-> 0, spec |-> None,
            deleting |-> FALSE, fin |-> FALSE,
            phase |-> "", stable |-> None, obs |-> 0]

NoRollout == [live |-> FALSE, from |-> 0, tmpl |-> None, arg |-> None,
              phase |-> "", cur |-> None, stable |-> None]

\* A deleted Rollout: only the history field outlives it.
Gone(rollout) == [NoRollout EXCEPT !.from = rollout.from]

Init ==
    /\ \E s \in Specs :
         ad = <<NoAgent, [NoAgent EXCEPT !.live = TRUE, !.gen = 1, !.spec = s]>>
    /\ me = NoAgent
    /\ version = None
    /\ current = FALSE
    /\ ro = <<NoRollout>>
    /\ pc = "idle"
    /\ queued = FALSE
    /\ timer = FALSE
    /\ used = 0

(***************************************************************************)
(* The controller.                                                         *)
(***************************************************************************)

\* Reconcile returned, or returned an error: then the key goes back to the
\* queue.
Return == /\ pc' = "idle"
          /\ me' = NoAgent
          /\ version' = None
          /\ current' = FALSE

\* Mutant: the error is logged and swallowed.
RetryForgotten == Return /\ UNCHANGED queued

Retry == /\ Return
         /\ queued' = TRUE

\* Mutant: the deletion timestamp is not looked at.
FirstStepIgnoringDeletion(got) ==
    CASE ~got.live            -> "idle"
      [] got.live /\ got.fin  -> "rollout"
      [] got.live /\ ~got.fin -> "finalizer"

\* Where Reconcile goes with the object it read: not found, deletion, a missing
\* finalizer, or the reconcile steps.
FirstStep(got) ==
    CASE ~got.live                                -> "idle"
      [] got.live /\ got.deleting /\ ~got.fin     -> "idle"
      [] got.live /\ got.deleting /\ got.fin      -> "cleanup"
      [] got.live /\ ~got.deleting /\ ~got.fin    -> "finalizer"
      [] got.live /\ ~got.deleting /\ got.fin     -> "rollout"

\* Reconcile, steps 1 and 2: take the key, read the AgentDeployment from the cache,
\* build the composite version.
Fetch ==
    /\ pc = "idle"
    /\ queued
    /\ queued' = FALSE
    /\ LET got == Cached(ad)
       IN  IF FirstStep(got) = "idle"
             THEN Return
             ELSE /\ pc' = FirstStep(got)
                  /\ me' = got
                  /\ version' = CompositeVersion[got.spec]
                  /\ current' = InSync(ad)
    /\ UNCHANGED <<ad, ro, timer, used>>

\* Mutant: the finalizer is added to the copy in memory only.
AddFinalizerInMemory ==
    /\ pc = "finalizer"
    /\ me' = [me EXCEPT !.fin = TRUE]
    /\ pc' = "rollout"
    /\ UNCHANGED <<ad, ro, version, current, queued, timer, used>>

\* AddFinalizer and Update, then fall through to the rest of the loop with the
\* object the API server returned.
AddFinalizer ==
    /\ pc = "finalizer"
    /\ IF current
         THEN /\ ad' = Append(ad, [me EXCEPT !.fin = TRUE])
              /\ me' = [me EXCEPT !.fin = TRUE]
              /\ pc' = "rollout"
              /\ UNCHANGED <<version, current, queued>>
         ELSE /\ Retry
              /\ UNCHANGED ad
    /\ UNCHANGED <<ro, timer, used>>

\* The spec reconcileRollout computes from the copy in memory: buildPodSpec,
\* and the stable-version argument that translateSteps takes from the status.
Desired(rollout) == [rollout EXCEPT !.live = TRUE, !.tmpl = me.spec,
                                    !.arg = me.stable, !.from = me.gen]

SameSpec(rollout) == rollout.tmpl = me.spec /\ rollout.arg = me.stable

\* reconcileRollout: CreateOrUpdate of the whole Rollout spec.  The read is the
\* cached one; the create fails if the object exists, the update if the cached
\* version is not the stored one.
ReconcileRollout ==
    /\ pc = "rollout"
    /\ LET got == Cached(ro)
           unchanged == got.live /\ SameSpec(got)
           accepted  == IF got.live THEN InSync(ro) ELSE ~Stored(ro).live
       IN  \/ /\ unchanged
              /\ pc' = "status"
              /\ UNCHANGED <<ro, me, version, current, queued>>
           \/ /\ ~unchanged /\ accepted
              /\ ro' = Append(ro, Desired(got))
              /\ pc' = "status"
              /\ UNCHANGED <<me, version, current, queued>>
           \/ /\ ~unchanged /\ ~accepted
              /\ Retry
              /\ UNCHANGED ro
    /\ UNCHANGED <<ad, timer, used>>

\* reconcileDspyOptimizer, step 5.7, when no experiment is selected in the copy: a
\* merge patch without a resourceVersion sets spec.evolution.promptExperiment of
\* whatever version is stored, and the server's answer replaces the copy.
PatchSpec ==
    /\ pc = "status"
    /\ WithExperiment[me.spec] # me.spec
    /\ Stored(ad).live
    /\ used < MaxPerturbations
    /\ used' = used + 1
    /\ me' = [Stored(ad) EXCEPT !.spec = WithExperiment[Stored(ad).spec], !.gen = @ + 1]
    /\ ad' = Append(ad, me')
    /\ current' = TRUE
    /\ UNCHANGED <<ro, pc, version, queued, timer>>

\* Mutant: Argo's phase taken as it is.
RolloutPhaseVerbatim(phase) == phase

\* mapRolloutPhase.
MapRolloutPhase(phase) ==
    CASE phase = "Healthy"                   -> "Stable"
      [] phase \in {"Progressing", "Paused"} -> "Progressing"
      [] phase = "Degraded"                  -> "Degraded"
      [] OTHER                               -> "Pending"

\* Mutant: the version of the current spec, as before the rule was written.
BlindStableVersion(rollout, labelRead) == version

\* updateStatus' rule for StableVersion; labelRead says whether
\* stableRSCompositeVersion found the stable ReplicaSet and its label.
NextStableVersion(rollout, labelRead) ==
    IF rollout.stable = None \/ rollout.cur = rollout.stable
      THEN version
      ELSE IF labelRead THEN CompositeVersion[rollout.stable]
                        ELSE me.stable

\* The status updateStatus computes from the cached Rollout.
NewStatus(rollout, labelRead) ==
    IF rollout.live
      THEN [me EXCEPT !.phase  = MapRolloutPhase(rollout.phase),
                      !.stable = NextStableVersion(rollout, labelRead),
                      !.obs    = me.gen]
      ELSE [me EXCEPT !.phase = "Pending", !.obs = me.gen]

\* Mutant: the whole copy is written without its resourceVersion.
UpdateStatusUnchecked ==
    /\ pc = "status"
    /\ ad' = Append(ad, NewStatus(Cached(ro), TRUE))
    /\ Return
    /\ timer' = TRUE
    /\ UNCHANGED <<ro, queued, used>>

\* updateStatus and the end of Reconcile.  The status write conflicts if the
\* stored version is not the one in memory, and writes no version if nothing
\* changed; tick says that scorecard.updatedAt, taken from the clock, did.
UpdateStatus ==
    /\ pc = "status"
    /\ \E labelRead, tick \in BOOLEAN :
         /\ used' = used + (IF labelRead THEN 0 ELSE 1) + (IF tick THEN 1 ELSE 0)
         /\ used' <= MaxPerturbations
         /\ LET new == NewStatus(Cached(ro), labelRead)
            IN  IF ~current
                  THEN /\ Retry
                       /\ UNCHANGED <<ad, timer>>
                  ELSE /\ ad' = IF new = me /\ ~tick THEN ad ELSE Append(ad, new)
                       /\ Return
                       /\ timer' = TRUE
                       /\ UNCHANGED queued
    /\ UNCHANGED ro

\* handleDeletion, first call: delete the Rollout the cache shows.
CleanUp ==
    /\ pc = "cleanup"
    /\ ro' = IF Cached(ro).live /\ Stored(ro).live
               THEN Append(ro, Gone(Stored(ro)))
               ELSE ro
    /\ pc' = "release"
    /\ UNCHANGED <<ad, me, version, current, queued, timer, used>>

\* Mutant: the finalizer is patched away without a resourceVersion.
ReleaseUnchecked ==
    /\ pc = "release"
    /\ ad' = Append(ad, [me EXCEPT !.fin = FALSE, !.live = FALSE])
    /\ Return
    /\ UNCHANGED <<ro, queued, timer, used>>

\* handleDeletion, second call: remove the finalizer, the last one, so the API
\* server drops the object.
Release ==
    /\ pc = "release"
    /\ IF current
         THEN /\ ad' = Append(ad, [me EXCEPT !.fin = FALSE, !.live = FALSE])
              /\ Return
              /\ UNCHANGED queued
         ELSE /\ Retry
              /\ UNCHANGED ad
    /\ UNCHANGED <<ro, timer, used>>

\* A fatal step returned an error: any API call of steps 3 to 6, or of the
\* finalizer and deletion paths, that failed for no reason of its own.
StepFails ==
    /\ pc # "idle"
    /\ used < MaxPerturbations
    /\ used' = used + 1
    /\ Retry
    /\ UNCHANGED <<ad, ro, timer>>

\* The operator's process restarts: the goroutine and its timers are gone, the
\* caches are listed afresh and every listed object is queued.
Restart ==
    /\ used < MaxPerturbations
    /\ used' = used + 1
    /\ ad' = <<Stored(ad)>>
    /\ ro' = <<Stored(ro)>>
    /\ timer' = FALSE
    /\ Retry

\* RequeueAfter: 15 or 30 seconds after the last reconcile.
RequeueTimer ==
    /\ timer
    /\ timer' = FALSE
    /\ queued' = TRUE
    /\ UNCHANGED <<ad, ro, pc, me, version, current, used>>

\* For(AgentDeployment) and Owns(Rollout): an event moves the cache one
\* version on and queues the agent.
DeliverAgent ==
    /\ ~InSync(ad)
    /\ ad' = Tail(ad)
    /\ queued' = TRUE
    /\ UNCHANGED <<ro, pc, me, version, current, timer, used>>

DeliverRollout ==
    /\ ~InSync(ro)
    /\ ro' = Tail(ro)
    /\ queued' = TRUE
    /\ UNCHANGED <<ad, pc, me, version, current, timer, used>>

(***************************************************************************)
(* The user, Argo Rollouts and the garbage collector.                      *)
(***************************************************************************)

\* Changes of the spec so far; the creation and the deletion count as generations too.
Edits == Stored(ad).gen - (IF Stored(ad).deleting THEN 2 ELSE 1)

EditSpec ==
    /\ Stored(ad).live
    /\ Edits < MaxEdits
    /\ \E s \in Specs \ {Stored(ad).spec} :
         ad' = Append(ad, [Stored(ad) EXCEPT !.spec = s, !.gen = @ + 1])
    /\ current' = FALSE
    /\ UNCHANGED <<ro, pc, me, version, queued, timer, used>>

\* With a finalizer the object only gets its deletionTimestamp.
DeleteAgent ==
    /\ Stored(ad).live
    /\ ~Stored(ad).deleting
    /\ ad' = Append(ad, IF Stored(ad).fin
                           THEN [Stored(ad) EXCEPT !.deleting = TRUE, !.gen = @ + 1]
                           ELSE [Stored(ad) EXCEPT !.live = FALSE])
    /\ current' = FALSE
    /\ UNCHANGED <<ro, pc, me, version, queued, timer, used>>

ArgoWrites(new) ==
    /\ Stored(ro).live
    /\ Len(ro) <= MaxBehind + 1
    /\ ro' = Append(ro, new)
    /\ UNCHANGED <<ad, pc, me, version, current, queued, timer, used>>

\* Argo takes up a new pod template: a new ReplicaSet, or an old one again.
ArgoObserves ==
    /\ Stored(ro).cur # Stored(ro).tmpl
    /\ ArgoWrites([Stored(ro) EXCEPT !.cur = Stored(ro).tmpl, !.phase = "Progressing"])

Rolling == Stored(ro).cur = Stored(ro).tmpl
           /\ Stored(ro).phase \in {"Progressing", "Paused"}

ArgoPauses ==
    /\ Rolling
    /\ Stored(ro).phase = "Progressing"
    /\ Stored(ro).stable \notin {None, Stored(ro).cur}
    /\ ArgoWrites([Stored(ro) EXCEPT !.phase = "Paused"])

ArgoPromotes ==
    /\ Rolling
    /\ ArgoWrites([Stored(ro) EXCEPT !.stable = Stored(ro).cur, !.phase = "Healthy"])

\* An analysis failed, or the first deployment missed its deadline.
ArgoAborts ==
    /\ Rolling
    /\ Stored(ro).stable # Stored(ro).cur
    /\ ArgoWrites([Stored(ro) EXCEPT !.phase = "Degraded"])

\* The Rollout is deleted behind the controller's back, or collected after its
\* owner is gone.
RolloutRemoved ==
    /\ Stored(ro).live
    /\ IF Stored(ad).live
         THEN used < MaxPerturbations /\ used' = used + 1
         ELSE UNCHANGED used
    /\ ro' = Append(ro, Gone(Stored(ro)))
    /\ UNCHANGED <<ad, pc, me, version, current, queued, timer>>

Controller == \/ Fetch \/ AddFinalizer \/ ReconcileRollout \/ PatchSpec
              \/ UpdateStatus \/ CleanUp \/ Release

Informers == DeliverAgent \/ DeliverRollout

Argo == ArgoObserves \/ ArgoPauses \/ ArgoPromotes \/ ArgoAborts

Environment == EditSpec \/ DeleteAgent \/ Argo \/ RolloutRemoved

Next == \/ Controller \/ StepFails \/ Restart \/ RequeueTimer
        \/ Informers \/ Environment

Spec == Init /\ [][Next]_vars

\* Workers keep working, watches keep delivering and timers fire; neither the
\* user nor Argo owes the controller a step.
Fairness == /\ WF_vars(Controller)
            /\ WF_vars(DeliverAgent)
            /\ WF_vars(DeliverRollout)
            /\ WF_vars(RequeueTimer)

FairSpec == Spec /\ Fairness

(***************************************************************************)
(* Properties.                                                             *)
(***************************************************************************)

Steps == {"idle", "finalizer", "rollout", "status", "cleanup", "release"}

\* The variables' types: every version of the two objects is one the API
\* server can store, and the goroutine is at one of its API calls.
TypeOK ==
    /\ ad \in Seq(Agents) /\ Len(ad) > 0
    /\ ro \in Seq(Rollouts) /\ Len(ro) > 0
    /\ pc \in Steps
    /\ me \in Agents
    /\ pc # "idle" => me.live
    /\ version \in Versions \cup {None}
    /\ current \in BOOLEAN
    /\ queued \in BOOLEAN /\ timer \in BOOLEAN
    /\ used \in 0..MaxPerturbations

\* A Rollout never stands beside an AgentDeployment that could vanish without
\* handleDeletion: the finalizer is stored before the Rollout is created and
\* leaves with the object.
FinalizerGuardsRollout ==
    Stored(ro).live /\ Stored(ad).live => Stored(ad).fin

(***************************************************************************)
(* Why the safety properties hold: what the caches and the copy in memory  *)
(* can be behind on, and what they cannot.                                 *)
(***************************************************************************)

\* A later version has no smaller generation, and no status ran ahead of its
\* object.
GenerationsOrdered ==
    /\ \A i, j \in 1..Len(ad) : i <= j => ad[i].gen <= ad[j].gen
    /\ \A i \in 1..Len(ad) : ad[i].obs <= ad[i].gen

\* The Rollout was made from a generation the cache has seen, and the copy in
\* memory is no older than the Rollout's.  The copy is no newer than the cache
\* until the Rollout is reconciled from it: after that, the optimizer's patch may
\* put it ahead.
RolloutBehindCache ==
    /\ \A i \in 1..Len(ad) : Stored(ro).from <= ad[i].gen
    /\ pc # "idle" => Stored(ro).from <= me.gen /\ me.gen <= Stored(ad).gen
    /\ pc \notin {"idle", "status"} => \A i \in 1..Len(ad) : me.gen <= ad[i].gen

\* The copy in memory is the stored version when it is current; on the deletion
\* path the cache then holds nothing else.
CopyCurrent ==
    current => /\ pc # "idle"
               /\ me = Stored(ad)
               /\ pc \in {"cleanup", "release"} => InSync(ad)

\* A finalizer, once seen, is still there or the object is gone; and an object
\* that is gone was last seen being deleted.
FinalizerKept ==
    \A i \in 1..Len(ad) : ad[i].live /\ ad[i].fin =>
        IF Stored(ad).live THEN Stored(ad).fin ELSE ad[i].deleting

\* What the branch Reconcile took says about the copy and the stored object.
BranchTaken ==
    /\ pc \in {"rollout", "status"} => Stored(ad).live /\ Stored(ad).fin
    /\ pc \in {"cleanup", "release"} => me.deleting

Inductive ==
    /\ GenerationsOrdered
    /\ RolloutBehindCache
    /\ CopyCurrent
    /\ FinalizerKept
    /\ BranchTaken
    /\ FinalizerGuardsRollout

\* Nothing is left that would wake the controller but a RequeueAfter timer.
Quiet == pc = "idle" /\ ~queued /\ InSync(ad) /\ InSync(ro)

\* No lost wake-up: when the controller rests, the Rollout is the one the spec
\* asks for and the status reports it.  The RequeueAfter of Reconcile is, as its
\* comment says, belt-and-suspenders: errors, conflicts, restarts and stale
\* caches never leave the agent behind without an event still to come.
QuietMeansConverged ==
    Quiet /\ Stored(ad).live =>
        /\ ~Stored(ad).deleting
        /\ Stored(ro).live
        /\ Stored(ro).tmpl = Stored(ad).spec
        /\ Stored(ro).arg = Stored(ad).stable
        /\ Stored(ad).phase = MapRolloutPhase(Stored(ro).phase)
        /\ Stored(ad).obs = Stored(ad).gen

\* Reconcile never brings a Rollout back once the AgentDeployment is gone.
NoResurrection ==
    [][~Stored(ad).live /\ ~Stored(ro).live => ~Stored(ro').live]_vars

\* The Rollout never goes back to the spec of an older generation, whatever the
\* caches and the conflicting writes in between.
RolloutNeverRegresses ==
    [][Stored(ro').from >= Stored(ro).from]_vars

\* The reconciler implements DesiredState: the generation a Rollout is made from
\* and the one the status reports only move forward, never past the stored one,
\* and stop moving once the object is gone.
Abstract == INSTANCE DesiredState WITH
    desired  <- Stored(ad).gen,
    applied  <- Stored(ro).from,
    observed <- Stored(ad).obs,
    exists   <- Stored(ad).live

ImplementsDesiredState == Abstract!DSpec

\* Once the user is done, the status comes to report the current generation, a
\* Rollout made from it, and StableVersion the version of the ReplicaSet Argo
\* calls stable; or the agent is deleted.
AgentServed ==
    \/ ~Stored(ad).live
    \/ /\ Stored(ad).obs = Stored(ad).gen
       /\ Stored(ro).live
       /\ Stored(ro).tmpl = Stored(ad).spec
       /\ Stored(ro).cur = Stored(ro).tmpl /\ Stored(ro).stable # None =>
             Stored(ad).stable = CompositeVersion[Stored(ro).stable]

EventuallyServed == <>[]AgentServed

\* A deleted agent goes away: the finalizer is released.
DeletionCompletes == Stored(ad).deleting ~> ~Stored(ad).live

=============================================================================
