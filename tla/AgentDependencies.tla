-------------------------- MODULE AgentDependencies --------------------------
(***************************************************************************)
(* A2A coordination: checkAgentDependencies, step 2.5 of Reconcile, for    *)
(* several AgentDeployments of one namespace that name each other in       *)
(* spec.dependsOn.  Reconciles of different agents run side by side.       *)
(*                                                                         *)
(* What one agent's reconcile does between the gate and its end is         *)
(* AgentReconciler's; of it the module keeps the write of the Rollout and  *)
(* the write of the phase, which is all the gate of another agent sees.    *)
(* Nothing watches a dependency: the RequeueAfter of a blocked reconcile   *)
(* is its only wake-up, and since it may fire at any later time the key is *)
(* in the queue from then on.                                              *)
(***************************************************************************)
EXTENDS Integers, Sequences, Functions, InformerCache

CONSTANTS
    Agents,
    Choices,       \* the dependsOn lists the user may give each agent
    MaxEdits,      \* bound: edits of specs
    MaxFaults      \* bound: failed calls, restarts, aborted rollouts

ASSUME ChoicesAssumption == Choices \in [Agents -> SUBSET SUBSET Agents]
\* validateDependsOn: "an AgentDeployment cannot depend on itself".
ASSUME NoSelfDependency == \A a \in Agents : \A deps \in Choices[a] : a \notin deps
ASSUME BoundsAssumption == MaxEdits \in Nat /\ MaxFaults \in Nat

VARIABLES
    ad,        \* versions of each AgentDeployment, cached first, stored last
    ro,        \* versions of each Rollout, cached first, stored last
    rec,       \* each agent's reconcile: its step and what it holds
    queued,    \* the agents in the work queue or waiting for RequeueAfter
    served,    \* history: the agents whose Rollout Argo has once promoted
    edits, faults

vars == <<ad, ro, rec, queued, served, edits, faults>>

Phases == {"", "Pending", "Progressing", "Stable", "Degraded"}
RolloutPhases == {"", "Progressing", "Healthy", "Degraded"}
Steps == {"idle", "gate", "rollout", "status"}

\* tmpl: the pod template asked for, 0 when the object does not exist.
Specs == [tmpl : Nat, deps : SUBSET Agents, phase : Phases]
Rollouts == [tmpl : Nat, cur : Nat, phase : RolloutPhases]

\* unchecked: the dependencies the loop has not come to; seen: those the cache has shown
\* Stable since the fetch (a history field).
Reconciles == [pc : Steps, me : Specs, current : BOOLEAN, unchecked : SUBSET Agents,
               seen : SUBSET Agents]

NoAgent == [tmpl |-> 0, deps |-> {}, phase |-> ""]
NoRollout == [tmpl |-> 0, cur |-> 0, phase |-> ""]
Idle == [pc |-> "idle", me |-> NoAgent, current |-> FALSE, unchecked |-> {}, seen |-> {}]

Init ==
    /\ ad = [a \in Agents |-> <<NoAgent>>]
    /\ ro = [a \in Agents |-> <<NoRollout>>]
    /\ rec = [a \in Agents |-> Idle]
    /\ queued = {}
    /\ served = {}
    /\ edits = 0 /\ faults = 0

(***************************************************************************)
(* The controller.                                                         *)
(***************************************************************************)

Fault == faults < MaxFaults /\ faults' = faults + 1

At(a, step) == rec[a].pc = step

\* Reconcile returned with an error or a RequeueAfter.
Requeue(a) ==
    /\ rec' = [rec EXCEPT ![a] = Idle]
    /\ queued' = queued \cup {a}

\* Mutant: only a degraded dependency blocks.
ReadyUnlessDegraded(d) == Cached(ad[d]).tmpl # 0 /\ Cached(ad[d]).phase # "Degraded"

\* A dependency is found and its phase is Stable.
Ready(d) == Cached(ad[d]).tmpl # 0 /\ Cached(ad[d]).phase = "Stable"

Fetch(a) ==
    /\ At(a, "idle") /\ a \in queued
    /\ queued' = queued \ {a}
    /\ LET got == Cached(ad[a])
       IN  rec' = IF got.tmpl = 0
                    THEN rec
                    ELSE [rec EXCEPT ![a] =
                            [pc |-> IF got.deps = {} THEN "rollout" ELSE "gate",
                             me |-> got, current |-> InSync(ad[a]),
                             unchecked |-> got.deps,
                             seen |-> {d \in got.deps : Cached(ad[d]).phase = "Stable"}]]
    /\ UNCHANGED <<ad, ro, served, edits, faults>>

\* checkAgentDependencies: one turn of its loop.
CheckDependency(a) ==
    /\ At(a, "gate")
    /\ \E d \in rec[a].unchecked :
         /\ Ready(d)
         /\ rec' = [rec EXCEPT ![a].unchecked = @ \ {d},
                               ![a].pc = IF rec[a].unchecked = {d} THEN "rollout" ELSE "gate"]
    /\ UNCHANGED <<ad, ro, queued, served, edits, faults>>

\* Mutant: the reconcile returns without a RequeueAfter.
BlockedForGood(a) ==
    /\ At(a, "gate")
    /\ \E d \in rec[a].unchecked : ~Ready(d)
    /\ rec' = [rec EXCEPT ![a] = Idle]
    /\ UNCHANGED <<ad, ro, queued, served, edits, faults>>

\* The loop meets a dependency that is missing or not Stable: Reconcile returns
\* before it writes anything.
Blocked(a) ==
    /\ At(a, "gate")
    /\ \E d \in rec[a].unchecked : ~Ready(d)
    /\ Requeue(a)
    /\ UNCHANGED <<ad, ro, served, edits, faults>>

\* reconcileRollout, as in AgentReconciler.
ReconcileRollout(a) ==
    /\ At(a, "rollout")
    /\ LET got == Cached(ro[a])
           accepted == IF got.tmpl # 0 THEN InSync(ro[a]) ELSE Stored(ro[a]).tmpl = 0
       IN  IF got.tmpl # rec[a].me.tmpl /\ ~accepted
             THEN Requeue(a) /\ UNCHANGED ro
             ELSE /\ ro' = IF got.tmpl = rec[a].me.tmpl THEN ro
                             ELSE [ro EXCEPT ![a] = Append(@, [got EXCEPT !.tmpl = rec[a].me.tmpl])]
                  /\ rec' = [rec EXCEPT ![a].pc = "status"]
                  /\ UNCHANGED queued
    /\ UNCHANGED <<ad, served, edits, faults>>

\* Mutant: Argo's phase taken as it is.
RolloutPhaseVerbatim(rollout) == rollout.phase

\* mapRolloutPhase; "Pending" also stands for no Rollout found.
MapRolloutPhase(rollout) ==
    CASE rollout.phase = "Healthy"                     -> "Stable"
      [] rollout.phase \in {"Progressing", "Degraded"} -> rollout.phase
      [] OTHER                                         -> "Pending"

\* updateStatus.
UpdateStatus(a) ==
    /\ At(a, "status")
    /\ LET new == [rec[a].me EXCEPT !.phase = MapRolloutPhase(Cached(ro[a]))]
       IN  ad' = IF rec[a].current /\ new # rec[a].me
                   THEN [ad EXCEPT ![a] = Append(@, new)] ELSE ad
    /\ Requeue(a)
    /\ UNCHANGED <<ro, served, edits, faults>>

\* A call of Reconcile failed.
StepFails(a) ==
    /\ ~At(a, "idle")
    /\ Fault
    /\ Requeue(a)
    /\ UNCHANGED <<ad, ro, served, edits>>

\* The operator restarts, lists the objects afresh and queues them all.
Restart ==
    /\ Fault
    /\ ad' = [a \in Agents |-> <<Stored(ad[a])>>]
    /\ ro' = [a \in Agents |-> <<Stored(ro[a])>>]
    /\ rec' = [a \in Agents |-> Idle]
    /\ queued' = {a \in Agents : Stored(ad[a]).tmpl # 0}
    /\ UNCHANGED <<served, edits>>

DeliverAgent(a) ==
    /\ ~InSync(ad[a])
    /\ ad' = [ad EXCEPT ![a] = Tail(@)]
    /\ queued' = queued \cup {a}
    /\ rec' = [b \in Agents |->
                 IF Cached(Tail(ad[a])).phase = "Stable" /\ a \in rec[b].me.deps
                   THEN [rec[b] EXCEPT !.seen = @ \cup {a}] ELSE rec[b]]
    /\ UNCHANGED <<ro, served, edits, faults>>

DeliverRollout(a) ==
    /\ ~InSync(ro[a])
    /\ ro' = [ro EXCEPT ![a] = Tail(@)]
    /\ queued' = queued \cup {a}
    /\ UNCHANGED <<ad, rec, served, edits, faults>>

(***************************************************************************)
(* The user and Argo Rollouts.                                             *)
(***************************************************************************)

UserWrites(a, new) ==
    /\ ad' = [ad EXCEPT ![a] = Append(@, new)]
    /\ rec' = [rec EXCEPT ![a].current = FALSE]
    /\ UNCHANGED <<ro, queued, served, faults>>

CreateAgent(a) ==
    /\ Stored(ad[a]).tmpl = 0
    /\ \E deps \in Choices[a] : UserWrites(a, [NoAgent EXCEPT !.tmpl = 1, !.deps = deps])
    /\ UNCHANGED edits

\* An edit may change the pod template, the dependencies, or both.
EditSpec(a) ==
    /\ Stored(ad[a]).tmpl # 0
    /\ edits < MaxEdits
    /\ edits' = edits + 1
    /\ \E deps \in Choices[a], tmpl \in {Stored(ad[a]).tmpl, Stored(ad[a]).tmpl + 1} :
         LET new == [Stored(ad[a]) EXCEPT !.tmpl = tmpl, !.deps = deps]
         IN  new # Stored(ad[a]) /\ UserWrites(a, new)

ArgoWrites(a, new) ==
    /\ ro' = [ro EXCEPT ![a] = Append(@, new)]
    /\ UNCHANGED <<ad, rec, queued, edits>>

ArgoObserves(a) ==
    /\ Stored(ro[a]).cur # Stored(ro[a]).tmpl
    /\ ArgoWrites(a, [Stored(ro[a]) EXCEPT !.cur = Stored(ro[a]).tmpl, !.phase = "Progressing"])
    /\ UNCHANGED <<served, faults>>

Rolling(a) == Stored(ro[a]).cur = Stored(ro[a]).tmpl /\ Stored(ro[a]).phase = "Progressing"

ArgoPromotes(a) ==
    /\ Rolling(a)
    /\ ArgoWrites(a, [Stored(ro[a]) EXCEPT !.phase = "Healthy"])
    /\ served' = served \cup {a}
    /\ UNCHANGED faults

ArgoAborts(a) ==
    /\ Rolling(a)
    /\ Fault
    /\ ArgoWrites(a, [Stored(ro[a]) EXCEPT !.phase = "Degraded"])
    /\ UNCHANGED served

Controller(a) == \/ Fetch(a) \/ CheckDependency(a) \/ Blocked(a)
                 \/ ReconcileRollout(a) \/ UpdateStatus(a)

Argo(a) == ArgoObserves(a) \/ ArgoPromotes(a) \/ ArgoAborts(a)

Next == \/ \E a \in Agents :
             \/ Controller(a) \/ StepFails(a)
             \/ DeliverAgent(a) \/ DeliverRollout(a)
             \/ CreateAgent(a) \/ EditSpec(a)
             \/ Argo(a)
        \/ Restart

Spec == Init /\ [][Next]_vars

\* Workers and watches keep going, and Argo takes up a template and finishes its
\* rollout one way or the other, as its progress deadline sees to.
Fairness == \A a \in Agents :
              /\ WF_vars(Controller(a))
              /\ WF_vars(DeliverAgent(a))
              /\ WF_vars(DeliverRollout(a))
              /\ WF_vars(Argo(a))

FairSpec == Spec /\ Fairness

(***************************************************************************)
(* Properties.                                                             *)
(***************************************************************************)

\* The variables' types.
TypeOK ==
    /\ ad \in [Agents -> Seq(Specs)] /\ \A a \in Agents : Len(ad[a]) > 0
    /\ ro \in [Agents -> Seq(Rollouts)] /\ \A a \in Agents : Len(ro[a]) > 0
    /\ rec \in [Agents -> Reconciles]
    /\ queued \subseteq Agents /\ served \subseteq Agents
    /\ edits \in 0..MaxEdits /\ faults \in 0..MaxFaults

\* Why the gate works: whatever says that an agent is Stable says so because
\* Argo has promoted it, and a reconcile past the gate has seen nothing less of each of
\* its dependencies.
GateInvariant ==
    \A a \in Agents :
        /\ \A v \in Range(ad[a]) : v.phase = "Stable" => a \in served
        /\ \A v \in Range(ro[a]) : v.phase = "Healthy" => a \in served
        /\ rec[a].seen \subseteq served /\ rec[a].unchecked \subseteq rec[a].me.deps
        /\ \A d \in rec[a].me.deps : Cached(ad[d]).phase = "Stable" => d \in rec[a].seen
        /\ At(a, "gate") => rec[a].me.deps \ rec[a].unchecked \subseteq rec[a].seen
        /\ At(a, "rollout") => rec[a].me.deps \subseteq rec[a].seen

\* A Rollout is created, or given a new template, only by a reconcile that was shown
\* each of its dependencies Stable after it began, if not all at one moment: what an
\* earlier reconcile saw does not count, and an agent no rollout of which was ever
\* promoted is not shown Stable.  How old what the cache shows is, and what becomes of a
\* dependency later, is another matter.
UpstreamStableFirst ==
    [][\A a \in Agents :
         Stored(ro'[a]).tmpl # Stored(ro[a]).tmpl
           => rec[a].me.deps \subseteq rec[a].seen \cap served]_vars

\* "if agent B calls agent A, declare A in B's DependsOn so a degraded A blocks B's
\* canary promotion."
DegradedDependencyBlocksPromotion ==
    [][\A a \in Agents :
         Stored(ro[a]).phase # "Healthy" /\ Stored(ro'[a]).phase = "Healthy"
           => \A d \in Stored(ad[a]).deps : Stored(ad[d]).phase # "Degraded"]_vars

\* A set of agents each waiting for another one of the set: no version of theirs,
\* cached or stored, is Stable and no reconcile of theirs is past the gate.
Stuck(S) ==
    /\ S # {}
    /\ \A a \in S :
         /\ \A v \in Range(ad[a]) : v.phase # "Stable"
         /\ \A v \in Range(ad[a]) : v.tmpl # 0 => v.deps \cap S # {}
         /\ rec[a].pc \in {"idle", "gate"}
         /\ At(a, "gate") => rec[a].unchecked \cap S # {}

SpecUnchanged(a) == /\ Stored(ad'[a]).tmpl = Stored(ad[a]).tmpl
                    /\ Stored(ad'[a]).deps = Stored(ad[a]).deps

\* A dependency cycle is a deadlock: no promotion by Argo, retry or restart ever
\* lets one of its agents through the gate, only an edit of one of their specs.
CycleStaysStuck ==
    [][\A S \in SUBSET Agents :
         Stuck(S) /\ (\A a \in S : SpecUnchanged(a)) => Stuck(S)']_vars

Acyclic ==
    \A S \in SUBSET Agents \ {{}} : \E a \in S : Stored(ad[a]).deps \cap S = {}

AgentServed(a) ==
    /\ Stored(ro[a]).tmpl = Stored(ad[a]).tmpl
    /\ Stored(ro[a]).cur = Stored(ro[a]).tmpl
    /\ Stored(ad[a]).phase = "Stable"

\* Without a cycle, if all agents get created and no rollout stays aborted, every
\* agent ends up rolled out and reported Stable: the RequeueAfter of a blocked
\* reconcile is all it takes.
EventuallyAllServed ==
    /\ \A a \in Agents : <>(Stored(ad[a]).tmpl # 0)
    /\ <>[]Acyclic
    /\ <>[](\A a \in Agents : Stored(ro[a]).phase # "Degraded")
    => <>[](\A a \in Agents : AgentServed(a))

=============================================================================
