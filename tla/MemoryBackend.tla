---------------------------- MODULE MemoryBackend ----------------------------
(***************************************************************************)
(* The Mem0 memory of one agent through its rollouts: step 5.12            *)
(* (reconcileMemoryBackend) between the write of the Rollout (step 4) and  *)
(* the write of the status (step 6), under stale caches, conflicts, Mem0   *)
(* outages and restarts.                                                   *)
(*                                                                         *)
(* A canary's start and failure are not events here: a reconcile compares  *)
(* the phase the status had when it was fetched with the phase the cached  *)
(* Rollout has now, and updateStatus reads the Rollout once more.  Memory  *)
(* is the set of agent versions that wrote some of it.  A reconcile may    *)
(* start at any time: each ends in a RequeueAfter or an error.             *)
(***************************************************************************)
EXTENDS Integers, Sequences, Functions, InformerCache

CONSTANTS
    SnapshotOnPromotion,           \* spec.memory
    RollbackMemoryOnCanaryFail,    \* spec.memory
    MaxEdits,                      \* bound: edits of the spec
    MaxFaults                      \* bound: failed calls, restarts, aborted rollouts

ASSUME OptionsAssumption ==
    SnapshotOnPromotion \in BOOLEAN /\ RollbackMemoryOnCanaryFail \in BOOLEAN
ASSUME BoundsAssumption == MaxEdits \in Nat /\ MaxFaults \in Nat

VARIABLES
    ad,        \* versions of the AgentDeployment, cached first, stored last
    ro,        \* versions of the Rollout
    secret,    \* versions of the snapshot Secret
    memory,    \* the agent versions whose writes the Mem0 session holds
    pc,        \* the step Reconcile takes next
    me,        \* the AgentDeployment copy Reconcile holds
    current,   \* no one has written the AgentDeployment since that copy
    held,      \* the exported or backed-up memory Reconcile holds
    edits, faults,
    before,    \* history: the memory when Argo began the current rollout
    failed     \* history: the agent versions whose rollout was aborted

vars == <<ad, ro, secret, memory, pc, me, current, held, edits, faults, before, failed>>

Phases == {"", "Pending", "Progressing", "Stable", "Degraded"}
RolloutPhases == {"", "Progressing", "Healthy", "Degraded"}
Steps == {"idle", "rollout", "memory", "save", "import", "status"}

\* tmpl: the pod template asked for, which is also its composite version; snap:
\* status.memory.lastMemorySnapshotVersion, 0 while no snapshot is recorded.
Agents == [tmpl : Nat, phase : Phases, snap : Nat]

\* tmpl is 0 while there is no Rollout; stable: the template last promoted.
\* "Progressing" also stands for "Paused".
Rollouts == [tmpl : Nat, cur : Nat, stable : Nat, phase : RolloutPhases]

\* ver: the snapshot-version label, 0 while there is no Secret.
Secrets == [ver : Nat, data : SUBSET Nat]

NewAgent == [tmpl |-> 1, phase |-> "", snap |-> 0]
NoRollout == [tmpl |-> 0, cur |-> 0, stable |-> 0, phase |-> ""]
NoSecret == [ver |-> 0, data |-> {}]

Init ==
    /\ ad = <<NewAgent>>
    /\ ro = <<NoRollout>>
    /\ secret = <<NoSecret>>
    /\ memory = {}
    /\ pc = "idle" /\ me = NewAgent /\ current = FALSE /\ held = {}
    /\ edits = 0 /\ faults = 0
    /\ before = {} /\ failed = {}

(***************************************************************************)
(* The controller.                                                         *)
(***************************************************************************)

Fault == faults < MaxFaults /\ faults' = faults + 1

\* What only the user, Argo and the agent's pods change.
Outside == <<edits, before, failed>>

\* Reconcile returned; it will be called again.
Return == pc' = "idle" /\ me' = NewAgent /\ current' = FALSE /\ held' = {}

Fetch ==
    /\ pc = "idle"
    /\ pc' = "rollout" /\ me' = Cached(ad) /\ current' = InSync(ad)
    /\ UNCHANGED <<ad, ro, secret, memory, held, faults, Outside>>

\* reconcileRollout, as in AgentReconciler.
ReconcileRollout ==
    /\ pc = "rollout"
    /\ LET got == Cached(ro)
           accepted == IF got.tmpl # 0 THEN InSync(ro) ELSE Stored(ro).tmpl = 0
       IN  IF got.tmpl # me.tmpl /\ ~accepted
             THEN Return /\ UNCHANGED ro
             ELSE /\ ro' = IF got.tmpl = me.tmpl THEN ro
                             ELSE Append(ro, [got EXCEPT !.tmpl = me.tmpl])
                  /\ pc' = "memory"
                  /\ UNCHANGED <<me, current, held>>
    /\ UNCHANGED <<ad, secret, memory, faults, Outside>>

\* Mutant: Argo's phase taken as it is.
RolloutPhaseVerbatim(rollout) == rollout.phase

\* mapRolloutPhase; "Pending" also stands for no Rollout found.
MapRolloutPhase(rollout) ==
    CASE rollout.phase = "Healthy"                     -> "Stable"
      [] rollout.phase \in {"Progressing", "Degraded"} -> rollout.phase
      [] OTHER                                         -> "Pending"

LivePhase == MapRolloutPhase(Cached(ro))

\* The canary has started since the status was last written.
CanaryStarted ==
    /\ SnapshotOnPromotion
    /\ me.phase # "Progressing"
    /\ LivePhase = "Progressing"

\* Mutant: the rollout need only have ended.
CanaryEnded ==
    /\ RollbackMemoryOnCanaryFail
    /\ me.phase = "Progressing"
    /\ LivePhase # "Progressing"

\* The canary has failed since the status was last written.
CanaryFailed ==
    /\ RollbackMemoryOnCanaryFail
    /\ me.phase = "Progressing"
    /\ LivePhase = "Degraded"

\* reconcileMemoryBackend finds neither, or no Rollout.
NothingToDo ==
    /\ pc = "memory"
    /\ ~CanaryStarted /\ ~CanaryFailed
    /\ pc' = "status"
    /\ UNCHANGED <<ad, ro, secret, memory, me, current, held, faults, Outside>>

\* Mutant: the error ends the reconcile.
BackendFailureIsFatal ==
    /\ \/ pc = "memory" /\ (CanaryStarted \/ CanaryFailed)
       \/ pc \in {"save", "import"}
    /\ Return
    /\ UNCHANGED <<ad, ro, secret, memory, faults, Outside>>

\* The credentials, Mem0 or the Secret cannot be read, or Mem0 or the API server
\* refuses a write: logged, and the reconcile goes on.  Mem0 may be down for good.
BackendFails ==
    /\ \/ pc = "memory" /\ (CanaryStarted \/ CanaryFailed)
       \/ pc \in {"save", "import"}
    /\ pc' = "status" /\ held' = {}
    /\ UNCHANGED <<ad, ro, secret, memory, me, current, faults, Outside>>

\* takeMemorySnapshot: mem0ExportMemory.
Export ==
    /\ pc = "memory" /\ CanaryStarted
    /\ held' = memory
    /\ pc' = "save"
    /\ UNCHANGED <<ad, ro, secret, memory, me, current, faults, Outside>>

\* Mutant: the snapshot is recorded before the Secret is written.
SaveSnapshotRecordedFirst ==
    /\ pc = "save"
    /\ LET accepted == IF Cached(secret).ver = 0 THEN Stored(secret).ver = 0 ELSE InSync(secret)
       IN  secret' = IF accepted THEN Append(secret, [ver |-> me.tmpl, data |-> held]) ELSE secret
    /\ me' = [me EXCEPT !.snap = me.tmpl]
    /\ pc' = "status" /\ held' = {}
    /\ UNCHANGED <<ad, ro, memory, current, faults, Outside>>

\* Mutant: the snapshot is labelled with the version that serves.
SaveSnapshotOfStable ==
    /\ pc = "save"
    /\ LET accepted == IF Cached(secret).ver = 0 THEN Stored(secret).ver = 0 ELSE InSync(secret)
           label == IF Cached(ro).stable = 0 THEN me.tmpl ELSE Cached(ro).stable
       IN  IF accepted
             THEN /\ secret' = Append(secret, [ver |-> label, data |-> held])
                  /\ me' = [me EXCEPT !.snap = label]
             ELSE UNCHANGED <<secret, me>>
    /\ pc' = "status" /\ held' = {}
    /\ UNCHANGED <<ad, ro, memory, current, faults, Outside>>

\* The Secret is created or updated as the cache has it: AlreadyExists or a
\* conflict loses the snapshot.
SaveSnapshot ==
    /\ pc = "save"
    /\ LET accepted == IF Cached(secret).ver = 0 THEN Stored(secret).ver = 0 ELSE InSync(secret)
       IN  IF accepted
             THEN /\ secret' = Append(secret, [ver |-> me.tmpl, data |-> held])
                  /\ me' = [me EXCEPT !.snap = me.tmpl]
             ELSE UNCHANGED <<secret, me>>
    /\ pc' = "status" /\ held' = {}
    /\ UNCHANGED <<ad, ro, memory, current, faults, Outside>>

\* restoreMemorySnapshot up to the import: no snapshot recorded, or no Secret in
\* the cache, and there is nothing to restore.
ReadSnapshot ==
    /\ pc = "memory" /\ CanaryFailed
    /\ IF me.snap = 0 \/ Cached(secret).ver = 0
         THEN pc' = "status" /\ UNCHANGED held
         ELSE pc' = "import" /\ held' = Cached(secret).data
    /\ UNCHANGED <<ad, ro, secret, memory, me, current, faults, Outside>>

\* mem0ImportMemory; an answer lost on the way changes nothing but the log.
Import ==
    /\ pc = "import"
    /\ memory' = held
    /\ pc' = "status" /\ held' = {}
    /\ UNCHANGED <<ad, ro, secret, me, current, faults, Outside>>

\* Mutant: the API server takes a write whatever its resourceVersion.
UpdateStatusUnchecked ==
    /\ pc = "status"
    /\ LET new == [me EXCEPT !.phase = LivePhase]
       IN  ad' = IF new # Stored(ad) THEN Append(ad, new) ELSE ad
    /\ Return
    /\ UNCHANGED <<ro, secret, memory, faults, Outside>>

\* updateStatus: the Rollout is read a second time.
UpdateStatus ==
    /\ pc = "status"
    /\ LET new == [me EXCEPT !.phase = LivePhase]
       IN  ad' = IF current /\ new # Stored(ad) THEN Append(ad, new) ELSE ad
    /\ Return
    /\ UNCHANGED <<ro, secret, memory, faults, Outside>>

\* Another step of Reconcile failed.
StepFails ==
    /\ pc \in {"rollout", "status"}
    /\ Fault
    /\ Return
    /\ UNCHANGED <<ad, ro, secret, memory, Outside>>

\* The operator restarts and lists the objects afresh.
Restart ==
    /\ Fault
    /\ ad' = <<Stored(ad)>> /\ ro' = <<Stored(ro)>> /\ secret' = <<Stored(secret)>>
    /\ Return
    /\ UNCHANGED <<memory, Outside>>

DeliverAgent ==
    /\ ~InSync(ad) /\ ad' = Tail(ad)
    /\ UNCHANGED <<ro, secret, memory, pc, me, current, held, faults, Outside>>

DeliverRollout ==
    /\ ~InSync(ro) /\ ro' = Tail(ro)
    /\ UNCHANGED <<ad, secret, memory, pc, me, current, held, faults, Outside>>

DeliverSecret ==
    /\ ~InSync(secret) /\ secret' = Tail(secret)
    /\ UNCHANGED <<ad, ro, memory, pc, me, current, held, faults, Outside>>

(***************************************************************************)
(* The user, Argo Rollouts and the agent's pods.                           *)
(***************************************************************************)

EditSpec ==
    /\ edits < MaxEdits
    /\ edits' = edits + 1
    /\ ad' = Append(ad, [Stored(ad) EXCEPT !.tmpl = @ + 1])
    /\ current' = FALSE
    /\ UNCHANGED <<ro, secret, memory, pc, me, held, faults, before, failed>>

ArgoWrites(new) ==
    /\ ro' = Append(ro, new)
    /\ UNCHANGED <<ad, secret, memory, pc, me, current, held, edits>>

ArgoObserves ==
    /\ Stored(ro).cur # Stored(ro).tmpl
    /\ ArgoWrites([Stored(ro) EXCEPT !.cur = Stored(ro).tmpl, !.phase = "Progressing"])
    /\ before' = memory
    /\ UNCHANGED <<faults, failed>>

Rolling == Stored(ro).cur = Stored(ro).tmpl /\ Stored(ro).phase = "Progressing"

ArgoPromotes ==
    /\ Rolling
    /\ ArgoWrites([Stored(ro) EXCEPT !.stable = Stored(ro).cur, !.phase = "Healthy"])
    /\ UNCHANGED <<faults, before, failed>>

ArgoAborts ==
    /\ Rolling
    /\ Fault
    /\ ArgoWrites([Stored(ro) EXCEPT !.phase = "Degraded"])
    /\ failed' = failed \cup {Stored(ro).cur}
    /\ UNCHANGED before

\* The versions that have pods.
Running == {Stored(ro).stable} \cup (IF Rolling THEN {Stored(ro).cur} ELSE {})

\* A pod writes to its memory, the canary's to the same session as the others'.
Remember ==
    /\ \E v \in Running \ ({0} \cup memory) : memory' = memory \cup {v}
    /\ UNCHANGED <<ad, ro, secret, pc, me, current, held, faults, Outside>>

Controller ==
    \/ Fetch \/ ReconcileRollout \/ NothingToDo \/ BackendFails
    \/ Export \/ SaveSnapshot \/ ReadSnapshot \/ Import \/ UpdateStatus

Next ==
    \/ Controller \/ StepFails \/ Restart
    \/ DeliverAgent \/ DeliverRollout \/ DeliverSecret
    \/ EditSpec \/ ArgoObserves \/ ArgoPromotes \/ ArgoAborts \/ Remember

Spec == Init /\ [][Next]_vars

\* The worker and the watches keep going.  Nothing is asked of Mem0.
Fairness == /\ WF_vars(Controller)
            /\ WF_vars(DeliverAgent) /\ WF_vars(DeliverRollout)

FairSpec == Spec /\ Fairness

(***************************************************************************)
(* Properties.                                                             *)
(***************************************************************************)

\* The variables' types.
TypeOK ==
    /\ ad \in Seq(Agents) /\ Len(ad) > 0
    /\ ro \in Seq(Rollouts) /\ Len(ro) > 0
    /\ secret \in Seq(Secrets) /\ Len(secret) > 0
    /\ memory \subseteq Nat
    /\ pc \in Steps /\ me \in Agents /\ current \in BOOLEAN /\ held \subseteq Nat
    /\ edits \in 0..MaxEdits /\ faults \in 0..MaxFaults
    /\ before \subseteq Nat /\ failed \subseteq Nat

\* A snapshot the status tells of, in any copy however fresh, is in the Secret, or
\* a later one is: the Secret is written first, and never by an older reconcile.
SnapshotBacksStatus ==
    /\ \A v \in Range(ad) : v.snap <= Stored(secret).ver
    /\ me.snap <= Stored(secret).ver

\* A snapshot labelled with a version holds no memory of a later one: restored when
\* that version fails, it cannot bring back what a later canary wrote.
LabelBoundsContent ==
    \A s \in Range(secret) : \A v \in s.data : v <= s.ver

Ascending(obj) == \A i, j \in 1..Len(obj) : i <= j => obj[i].tmpl <= obj[j].tmpl

\* Versions only move forward from cache to store, and neither the Rollout nor the
\* Secret is ahead of the spec a reconcile works on.
InOrder ==
    /\ Ascending(ad) /\ Ascending(ro)
    /\ current => InSync(ad) /\ me.tmpl = Stored(ad).tmpl
    /\ \A v \in Range(ro) : v.cur <= v.tmpl /\ v.stable <= v.cur
    /\ Stored(ro).tmpl <= Cached(ad).tmpl
    /\ \A v \in Range(secret) : v.ver <= Stored(ro).tmpl
    /\ pc # "idle" => me.tmpl <= Cached(ad).tmpl /\ Stored(ro).tmpl <= me.tmpl
    /\ pc \notin {"idle", "rollout"} => Stored(ro).tmpl = me.tmpl

\* What is remembered, or about to be, was written by versions rolled out so far.
MemoryInOrder == \A v \in memory \cup held : v <= Stored(ro).tmpl

\* An aborted rollout precedes whatever follows from one.
FailureFirst ==
    failed = {} => pc # "import" /\ \A v \in Range(ro) : v.phase # "Degraded"

\* Why the snapshots can be relied on: all of it together is inductive.
Inductive ==
    /\ InOrder /\ MemoryInOrder /\ FailureFirst
    /\ SnapshotBacksStatus /\ LabelBoundsContent

\* As long as no rollout was aborted nothing the agent remembers is ever lost,
\* however stale the phases compared and however often a reconcile is repeated.
NothingLostWithoutFailure == [][failed = {} => memory \subseteq memory']_vars

\* A backend that is down, for a while or for good, keeps nobody from learning how
\* the rollout ended ("memory backend failures must never block rollouts").
BackendNeverBlocks == <>[](Stored(ad).phase = MapRolloutPhase(Stored(ro)))

\* RollbackMemoryOnCanaryFail: "restores the pre-canary memory snapshot when a
\* canary rollout fails": what the version the rollout falls back to had written to
\* memory when the canary began is not lost by the restore.
PreCanaryMemoryRestored ==
    [][pc = "import" =>
         \A v \in before \cap memory : v = Stored(ro).stable => v \in memory']_vars

=============================================================================
