------------------------ MODULE AgentReconcilerProofs ------------------------
(***************************************************************************)
(* Proofs about AgentReconciler, for every set of specs, every composite   *)
(* version function and every bound.                                       *)
(***************************************************************************)
EXTENDS AgentReconciler, InformerCacheProofs, TLAPS

(***************************************************************************)
(* Type correctness.                                                       *)
(***************************************************************************)

\* The objects that are not there have the type of the ones that are.
LEMMA NoneTypes == NoAgent \in Agents /\ NoRollout \in Rollouts
  BY DEF NoAgent, NoRollout, Agents, Rollouts, Phases, RolloutPhases

\* What the controller writes has the type of what it read.
LEMMA WriteTypes ==
    ASSUME me \in Agents, NEW r \in Rollouts
    PROVE  /\ [me EXCEPT !.fin = TRUE] \in Agents
           /\ [me EXCEPT !.fin = FALSE, !.live = FALSE] \in Agents
           /\ Gone(r) \in Rollouts
           /\ Desired(r) \in Rollouts
  BY DEF Agents, Rollouts, Gone, Desired, NoRollout, Phases, RolloutPhases

\* What the user and Argo write.
LEMMA EditTypes ==
    ASSUME NEW a \in Agents
    PROVE  /\ \A s \in Specs : [a EXCEPT !.spec = s, !.gen = @ + 1] \in Agents
           /\ [a EXCEPT !.deleting = TRUE, !.gen = @ + 1] \in Agents
           /\ [a EXCEPT !.live = FALSE] \in Agents
<1>0. a.gen + 1 \in Nat
  BY DEF Agents
<1>. DEFINE g == a.gen + 1
<1>. g \in Nat
  BY <1>0
<1>. HIDE DEF g
<1>1. \A s \in Specs : [a EXCEPT !.spec = s, !.gen = g] \in Agents
  BY NoneAssumption DEF Agents
<1>2. [a EXCEPT !.deleting = TRUE, !.gen = g] \in Agents
  BY DEF Agents
<1>3. [a EXCEPT !.live = FALSE] \in Agents
  BY DEF Agents
<1> QED
  BY <1>1, <1>2, <1>3 DEF g

\* What the optimizer's patch makes of a version: only the spec and the generation change.
LEMMA PatchFacts ==
    ASSUME TypeOK, PatchSpec
    PROVE  /\ me' \in Agents /\ ad' = Append(ad, me') /\ Stored(ad') = me'
           /\ me'.live /\ Stored(ad).live
           /\ me'.gen = Stored(ad).gen + 1 /\ me'.obs = Stored(ad).obs
           /\ me'.fin = Stored(ad).fin /\ me'.deleting = Stored(ad).deleting
<1>0. Stored(ad) \in Agents
  BY EndFacts DEF TypeOK
<1>1. PICK s \in Specs : me' = [Stored(ad) EXCEPT !.spec = s, !.gen = @ + 1]
  <2>1. Stored(ad).spec \in Specs
    BY <1>0 DEF PatchSpec, Agents
  <2> QED
    BY <2>1, WithExperimentAssumption DEF PatchSpec
<1>. DEFINE x == [Stored(ad) EXCEPT !.spec = s, !.gen = @ + 1]
<1>2. x \in Agents
  BY <1>0, EditTypes
<1>3. /\ x.live = Stored(ad).live /\ x.gen = Stored(ad).gen + 1
      /\ x.obs = Stored(ad).obs /\ x.fin = Stored(ad).fin
      /\ x.deleting = Stored(ad).deleting
  BY <1>0 DEF Agents
<1>4. me' = x /\ ad' = Append(ad, me') /\ Stored(ad).live
  BY <1>1 DEF PatchSpec
<1>. HIDE DEF x
<1>5. Stored(ad') = me'
  BY <1>2, <1>4, AppendFacts DEF TypeOK
<1> QED
  BY <1>2, <1>3, <1>4, <1>5

\* The versions Argo writes are Rollouts.
LEMMA ArgoTypes ==
    ASSUME NEW r \in Rollouts
    PROVE  /\ [r EXCEPT !.cur = r.tmpl, !.phase = "Progressing"] \in Rollouts
           /\ [r EXCEPT !.phase = "Paused"] \in Rollouts
           /\ [r EXCEPT !.stable = r.cur, !.phase = "Healthy"] \in Rollouts
           /\ [r EXCEPT !.phase = "Degraded"] \in Rollouts
  BY DEF Rollouts, RolloutPhases

\* Argo writes the status of a Rollout only.
LEMMA ArgoKeeps ==
    ASSUME NEW r \in Rollouts, NEW s
    PROVE  /\ \A c : /\ [r EXCEPT !.cur = c, !.phase = s].from = r.from
                   /\ [r EXCEPT !.cur = c, !.phase = s].live = r.live
                   /\ [r EXCEPT !.stable = c, !.phase = s].from = r.from
                   /\ [r EXCEPT !.stable = c, !.phase = s].live = r.live
           /\ [r EXCEPT !.phase = s].from = r.from
           /\ [r EXCEPT !.phase = s].live = r.live
  BY DEF Rollouts

\* A step of Argo is one write of the stored Rollout, which stays live and keeps
\* the generation its spec was made from.
LEMMA ArgoStep ==
    ASSUME Argo, Stored(ro) \in Rollouts
    PROVE  \E r \in Rollouts : /\ ArgoWrites(r)
                               /\ r.from = Stored(ro).from
                               /\ r.live = Stored(ro).live
<1> DEFINE r == Stored(ro)
<1>1. CASE ArgoObserves
  <2>1. [r EXCEPT !.cur = r.tmpl, !.phase = "Progressing"] \in Rollouts
    BY ArgoTypes
  <2>2. /\ [r EXCEPT !.cur = r.tmpl, !.phase = "Progressing"].from = r.from
        /\ [r EXCEPT !.cur = r.tmpl, !.phase = "Progressing"].live = r.live
    BY ArgoKeeps
  <2>3. ArgoWrites([r EXCEPT !.cur = r.tmpl, !.phase = "Progressing"])
    BY <1>1 DEF ArgoObserves
  <2> QED
    BY <2>1, <2>2, <2>3
<1>2. CASE ArgoPauses
  BY <1>2, ArgoTypes, ArgoKeeps DEF ArgoPauses
<1>3. CASE ArgoPromotes
  <2>1. [r EXCEPT !.stable = r.cur, !.phase = "Healthy"] \in Rollouts
    BY ArgoTypes
  <2>2. /\ [r EXCEPT !.stable = r.cur, !.phase = "Healthy"].from = r.from
        /\ [r EXCEPT !.stable = r.cur, !.phase = "Healthy"].live = r.live
    BY ArgoKeeps
  <2>3. ArgoWrites([r EXCEPT !.stable = r.cur, !.phase = "Healthy"])
    BY <1>3 DEF ArgoPromotes
  <2> QED
    BY <2>1, <2>2, <2>3
<1>4. CASE ArgoAborts
  BY <1>4, ArgoTypes, ArgoKeeps DEF ArgoAborts
<1> QED
  BY <1>1, <1>2, <1>3, <1>4 DEF Argo

\* The status updateStatus computes: a phase, a version and a generation.
LEMMA StatusType ==
    ASSUME me \in Agents, me.live, version \in Versions \cup {None},
           NEW r \in Rollouts, NEW labelRead \in BOOLEAN
    PROVE  /\ NewStatus(r, labelRead) \in Agents
           /\ NewStatus(r, labelRead).live
           /\ NewStatus(r, labelRead).gen = me.gen
           /\ NewStatus(r, labelRead).obs = me.gen
           /\ NewStatus(r, labelRead).fin = me.fin
           /\ NewStatus(r, labelRead).deleting = me.deleting
<1>1. MapRolloutPhase(r.phase) \in Phases
  BY DEF MapRolloutPhase, Phases
<1>2. NextStableVersion(r, labelRead) \in Versions \cup {None}
  BY CompositeVersionAssumption DEF NextStableVersion, Agents, Rollouts
<1>3. "Pending" \in Phases
  BY DEF Phases
<1> QED
  BY <1>1, <1>2, <1>3 DEF NewStatus, Agents

\* Every version either object ever has is one the API server can store, and
\* Reconcile is always between two of its API calls, with a live copy in memory.
THEOREM TypeInvariant == Spec => []TypeOK
<1>1. Init => TypeOK
  <2> SUFFICES ASSUME Init PROVE TypeOK
    OBVIOUS
  <2>1. PICK s \in Specs :
          ad = <<NoAgent, [NoAgent EXCEPT !.live = TRUE, !.gen = 1, !.spec = s]>>
    BY DEF Init
  <2>2. [NoAgent EXCEPT !.live = TRUE, !.gen = 1, !.spec = s] \in Agents
    BY NoneAssumption DEF NoAgent, Agents, Phases
  <2>3. ad \in Seq(Agents) /\ Len(ad) > 0
    BY <2>1, <2>2, NoneTypes
  <2>4. ro \in Seq(Rollouts) /\ Len(ro) > 0
    BY NoneTypes DEF Init
  <2> QED
    <3>1. /\ pc = "idle" /\ me = NoAgent /\ version = None /\ current = FALSE
          /\ queued = FALSE /\ timer = FALSE /\ used = 0
      BY DEF Init
    <3>2. 0 \in 0..MaxPerturbations
      BY BoundsAssumption
    <3> QED
      BY <2>3, <2>4, <3>1, <3>2, NoneTypes DEF TypeOK, Steps
<1>2. TypeOK /\ [Next]_vars => TypeOK'
  <2> SUFFICES ASSUME TypeOK, [Next]_vars PROVE TypeOK'
    OBVIOUS
  <2>0. /\ Stored(ad) \in Agents /\ Cached(ad) \in Agents
        /\ Stored(ro) \in Rollouts /\ Cached(ro) \in Rollouts
        /\ used \in Nat /\ MaxPerturbations \in Nat
    BY EndFacts, BoundsAssumption DEF TypeOK
  <2>A. ASSUME NEW x \in Agents
        PROVE  Append(ad, x) \in Seq(Agents) /\ Len(Append(ad, x)) > 0
    BY AppendFacts DEF TypeOK
  <2>R. ASSUME NEW x \in Rollouts
        PROVE  Append(ro, x) \in Seq(Rollouts) /\ Len(Append(ro, x)) > 0
    BY AppendFacts DEF TypeOK
  <2>1. CASE Fetch
    <3>1. Cached(ad).live => CompositeVersion[Cached(ad).spec] \in Versions
      BY <2>0, CompositeVersionAssumption DEF Agents
    <3> QED
      BY <2>1, <2>0, <3>1, NoneTypes DEF Fetch, FirstStep, Return, TypeOK, Steps, InSync
  <2>2. CASE AddFinalizer
    <3>1. [me EXCEPT !.fin = TRUE] \in Agents /\ [me EXCEPT !.fin = TRUE].live = me.live
      BY <2>2 DEF TypeOK, Agents
    <3> QED
      BY <2>2, <2>A, <3>1, NoneTypes DEF AddFinalizer, Retry, Return, TypeOK, Steps
  <2>3. CASE ReconcileRollout
    BY <2>3, <2>0, <2>R, WriteTypes, NoneTypes
       DEF ReconcileRollout, Retry, Return, TypeOK, Steps
  <2>4. CASE UpdateStatus
    <3>1. PICK labelRead \in BOOLEAN, tick \in BOOLEAN :
            /\ used' = used + (IF labelRead THEN 0 ELSE 1) + (IF tick THEN 1 ELSE 0)
            /\ used' <= MaxPerturbations
            /\ ad' \in {ad, Append(ad, NewStatus(Cached(ro), labelRead))}
            /\ Return
            /\ queued' \in {queued, TRUE}
            /\ timer' \in {timer, TRUE}
            /\ ro' = ro
      BY <2>4 DEF UpdateStatus, Retry
    <3>2. NewStatus(Cached(ro), labelRead) \in Agents
      BY <2>0, <2>4, StatusType DEF TypeOK, UpdateStatus
    <3>3. used' \in 0..MaxPerturbations
      BY <2>0, <3>1 DEF TypeOK
    <3>4. ad' \in Seq(Agents) /\ Len(ad') > 0
      BY <2>A, <3>1, <3>2 DEF TypeOK
    <3> QED
      BY <3>1, <3>3, <3>4, NoneTypes DEF Return, TypeOK, Steps
  <2>5. CASE CleanUp
    BY <2>5, <2>0, <2>R, WriteTypes DEF CleanUp, TypeOK, Steps
  <2>6. CASE Release
    BY <2>6, <2>A, WriteTypes, NoneTypes DEF Release, Retry, Return, TypeOK, Steps
  <2>U. used < MaxPerturbations => used + 1 \in 0..MaxPerturbations
    BY <2>0 DEF TypeOK
  <2>7. CASE StepFails
    BY <2>7, <2>U, NoneTypes DEF StepFails, Retry, Return, TypeOK, Steps
  <2>8. CASE Restart
    <3>1. /\ <<Stored(ad)>> \in Seq(Agents) /\ Len(<<Stored(ad)>>) > 0
          /\ <<Stored(ro)>> \in Seq(Rollouts) /\ Len(<<Stored(ro)>>) > 0
      BY <2>0, SingleFacts
    <3> QED
      BY <2>8, <2>U, <3>1, NoneTypes DEF Restart, Retry, Return, TypeOK, Steps
  <2>9. CASE RequeueTimer
    BY <2>9 DEF RequeueTimer, TypeOK
  <2>10. CASE DeliverAgent
    BY <2>10, TailFacts DEF DeliverAgent, TypeOK
  <2>11. CASE DeliverRollout
    BY <2>11, TailFacts DEF DeliverRollout, TypeOK
  <2>12. CASE EditSpec
    <3>1. PICK s \in Specs :
            ad' = Append(ad, [Stored(ad) EXCEPT !.spec = s, !.gen = @ + 1])
      BY <2>12 DEF EditSpec
    <3>2. [Stored(ad) EXCEPT !.spec = s, !.gen = @ + 1] \in Agents
      BY <2>0, EditTypes
    <3> QED
      BY <2>12, <2>A, <3>1, <3>2 DEF EditSpec, TypeOK
  <2>13. CASE DeleteAgent
    <3>1. /\ [Stored(ad) EXCEPT !.deleting = TRUE, !.gen = @ + 1] \in Agents
          /\ [Stored(ad) EXCEPT !.live = FALSE] \in Agents
      BY <2>0, EditTypes
    <3> QED
      BY <2>13, <2>A, <3>1 DEF DeleteAgent, TypeOK
  <2>14. CASE Argo
    <3>1. PICK r \in Rollouts : ArgoWrites(r)
      BY <2>0, <2>14, ArgoStep
    <3> QED
      BY <2>R, <3>1 DEF ArgoWrites, TypeOK
  <2>15. CASE RolloutRemoved
    BY <2>15, <2>0, <2>R, <2>U, WriteTypes DEF RolloutRemoved, TypeOK
  <2>16. CASE PatchSpec
    <3>1. me' \in Agents /\ me'.live /\ ad' = Append(ad, me')
      BY <2>16, PatchFacts
    <3> QED
      BY <2>16, <2>A, <2>U, <3>1 DEF PatchSpec, TypeOK
  <2>17. CASE UNCHANGED vars
    BY <2>17 DEF vars, TypeOK
  <2> QED
    BY <2>1, <2>2, <2>3, <2>4, <2>5, <2>6, <2>7, <2>8, <2>9, <2>10, <2>11, <2>12,
       <2>13, <2>14, <2>15, <2>16, <2>17 DEF Next, Controller, Informers, Environment
<1> QED
  BY <1>1, <1>2, PTL DEF Spec

(***************************************************************************)
(* The inductive invariant.                                                *)
(***************************************************************************)

\* A version with no smaller generation keeps the versions ordered.
LEMMA OrderedAppend ==
    ASSUME TypeOK, GenerationsOrdered, NEW x \in Agents, ad' = Append(ad, x),
           Stored(ad).gen <= x.gen, x.obs <= x.gen
    PROVE  /\ GenerationsOrdered'
           /\ \A n \in Nat : (\A i \in 1..Len(ad) : n <= ad[i].gen)
                             => \A i \in 1..Len(ad') : n <= ad'[i].gen
<1>1. /\ Len(ad') = Len(ad) + 1
      /\ ad'[Len(ad) + 1] = x
      /\ \A i \in 1..Len(ad) : ad'[i] = ad[i]
      /\ Len(ad) \in Nat /\ Len(ad) \in 1..Len(ad)
      /\ Stored(ad) = ad[Len(ad)]
      /\ x.gen \in Nat
      /\ \A i \in 1..Len(ad) : ad[i].gen \in Nat
  BY AppendFacts DEF TypeOK, Stored, Agents
<1>2. \A i \in 1..Len(ad) : ad[i].gen <= x.gen
  BY <1>1 DEF GenerationsOrdered
<1>3. \A i, j \in 1..Len(ad') : i <= j => ad'[i].gen <= ad'[j].gen
  BY <1>1, <1>2 DEF GenerationsOrdered
<1>4. \A i \in 1..Len(ad') : ad'[i].obs <= ad'[i].gen
  BY <1>1 DEF GenerationsOrdered
<1>5. ASSUME NEW n \in Nat, \A i \in 1..Len(ad) : n <= ad[i].gen
      PROVE  \A i \in 1..Len(ad') : n <= ad'[i].gen
  BY <1>1, <1>2, <1>5
<1> QED
  BY <1>3, <1>4, <1>5 DEF GenerationsOrdered

\* A version that keeps the finalizer of the stored one keeps FinalizerKept.
LEMMA FinalizerAppend ==
    ASSUME TypeOK, FinalizerKept, Stored(ad).live,
           NEW x \in Agents, ad' = Append(ad, x),
           x.live, Stored(ad).fin => x.fin
    PROVE  FinalizerKept'
<1>1. /\ Len(ad') = Len(ad) + 1
      /\ Stored(ad') = x
      /\ ad'[Len(ad) + 1] = x
      /\ \A i \in 1..Len(ad) : ad'[i] = ad[i]
      /\ Len(ad) \in Nat
  BY AppendFacts DEF TypeOK, Stored
<1> QED
  BY <1>1 DEF FinalizerKept

\* A step that leaves the AgentDeployment, the copy and the program counter
\* alone, and only the Rollout's spec or existence, cannot hurt.
LEMMA RolloutSideStep ==
    ASSUME Inductive, UNCHANGED <<ad, pc, me, current>>,
           Stored(ro').from = Stored(ro).from, Stored(ro').live => Stored(ro).live
    PROVE  Inductive'
  BY DEF Inductive, GenerationsOrdered, RolloutBehindCache, CopyCurrent,
         FinalizerKept, BranchTaken, FinalizerGuardsRollout, InSync, Stored

\* Neither can giving the key back.
LEMMA ReturnStep ==
    ASSUME Inductive, Return, UNCHANGED <<ad, ro>>
    PROVE  Inductive'
  BY DEF Return, Inductive, GenerationsOrdered, RolloutBehindCache, CopyCurrent,
         FinalizerKept, BranchTaken, FinalizerGuardsRollout, InSync, Stored

\* A new AgentDeployment that nobody has reconciled yet satisfies the invariant.
LEMMA InductiveInit == Init => Inductive
<1> SUFFICES ASSUME Init PROVE Inductive
  OBVIOUS
<1>1. PICK s \in Specs :
        ad = <<NoAgent, [NoAgent EXCEPT !.live = TRUE, !.gen = 1, !.spec = s]>>
  BY DEF Init
<1>2. /\ Len(ad) = 2
      /\ ad[1].gen = 0 /\ ad[1].obs = 0 /\ ~ad[1].live
      /\ ad[2].gen = 1 /\ ad[2].obs = 0 /\ ad[2].live /\ ~ad[2].fin
      /\ Stored(ad) = ad[2]
  BY <1>1 DEF NoAgent, Stored
<1>3. Stored(ro).from = 0 /\ ~Stored(ro).live /\ pc = "idle" /\ current = FALSE
  BY DEF Init, Stored, NoRollout
<1>4. \A i \in 1..Len(ad) : i = 1 \/ i = 2
  BY <1>2
<1>5. GenerationsOrdered
  BY <1>2, <1>4 DEF GenerationsOrdered
<1>6. RolloutBehindCache
  BY <1>2, <1>3, <1>4 DEF RolloutBehindCache
<1>7. FinalizerKept
  BY <1>2, <1>4 DEF FinalizerKept
<1> QED
  BY <1>3, <1>5, <1>6, <1>7
     DEF Inductive, CopyCurrent, BranchTaken, FinalizerGuardsRollout

\* Every API call of Reconcile, event, restart and step of the user and of Argo
\* preserves the inductive invariant.
LEMMA InductiveNext == TypeOK /\ Inductive /\ [Next]_vars => Inductive'
<1> SUFFICES ASSUME TypeOK, Inductive, [Next]_vars PROVE Inductive'
  OBVIOUS
<1> USE DEF Inductive
<1>0. /\ Stored(ad) \in Agents /\ Cached(ad) \in Agents /\ Cached(ad) = ad[1]
      /\ Stored(ro) \in Rollouts /\ Cached(ro) \in Rollouts
      /\ 1 \in 1..Len(ad) /\ Len(ad) \in 1..Len(ad) /\ Len(ad) \in Nat
      /\ \A i \in 1..Len(ad) : ad[i] \in Agents /\ ad[i].gen \in Nat /\ ad[i].obs \in Nat
      /\ me.gen \in Nat /\ Stored(ro).from \in Nat
      /\ Stored(ad).obs <= Stored(ad).gen
  <2>1. /\ Stored(ad) \in Agents /\ Cached(ad) \in Agents /\ Cached(ad) = ad[1]
        /\ Stored(ro) \in Rollouts /\ Cached(ro) \in Rollouts
        /\ 1 \in 1..Len(ad) /\ Len(ad) \in 1..Len(ad) /\ Len(ad) \in Nat
    BY EndFacts DEF TypeOK
  <2>2. \A i \in 1..Len(ad) : ad[i] \in Agents
    BY DEF TypeOK
  <2>3. \A a \in Agents : a.gen \in Nat /\ a.obs \in Nat
    BY DEF Agents
  <2>4. me.gen \in Nat /\ Stored(ro).from \in Nat
    BY <2>1, <2>3 DEF TypeOK, Rollouts
  <2>5. Stored(ad).obs <= Stored(ad).gen
    BY <2>1 DEF GenerationsOrdered, Stored
  <2> QED
    BY <2>1, <2>2, <2>3, <2>4, <2>5
<1>1. CASE Fetch
  <2>1. CASE Return
    BY <1>1, <2>1, ReturnStep DEF Fetch
  <2>2. CASE ~Return
    <3>1. /\ ad' = ad /\ ro' = ro /\ me' = ad[1] /\ current' = InSync(ad)
          /\ ad[1].live
          /\ \/ pc' = "cleanup" /\ ad[1].deleting
             \/ pc' = "rollout" /\ ad[1].fin /\ ~ad[1].deleting
             \/ pc' = "finalizer"
      BY <1>0, <1>1, <2>2 DEF Fetch, FirstStep
    <3>2. RolloutBehindCache'
      BY <1>0, <3>1 DEF RolloutBehindCache, GenerationsOrdered, Stored
    <3>3. CopyCurrent'
      BY <3>1 DEF CopyCurrent, InSync, Stored
    <3>4. BranchTaken'
      BY <1>0, <3>1 DEF BranchTaken, FinalizerKept, Stored
    <3> QED
      BY <3>1, <3>2, <3>3, <3>4
         DEF GenerationsOrdered, FinalizerKept, FinalizerGuardsRollout, Stored
  <2> QED
    BY <2>1, <2>2
<1>2. CASE AddFinalizer
  <2>1. CASE ~current
    BY <1>2, <2>1, ReturnStep DEF AddFinalizer, Retry
  <2>2. CASE current
    <3> DEFINE x == [me EXCEPT !.fin = TRUE]
    <3>1. /\ ad' = Append(ad, x) /\ me' = x /\ pc' = "rollout" /\ ro' = ro
          /\ current' = current /\ me = Stored(ad) /\ me.live
      BY <1>2, <2>2 DEF AddFinalizer, CopyCurrent, TypeOK
    <3>2. /\ x \in Agents /\ x.gen = me.gen /\ x.obs = me.obs /\ x.live /\ x.fin
      BY <3>1 DEF TypeOK, Agents
    <3> HIDE DEF x
    <3>3. /\ GenerationsOrdered'
          /\ \A i \in 1..Len(ad') : Stored(ro).from <= ad'[i].gen
          /\ \A i \in 1..Len(ad') : me.gen <= ad'[i].gen
      BY <1>0, <1>2, <3>1, <3>2, OrderedAppend DEF RolloutBehindCache, AddFinalizer
    <3>4. FinalizerKept'
      BY <3>1, <3>2, FinalizerAppend
    <3>5. Stored(ad') = x
      BY <3>1, <3>2, AppendFacts DEF TypeOK
    <3>6. Stored(ro') = Stored(ro) /\ Stored(ro).from <= x.gen
      BY <1>2, <3>1, <3>2 DEF RolloutBehindCache, AddFinalizer
    <3> QED
      BY <3>1, <3>2, <3>3, <3>4, <3>5, <3>6
         DEF RolloutBehindCache, CopyCurrent, BranchTaken, FinalizerGuardsRollout, Stored
  <2> QED
    BY <2>1, <2>2 DEF TypeOK
<1>3. CASE ReconcileRollout
  <2>1. CASE pc' = "status" /\ ro' = ro /\ UNCHANGED <<me, current>>
    BY <1>3, <2>1 DEF ReconcileRollout, GenerationsOrdered, RolloutBehindCache,
         CopyCurrent, FinalizerKept, BranchTaken, FinalizerGuardsRollout, Stored, InSync
  <2>2. CASE /\ pc' = "status" /\ UNCHANGED <<me, current>>
             /\ ro' = Append(ro, Desired(Cached(ro)))
    <3>1. Stored(ro') = Desired(Cached(ro))
      BY <1>0, <2>2, WriteTypes, AppendFacts DEF TypeOK
    <3>2. Stored(ro').from = me.gen
      BY <1>0, <3>1 DEF Desired, Rollouts
    <3> QED
      BY <1>0, <1>3, <2>2, <3>2 DEF ReconcileRollout, GenerationsOrdered, RolloutBehindCache,
         CopyCurrent, FinalizerKept, BranchTaken, FinalizerGuardsRollout, Stored, InSync
  <2>3. CASE Retry /\ ro' = ro
    BY <1>3, <2>3, ReturnStep DEF ReconcileRollout, Retry
  <2> QED
    BY <1>3, <2>1, <2>2, <2>3 DEF ReconcileRollout
<1>4. CASE UpdateStatus
  <2>1. PICK labelRead \in BOOLEAN :
          /\ Return /\ ro' = ro
          /\ \/ ad' = ad
             \/ current /\ ad' = Append(ad, NewStatus(Cached(ro), labelRead))
    BY <1>4 DEF UpdateStatus, Retry
  <2>2. CASE ad' = ad
    BY <2>1, <2>2, ReturnStep
  <2>3. CASE current /\ ad' = Append(ad, NewStatus(Cached(ro), labelRead))
    <3> DEFINE x == NewStatus(Cached(ro), labelRead)
    <3>1. me = Stored(ad) /\ me.live /\ me \in Agents /\ pc # "idle"
      BY <1>4, <2>3 DEF UpdateStatus, CopyCurrent, TypeOK
    <3>2. /\ x \in Agents /\ x.live /\ x.gen = me.gen /\ x.obs = me.gen
          /\ x.fin = me.fin
      BY <1>0, <3>1, StatusType DEF TypeOK
    <3> HIDE DEF x
    <3>3. ad' = Append(ad, x)
      BY <2>3 DEF x
    <3>4. /\ GenerationsOrdered'
          /\ \A i \in 1..Len(ad') : Stored(ro).from <= ad'[i].gen
      BY <1>0, <3>1, <3>2, <3>3, OrderedAppend DEF RolloutBehindCache
    <3>5. FinalizerKept'
      BY <3>1, <3>2, <3>3, FinalizerAppend
    <3>6. Stored(ad') = x
      BY <3>2, <3>3, AppendFacts DEF TypeOK
    <3> QED
      BY <2>1, <3>1, <3>2, <3>4, <3>5, <3>6
         DEF Return, RolloutBehindCache, CopyCurrent, BranchTaken, FinalizerGuardsRollout, Stored
  <2> QED
    BY <2>1, <2>2, <2>3
<1>5. CASE CleanUp
  <2>1. /\ Stored(ro').from = Stored(ro).from
        /\ Stored(ro').live => Stored(ro).live
    <3>1. CASE ro' = ro
      BY <3>1
    <3>2. CASE ro' = Append(ro, Gone(Stored(ro)))
      <4>1. Stored(ro') = Gone(Stored(ro))
        BY <1>0, <3>2, WriteTypes, AppendFacts DEF TypeOK
      <4>2. Gone(Stored(ro)).from = Stored(ro).from /\ ~Gone(Stored(ro)).live
        BY DEF Gone, NoRollout
      <4> QED
        BY <4>1, <4>2
    <3> QED
      BY <1>5, <3>1, <3>2 DEF CleanUp
  <2> QED
    BY <1>5, <2>1 DEF CleanUp, GenerationsOrdered, RolloutBehindCache, CopyCurrent,
         FinalizerKept, BranchTaken, FinalizerGuardsRollout, InSync, Stored
<1>6. CASE Release
  <2>1. CASE ~current
    BY <1>6, <2>1, ReturnStep DEF Release, Retry
  <2>2. CASE current
    <3> DEFINE x == [me EXCEPT !.fin = FALSE, !.live = FALSE]
    <3>1. /\ ad' = Append(ad, x) /\ Return /\ ro' = ro
          /\ me = Stored(ad) /\ me.deleting /\ Len(ad) = 1
      BY <1>6, <2>2 DEF Release, CopyCurrent, BranchTaken, InSync
    <3>2. /\ x \in Agents /\ x.gen = me.gen /\ x.obs = me.obs /\ ~x.live /\ ~x.fin
      BY DEF TypeOK, Agents
    <3> HIDE DEF x
    <3>3. /\ GenerationsOrdered'
          /\ \A i \in 1..Len(ad') : Stored(ro).from <= ad'[i].gen
      BY <1>0, <3>1, <3>2, OrderedAppend DEF RolloutBehindCache
    <3>4. /\ Stored(ad') = x /\ Len(ad') = 2
          /\ ad'[1] = me /\ ad'[2] = x
      <4>1. /\ Stored(ad') = x
            /\ Len(ad') = Len(ad) + 1
            /\ \A i \in 1..Len(ad) : ad'[i] = ad[i]
        BY <3>1, <3>2, AppendFacts DEF TypeOK
      <4> QED
        BY <1>0, <3>1, <4>1 DEF Stored
    <3>5. FinalizerKept'
      BY <3>1, <3>2, <3>4 DEF FinalizerKept
    <3> QED
      BY <3>1, <3>2, <3>3, <3>4, <3>5
         DEF Return, RolloutBehindCache, CopyCurrent, BranchTaken, FinalizerGuardsRollout, Stored
  <2> QED
    BY <2>1, <2>2 DEF TypeOK
<1>7. CASE StepFails
  BY <1>7, ReturnStep DEF StepFails, Retry
<1>8. CASE Restart
  <2>1. /\ Len(ad') = 1 /\ ad'[1] = ad[Len(ad)] /\ Stored(ad') = Stored(ad)
        /\ Stored(ro') = Stored(ro)
        /\ pc' = "idle" /\ current' = FALSE
    BY <1>0, <1>8, SingleFacts DEF Restart, Retry, Return, Stored
  <2>2. \A i \in 1..Len(ad') : ad'[i] = ad[Len(ad)]
    BY <2>1
  <2>3. GenerationsOrdered' /\ RolloutBehindCache'
    BY <1>0, <2>1, <2>2 DEF GenerationsOrdered, RolloutBehindCache
  <2>4. FinalizerKept'
    BY <1>0, <2>1, <2>2 DEF FinalizerKept
  <2> QED
    BY <2>1, <2>3, <2>4 DEF CopyCurrent, BranchTaken, FinalizerGuardsRollout
<1>9. CASE RequeueTimer
  BY <1>9, RolloutSideStep DEF RequeueTimer, Inductive
<1>10. CASE DeliverAgent
  <2>1. /\ Stored(ad') = Stored(ad) /\ Len(ad') = Len(ad) - 1
        /\ \A i \in 1..Len(ad') : i + 1 \in 1..Len(ad) /\ ad'[i] = ad[i + 1]
        /\ ~InSync(ad)
    BY <1>0, <1>10, TailFacts DEF DeliverAgent, TypeOK
  <2>2. UNCHANGED <<ro, pc, me, current>>
    BY <1>10 DEF DeliverAgent
  <2>3. GenerationsOrdered'
    <3>1. \A i, j \in 1..Len(ad') : i <= j => i + 1 <= j + 1
      BY <1>0, <2>1
    <3>2. \A i, j \in 1..Len(ad') : i <= j => ad'[i].gen <= ad'[j].gen
      BY <2>1, <3>1 DEF GenerationsOrdered
    <3>3. \A i \in 1..Len(ad') : ad'[i].obs <= ad'[i].gen
      BY <2>1 DEF GenerationsOrdered
    <3> QED
      BY <3>2, <3>3 DEF GenerationsOrdered
  <2>4. RolloutBehindCache'
    BY <1>0, <2>1, <2>2 DEF RolloutBehindCache, Stored
  <2>5. FinalizerKept'
    BY <2>1 DEF FinalizerKept
  <2> QED
    BY <2>1, <2>2, <2>3, <2>4, <2>5
       DEF CopyCurrent, BranchTaken, FinalizerGuardsRollout, Stored
<1>11. CASE DeliverRollout
  <2>1. Stored(ro') = Stored(ro)
    BY <1>11, TailFacts DEF DeliverRollout, TypeOK
  <2> QED
    BY <1>11, <2>1, RolloutSideStep DEF DeliverRollout
<1>12. CASE EditSpec \/ DeleteAgent
  <2>1. PICK x \in Agents :
          /\ ad' = Append(ad, x)
          /\ x.gen >= Stored(ad).gen /\ x.obs = Stored(ad).obs
          /\ \/ x.live /\ x.fin = Stored(ad).fin
             \/ ~x.live /\ ~x.fin /\ ~Stored(ad).fin
    <3>1. CASE EditSpec
      <4>1. PICK s \in Specs :
              ad' = Append(ad, [Stored(ad) EXCEPT !.spec = s, !.gen = @ + 1])
        BY <3>1 DEF EditSpec
      <4> DEFINE y == [Stored(ad) EXCEPT !.spec = s, !.gen = @ + 1]
      <4>2. /\ y \in Agents /\ y.gen = Stored(ad).gen + 1 /\ y.obs = Stored(ad).obs
            /\ y.live = Stored(ad).live /\ y.fin = Stored(ad).fin
        BY <1>0, EditTypes DEF Agents
      <4>3. y.gen >= Stored(ad).gen
        BY <1>0, <4>2 DEF Agents
      <4> QED
        BY <3>1, <4>1, <4>2, <4>3 DEF EditSpec
    <3>2. CASE DeleteAgent /\ Stored(ad).fin
      <4> DEFINE y == [Stored(ad) EXCEPT !.deleting = TRUE, !.gen = @ + 1]
      <4>1. /\ y \in Agents /\ y.gen = Stored(ad).gen + 1 /\ y.obs = Stored(ad).obs
            /\ y.live = Stored(ad).live /\ y.fin = Stored(ad).fin
        BY <1>0, EditTypes DEF Agents
      <4>2. y.gen >= Stored(ad).gen
        BY <1>0, <4>1 DEF Agents
      <4> QED
        BY <3>2, <4>1, <4>2 DEF DeleteAgent
    <3>3. CASE DeleteAgent /\ ~Stored(ad).fin
      <4> DEFINE y == [Stored(ad) EXCEPT !.live = FALSE]
      <4>1. /\ y \in Agents /\ y.gen = Stored(ad).gen /\ y.obs = Stored(ad).obs
            /\ ~y.live /\ y.fin = Stored(ad).fin
        BY <1>0, EditTypes DEF Agents
      <4>2. y.gen >= Stored(ad).gen
        BY <1>0, <4>1 DEF Agents
      <4> QED
        BY <3>3, <4>1, <4>2 DEF DeleteAgent
    <3> QED
      BY <1>12, <3>1, <3>2, <3>3
  <2>2. Stored(ad).live /\ current' = FALSE /\ UNCHANGED <<ro, pc, me>>
    BY <1>12 DEF EditSpec, DeleteAgent
  <2>3. /\ Stored(ad).gen <= x.gen /\ x.obs <= x.gen
    BY <1>0, <2>1 DEF Agents
  <2>4. /\ GenerationsOrdered'
        /\ \A i \in 1..Len(ad') : Stored(ro).from <= ad'[i].gen
        /\ pc \notin {"idle", "status"} => \A i \in 1..Len(ad') : me.gen <= ad'[i].gen
        /\ pc # "idle" => me.gen <= x.gen
    <3>1. /\ GenerationsOrdered'
          /\ \A n \in Nat : (\A i \in 1..Len(ad) : n <= ad[i].gen)
                            => \A i \in 1..Len(ad') : n <= ad'[i].gen
      BY <2>1, <2>3, OrderedAppend
    <3>2. pc # "idle" => me.gen <= x.gen
      BY <1>0, <2>1, <2>3 DEF RolloutBehindCache, Agents
    <3> QED
      BY <1>0, <3>1, <3>2 DEF RolloutBehindCache
  <2>5. Stored(ad') = x
    BY <2>1, AppendFacts DEF TypeOK
  <2>6. FinalizerKept'
    <3>1. CASE x.live
      BY <2>1, <2>2, <3>1, FinalizerAppend
    <3>2. CASE ~x.live
      <4>1. /\ \A i \in 1..Len(ad) : ~(ad[i].live /\ ad[i].fin)
            /\ \A i \in 1..Len(ad) : ad'[i] = ad[i]
            /\ Len(ad') = Len(ad) + 1 /\ ad'[Len(ad) + 1] = x
        BY <2>1, <2>2, <3>2, AppendFacts DEF FinalizerKept, TypeOK, Stored
      <4> QED
        BY <1>0, <3>2, <4>1 DEF FinalizerKept
    <3> QED
      BY <3>1, <3>2
  <2>7. BranchTaken'
    BY <2>1, <2>2, <2>5 DEF BranchTaken, Stored
  <2> QED
    BY <2>1, <2>2, <2>4, <2>5, <2>6, <2>7
       DEF RolloutBehindCache, CopyCurrent, FinalizerGuardsRollout, Stored
<1>13. CASE Argo
  <2>1. PICK r \in Rollouts : ArgoWrites(r) /\ r.from = Stored(ro).from /\ r.live = Stored(ro).live
    BY <1>0, <1>13, ArgoStep
  <2>2. Stored(ro') = r
    BY <2>1, AppendFacts DEF ArgoWrites, TypeOK
  <2> QED
    BY <2>1, <2>2, RolloutSideStep DEF ArgoWrites
<1>14. CASE RolloutRemoved
  <2>1. Stored(ro') = Gone(Stored(ro))
    BY <1>0, <1>14, WriteTypes, AppendFacts DEF RolloutRemoved, TypeOK
  <2>2. Stored(ro').from = Stored(ro).from /\ ~Stored(ro').live
    BY <2>1 DEF Gone, NoRollout
  <2> QED
    BY <1>14, <2>2, RolloutSideStep DEF RolloutRemoved
<1>15. CASE PatchSpec
  <2>1. /\ me' \in Agents /\ ad' = Append(ad, me') /\ Stored(ad') = me'
        /\ me'.live /\ Stored(ad).live
        /\ me'.gen = Stored(ad).gen + 1 /\ me'.obs = Stored(ad).obs
        /\ me'.fin = Stored(ad).fin
    BY <1>15, PatchFacts
  <2>2. pc = "status" /\ pc' = pc /\ ro' = ro /\ current' = TRUE
    BY <1>15 DEF PatchSpec
  <2>3. Stored(ad).gen \in Nat /\ Stored(ad).gen = ad[Len(ad)].gen
    BY <1>0 DEF Stored
  <2>4. /\ Stored(ad).gen <= me'.gen /\ me'.obs <= me'.gen
        /\ Stored(ro).from <= me'.gen
    <3>1. Stored(ro).from <= Stored(ad).gen
      BY <1>0, <2>3 DEF RolloutBehindCache
    <3>2. Stored(ad).obs \in Nat /\ Stored(ro).from \in Nat
      BY <1>0 DEF Agents
    <3> QED
      BY <1>0, <2>1, <2>3, <3>1, <3>2
  <2>5. PICK x \in Agents : x = me'
    BY <2>1
  <2>6. /\ GenerationsOrdered'
        /\ \A i \in 1..Len(ad') : Stored(ro).from <= ad'[i].gen
    <3>1. ad' = Append(ad, x) /\ Stored(ad).gen <= x.gen /\ x.obs <= x.gen
      BY <2>1, <2>4, <2>5
    <3> QED
      BY <1>0, <3>1, OrderedAppend DEF RolloutBehindCache
  <2>7. FinalizerKept'
    <3>1. ad' = Append(ad, x) /\ Stored(ad).live /\ x.live /\ x.fin = Stored(ad).fin
      BY <2>1, <2>5
    <3> QED
      BY <3>1, FinalizerAppend
  <2>8. RolloutBehindCache'
    <3>1. Stored(ro') = Stored(ro) /\ me'.gen <= Stored(ad').gen
      BY <1>0, <2>1, <2>2, <2>3
    <3> QED
      BY <2>2, <2>4, <2>6, <3>1 DEF RolloutBehindCache
  <2>9. CopyCurrent' /\ BranchTaken' /\ FinalizerGuardsRollout'
    BY <2>1, <2>2 DEF CopyCurrent, BranchTaken, FinalizerGuardsRollout, Stored
  <2> QED
    BY <2>6, <2>7, <2>8, <2>9
<1>16. CASE UNCHANGED vars
  BY <1>16, RolloutSideStep DEF vars, Inductive
<1> QED
  BY <1>1, <1>2, <1>3, <1>4, <1>5, <1>6, <1>7, <1>8, <1>9, <1>10, <1>11, <1>12,
     <1>13, <1>14, <1>15, <1>16 DEF Next, Controller, Informers, Environment

\* What the caches and the copy Reconcile holds can be behind on, and what they
\* cannot, in every reachable state: reconcileRollout, updateStatus and
\* handleDeletion only ever act on versions these bounds allow.
THEOREM InductiveInvariant == Spec => []Inductive
<1>1. Spec => []TypeOK
  BY TypeInvariant
<1> QED
  BY <1>1, InductiveInit, InductiveNext, PTL DEF Spec

\* As long as the AgentDeployment exists, its Rollout does not outlive the
\* finalizer: Reconcile stores the finalizer before reconcileRollout creates the
\* Rollout, and only handleDeletion takes it away.
THEOREM FinalizerGuards == Spec => []FinalizerGuardsRollout
<1>1. Inductive => FinalizerGuardsRollout
  BY DEF Inductive
<1> QED
  BY <1>1, InductiveInvariant, PTL

(***************************************************************************)
(* What a step may do: the abstract generations, and no resurrection.      *)
(***************************************************************************)

StepPromise ==
    /\ [Abstract!DNext]_(Abstract!dvars)
    /\ ~Stored(ad).live /\ ~Stored(ro).live => ~Stored(ro').live
    /\ Stored(ro').from >= Stored(ro).from

\* Generations are natural numbers, in order.
LEMMA GenerationFacts ==
    ASSUME TypeOK, Inductive
    PROVE  /\ Stored(ad).gen \in Nat /\ Stored(ad).obs \in Nat /\ Stored(ro).from \in Nat
           /\ Stored(ad).obs <= Stored(ad).gen
           /\ pc # "idle" => /\ me.gen \in Stored(ro).from .. Stored(ad).gen
                             /\ me.gen \in Nat
<1>1. Stored(ad) \in Agents /\ Stored(ro) \in Rollouts /\ Len(ad) \in 1..Len(ad)
  BY EndFacts DEF TypeOK
<1>2. /\ Stored(ad).gen \in Nat /\ Stored(ad).obs \in Nat
      /\ Stored(ro).from \in Nat /\ me.gen \in Nat
  BY <1>1 DEF TypeOK, Agents, Rollouts
<1>3. Stored(ad).obs <= Stored(ad).gen
  BY <1>1 DEF Inductive, GenerationsOrdered, Stored
<1>4. pc # "idle" => Stored(ro).from <= me.gen /\ me.gen <= Stored(ad).gen
  BY <1>1 DEF Inductive, RolloutBehindCache, Stored
<1> QED
  BY <1>2, <1>3, <1>4

\* A step that shows nothing of itself in the stored objects.
LEMMA SilentStep ==
    ASSUME TypeOK, Inductive,
           Stored(ad').gen = Stored(ad).gen, Stored(ad').obs = Stored(ad).obs,
           Stored(ad').live = Stored(ad).live, Stored(ro').from = Stored(ro).from,
           Stored(ro').live => Stored(ro).live
    PROVE  StepPromise
  BY GenerationFacts DEF StepPromise, Abstract!dvars

\* Every step is allowed by the contract DesiredState, resurrects no Rollout and
\* takes none back to an older generation.
LEMMA StepKeepsPromise == TypeOK /\ Inductive /\ [Next]_vars => StepPromise
<1> SUFFICES ASSUME TypeOK, Inductive, [Next]_vars PROVE StepPromise
  OBVIOUS
<1>0. /\ Stored(ad) \in Agents /\ Stored(ro) \in Rollouts
      /\ Cached(ad) \in Agents /\ Cached(ro) \in Rollouts
  BY EndFacts DEF TypeOK
<1>1. CASE UNCHANGED <<ad, ro>>
  BY <1>1, SilentStep DEF Stored
<1>2. CASE AddFinalizer /\ current
  <2>1. /\ ad' = Append(ad, [me EXCEPT !.fin = TRUE]) /\ ro' = ro
        /\ me = Stored(ad) /\ me \in Agents
    BY <1>2 DEF AddFinalizer, Inductive, CopyCurrent, TypeOK
  <2>2. Stored(ad') = [me EXCEPT !.fin = TRUE]
    <3>1. [me EXCEPT !.fin = TRUE] \in Agents
      BY <1>0, <2>1, WriteTypes
    <3> QED
      BY <2>1, <3>1, AppendFacts DEF TypeOK
  <2>3. /\ Stored(ad').gen = me.gen /\ Stored(ad').obs = me.obs
        /\ Stored(ad').live = me.live
    BY <2>1, <2>2 DEF Agents
  <2> QED
    BY <2>1, <2>3, SilentStep DEF Stored
<1>3. CASE ReconcileRollout /\ ro' = Append(ro, Desired(Cached(ro)))
  <2>1. Stored(ro') = Desired(Cached(ro)) /\ ad' = ad
    BY <1>0, <1>3, WriteTypes, AppendFacts DEF TypeOK, ReconcileRollout
  <2>2. Stored(ro').from = me.gen
    BY <1>0, <2>1 DEF Desired, Rollouts
  <2>3. Stored(ad).live /\ pc # "idle"
    BY <1>3 DEF Inductive, BranchTaken, ReconcileRollout
  <2>4. Abstract!Apply
    BY <2>1, <2>2, <2>3, GenerationFacts DEF Abstract!Apply, Stored
  <2> QED
    BY <2>2, <2>3, <2>4, GenerationFacts DEF StepPromise, Abstract!DNext
<1>4. CASE /\ pc = "status" /\ current /\ ro' = ro
           /\ \E labelRead \in BOOLEAN : ad' = Append(ad, NewStatus(Cached(ro), labelRead))
  <2>1. PICK labelRead \in BOOLEAN : ad' = Append(ad, NewStatus(Cached(ro), labelRead))
    BY <1>4
  <2>2. me = Stored(ad) /\ me \in Agents /\ me.live
    BY <1>4 DEF Inductive, CopyCurrent, TypeOK
  <2>3. Stored(ad') = NewStatus(Cached(ro), labelRead)
    BY <1>0, <2>1, <2>2, StatusType, AppendFacts DEF TypeOK
  <2>4. /\ Stored(ad').gen = me.gen /\ Stored(ad').obs = me.gen /\ Stored(ad').live
    BY <1>0, <2>2, <2>3, StatusType DEF TypeOK
  <2>5. Abstract!Report
    <3>1. /\ Stored(ad').obs \in Stored(ad).obs .. Stored(ad).gen
          /\ Stored(ad').gen = Stored(ad).gen
      BY <2>2, <2>4, GenerationFacts
    <3>2. Stored(ad').live = Stored(ad).live /\ Stored(ad).live
      BY <1>0, <2>2, <2>3, StatusType DEF Agents, TypeOK
    <3> QED
      BY <1>4, <3>1, <3>2 DEF Abstract!Report, Stored
  <2> QED
    BY <1>4, <2>5, GenerationFacts DEF StepPromise, Abstract!DNext, Stored
<1>5. CASE /\ UNCHANGED ad
           /\ \/ ro' = Append(ro, Gone(Stored(ro)))
              \/ ~InSync(ro) /\ ro' = Tail(ro)
              \/ Restart
  <2>1. CASE ro' = Append(ro, Gone(Stored(ro)))
    <3>1. Stored(ro') = Gone(Stored(ro))
      BY <1>0, <2>1, WriteTypes, AppendFacts DEF TypeOK
    <3>2. Gone(Stored(ro)).from = Stored(ro).from /\ ~Gone(Stored(ro)).live
      BY DEF Gone, NoRollout
    <3> QED
      BY <1>5, <3>1, <3>2, SilentStep
  <2>2. CASE ~InSync(ro) /\ ro' = Tail(ro)
    BY <1>5, <2>2, TailFacts, SilentStep DEF TypeOK
  <2>3. CASE Restart
    BY <1>0, <1>5, <2>3, SingleFacts, SilentStep DEF Restart
  <2> QED
    BY <1>5, <2>1, <2>2, <2>3
<1>6. CASE Release /\ current
  <2>1. /\ ad' = Append(ad, [me EXCEPT !.fin = FALSE, !.live = FALSE]) /\ ro' = ro
        /\ me = Stored(ad) /\ me \in Agents /\ me.live
    BY <1>6 DEF Release, Inductive, CopyCurrent, TypeOK
  <2>2. Stored(ad') = [me EXCEPT !.fin = FALSE, !.live = FALSE]
    <3>1. [me EXCEPT !.fin = FALSE, !.live = FALSE] \in Agents
      BY <1>0, <2>1, WriteTypes
    <3> QED
      BY <2>1, <3>1, AppendFacts DEF TypeOK
  <2>3. /\ Stored(ad').gen = me.gen /\ Stored(ad').obs = me.obs
        /\ ~Stored(ad').live /\ Stored(ad').live = FALSE
    BY <2>1, <2>2 DEF Agents
  <2>4. me.live = TRUE
    BY <2>1 DEF Agents
  <2>5. Abstract!Retire
    BY <2>1, <2>3, <2>4 DEF Abstract!Retire, Stored
  <2> QED
    BY <2>1, <2>5, GenerationFacts DEF StepPromise, Abstract!DNext, Stored
<1>7. CASE Restart
  <2>1. Stored(ad') = Stored(ad) /\ Stored(ro') = Stored(ro)
    BY <1>0, <1>7, SingleFacts DEF Restart
  <2> QED
    BY <2>1, SilentStep
<1>8. CASE DeliverAgent
  <2>1. Stored(ad') = Stored(ad) /\ Stored(ro') = Stored(ro)
    BY <1>8, TailFacts DEF DeliverAgent, TypeOK
  <2> QED
    BY <2>1, SilentStep
<1>9. CASE EditSpec
  <2>1. PICK s \in Specs :
          ad' = Append(ad, [Stored(ad) EXCEPT !.spec = s, !.gen = @ + 1])
    BY <1>9 DEF EditSpec
  <2>2. Stored(ad') = [Stored(ad) EXCEPT !.spec = s, !.gen = @ + 1]
    <3>1. [Stored(ad) EXCEPT !.spec = s, !.gen = @ + 1] \in Agents
      BY <1>0, EditTypes
    <3> QED
      BY <2>1, <3>1, AppendFacts DEF TypeOK
  <2>3. /\ Stored(ad').gen = Stored(ad).gen + 1 /\ Stored(ad').obs = Stored(ad).obs
        /\ Stored(ad').live = Stored(ad).live
    BY <1>0, <2>2 DEF Agents
  <2>4. Abstract!Request /\ Stored(ro') = Stored(ro) /\ Stored(ad).live
    BY <1>9, <2>3 DEF Abstract!Request, EditSpec, Stored
  <2> QED
    BY <2>4, GenerationFacts DEF StepPromise, Abstract!DNext
<1>10. CASE DeleteAgent /\ Stored(ad).fin
  <2>1. Stored(ad') = [Stored(ad) EXCEPT !.deleting = TRUE, !.gen = @ + 1]
    <3>1. [Stored(ad) EXCEPT !.deleting = TRUE, !.gen = @ + 1] \in Agents
      BY <1>0, EditTypes
    <3> QED
      BY <1>10, <3>1, AppendFacts DEF TypeOK, DeleteAgent
  <2>2. /\ Stored(ad').gen = Stored(ad).gen + 1 /\ Stored(ad').obs = Stored(ad).obs
        /\ Stored(ad').live = Stored(ad).live
    BY <1>0, <2>1 DEF Agents
  <2>3. Abstract!Request /\ Stored(ro') = Stored(ro) /\ Stored(ad).live
    BY <1>10, <2>2 DEF Abstract!Request, DeleteAgent, Stored
  <2> QED
    BY <2>3, GenerationFacts DEF StepPromise, Abstract!DNext
<1>11. CASE DeleteAgent /\ ~Stored(ad).fin
  <2>1. Stored(ad') = [Stored(ad) EXCEPT !.live = FALSE]
    <3>1. [Stored(ad) EXCEPT !.live = FALSE] \in Agents
      BY <1>0, EditTypes
    <3> QED
      BY <1>11, <3>1, AppendFacts DEF TypeOK, DeleteAgent
  <2>2. /\ Stored(ad').gen = Stored(ad).gen /\ Stored(ad').obs = Stored(ad).obs
        /\ Stored(ad').live = FALSE
    BY <1>0, <2>1 DEF Agents
  <2>3. Abstract!Retire /\ Stored(ro') = Stored(ro) /\ Stored(ad).live
    BY <1>11, <2>2 DEF Abstract!Retire, DeleteAgent, Stored
  <2> QED
    BY <2>3, GenerationFacts DEF StepPromise, Abstract!DNext
<1>12. CASE Argo
  <2>1. PICK r \in Rollouts : ArgoWrites(r) /\ r.from = Stored(ro).from /\ r.live = Stored(ro).live
    BY <1>0, <1>12, ArgoStep
  <2>2. Stored(ro') = r
    BY <2>1, AppendFacts DEF ArgoWrites, TypeOK
  <2> QED
    BY <2>1, <2>2, SilentStep DEF ArgoWrites
<1>13. CASE Fetch \/ StepFails \/ RequeueTimer
  BY <1>1, <1>13 DEF Fetch, StepFails, RequeueTimer
<1>14. CASE AddFinalizer /\ ~current
  BY <1>1, <1>14 DEF AddFinalizer
<1>15. CASE ReconcileRollout
  BY <1>1, <1>3, <1>15 DEF ReconcileRollout
<1>16. CASE UpdateStatus
  BY <1>1, <1>4, <1>16 DEF UpdateStatus
<1>17. CASE CleanUp
  BY <1>1, <1>5, <1>17 DEF CleanUp
<1>18. CASE Release /\ ~current
  BY <1>1, <1>18 DEF Release
<1>19. CASE DeliverRollout \/ RolloutRemoved
  BY <1>5, <1>19 DEF DeliverRollout, RolloutRemoved
<1>20. CASE PatchSpec
  <2>1. /\ Stored(ad').gen = Stored(ad).gen + 1 /\ Stored(ad').obs = Stored(ad).obs
        /\ Stored(ad').live = Stored(ad).live /\ Stored(ad).live
    <3>1. Stored(ad') = me' /\ me'.gen = Stored(ad).gen + 1 /\ me'.obs = Stored(ad).obs
          /\ me'.live /\ Stored(ad).live /\ me' \in Agents
      BY <1>20, PatchFacts
    <3>2. me'.live = TRUE /\ Stored(ad).live = TRUE
      BY <1>0, <3>1 DEF Agents
    <3> QED
      BY <3>1, <3>2
  <2>2. Abstract!Request /\ Stored(ro') = Stored(ro)
    BY <1>20, <2>1 DEF Abstract!Request, PatchSpec, Stored
  <2> QED
    BY <2>1, <2>2, GenerationFacts DEF StepPromise, Abstract!DNext
<1>21. CASE UNCHANGED vars
  BY <1>1, <1>21 DEF vars
<1> QED
  BY <1>2, <1>6, <1>7, <1>8, <1>9, <1>10, <1>11, <1>12, <1>13, <1>14, <1>15, <1>16,
     <1>17, <1>18, <1>19, <1>20, <1>21 DEF Next, Controller, Informers, Environment

\* reconcileRollout never brings a Rollout back once the AgentDeployment it was
\* read for is gone, however stale the copy it works from.
THEOREM NothingResurrected == Spec => NoResurrection
<1>1. TypeOK /\ Inductive /\ [Next]_vars =>
        [~Stored(ad).live /\ ~Stored(ro).live => ~Stored(ro').live]_vars
  BY StepKeepsPromise DEF StepPromise
<1> QED
  BY <1>1, TypeInvariant, InductiveInvariant, PTL DEF Spec, NoResurrection

\* reconcileRollout never puts the Rollout back to the spec of an older generation:
\* the API server refuses the write of a stale Rollout, and a copy read later is
\* never older than the Rollout it finds.
THEOREM NeverRegresses == Spec => RolloutNeverRegresses
<1>1. TypeOK /\ Inductive /\ [Next]_vars => [Stored(ro').from >= Stored(ro).from]_vars
  BY StepKeepsPromise DEF StepPromise
<1> QED
  BY <1>1, TypeInvariant, InductiveInvariant, PTL DEF Spec, RolloutNeverRegresses

\* Reconcile implements the contract DesiredState on the generations that are
\* asked for, applied and reported.
THEOREM Implementation == Spec => ImplementsDesiredState
<1>1. Init => Abstract!DInit
  <2> SUFFICES ASSUME Init PROVE Abstract!DInit
    OBVIOUS
  <2>1. PICK s \in Specs :
          ad = <<NoAgent, [NoAgent EXCEPT !.live = TRUE, !.gen = 1, !.spec = s]>>
    BY DEF Init
  <2>2. Stored(ad).gen = 1 /\ Stored(ad).obs = 0 /\ Stored(ad).live = TRUE
    BY <2>1 DEF Stored, NoAgent
  <2>3. Stored(ro).from = 0
    BY DEF Init, Stored, NoRollout
  <2> QED
    BY <2>2, <2>3 DEF Abstract!DInit
<1>2. TypeOK /\ Inductive /\ [Next]_vars => [Abstract!DNext]_(Abstract!dvars)
  BY StepKeepsPromise DEF StepPromise
<1> QED
  BY <1>1, <1>2, TypeInvariant, InductiveInvariant, PTL
     DEF Spec, ImplementsDesiredState, Abstract!DSpec

(***************************************************************************)
(* No lost wake-up.                                                        *)
(***************************************************************************)

\* An object that is being deleted has the finalizer, or is gone.
Guarded(agent) == agent.live /\ agent.deleting => agent.fin

DeletionGuarded ==
    /\ \A v \in Range(ad) : Guarded(v)
    /\ pc # "idle" => Guarded(me)
    /\ pc \in {"finalizer", "rollout"} => ~me.deleting

\* After reconcileRollout the Rollout is as asked for, or an event is to come that will
\* queue the agent, or has come: the optimizer's patch leaves one, too.
RolloutApplied ==
    pc = "status" /\ ~queued /\ InSync(ad) /\ InSync(ro) =>
        ~me.deleting /\ Stored(ro).live /\ SameSpec(Stored(ro))

WakeUp == DeletionGuarded /\ RolloutApplied /\ QuietMeansConverged

\* A write leaves an event to come.
LEMMA WriteAwakes ==
    /\ TypeOK => \A x \in Agents : ~InSync(Append(ad, x))
    /\ TypeOK => \A x \in Rollouts : ~InSync(Append(ro, x))
<1>1. ASSUME TypeOK, NEW x \in Agents PROVE ~InSync(Append(ad, x))
  <2>1. Len(Append(ad, x)) = Len(ad) + 1 /\ Len(ad) \in Nat /\ Len(ad) > 0
    BY <1>1, AppendFacts DEF TypeOK
  <2> QED
    BY <2>1 DEF InSync
<1>2. ASSUME TypeOK, NEW x \in Rollouts PROVE ~InSync(Append(ro, x))
  <2>1. Len(Append(ro, x)) = Len(ro) + 1 /\ Len(ro) \in Nat /\ Len(ro) > 0
    BY <1>2, AppendFacts DEF TypeOK
  <2> QED
    BY <2>1 DEF InSync
<1> QED
  BY <1>1, <1>2

\* What is cached is what is stored when no event is to come.
LEMMA SyncFacts ==
    ASSUME TypeOK
    PROVE  /\ Stored(ad) \in Agents /\ Cached(ad) \in Agents
           /\ Stored(ro) \in Rollouts /\ Cached(ro) \in Rollouts
           /\ InSync(ad) => Cached(ad) = Stored(ad)
           /\ InSync(ro) => Cached(ro) = Stored(ro)
  BY EndFacts DEF TypeOK, InSync, Stored

\* The versions there are after a write, an event or a fresh list.
LEMMA AgentVersions ==
    ASSUME TypeOK
    PROVE  /\ Stored(ad) \in Range(ad) /\ Cached(ad) \in Range(ad)
           /\ \A x \in Agents : Range(Append(ad, x)) = Range(ad) \cup {x}
           /\ Range(<<Stored(ad)>>) = {Stored(ad)}
           /\ ~InSync(ad) => Range(Tail(ad)) \subseteq Range(ad)
  BY VersionFacts, SyncFacts DEF TypeOK

\* The finalizer goes with the object only.
LEMMA DeletionGuardedStep ==
    ASSUME TypeOK, DeletionGuarded, Next PROVE DeletionGuarded'
<1>. USE DEF DeletionGuarded, Guarded
<1>0. Stored(ad) \in Agents /\ Cached(ad) \in Agents /\ me \in Agents /\ (pc # "idle" => me.live)
  BY SyncFacts DEF TypeOK
<1>1. ASSUME Return, \A v \in Range(ad') : v \in Range(ad) \/ Guarded(v)
      PROVE  DeletionGuarded'
  BY <1>1 DEF Return
<1>2. ASSUME UNCHANGED <<pc, me>>, \A v \in Range(ad') : v \in Range(ad) \/ Guarded(v)
      PROVE  DeletionGuarded'
  BY <1>2
<1>3. ASSUME Fetch PROVE DeletionGuarded'
  <2>1. CASE Return
    BY <1>1, <1>3, <2>1 DEF Fetch
  <2>2. CASE ~Return
    <3>1. /\ ad' = ad /\ me' = Cached(ad) /\ pc' = FirstStep(Cached(ad))
          /\ Cached(ad).live
      BY <1>0, <1>3, <2>2 DEF Fetch, FirstStep
    <3>2. pc' \in {"finalizer", "rollout"} => ~Cached(ad).deleting
      BY <1>0, <3>1 DEF FirstStep
    <3> QED
      BY <3>1, <3>2, AgentVersions
  <2> QED
    BY <2>1, <2>2
<1>4. ASSUME AddFinalizer PROVE DeletionGuarded'
  <2>1. CASE ~current
    BY <1>1, <1>4, <2>1 DEF AddFinalizer, Retry
  <2>2. CASE current
    <3>. DEFINE x == [me EXCEPT !.fin = TRUE]
    <3>1. x \in Agents /\ x.fin /\ x.deleting = me.deleting
      BY <1>0 DEF Agents
    <3>2. ad' = Append(ad, x) /\ me' = x /\ pc = "finalizer"
      BY <1>4, <2>2 DEF AddFinalizer
    <3>. HIDE DEF x
    <3> QED
      BY <3>1, <3>2, AgentVersions
  <2> QED
    BY <2>1, <2>2
<1>5. ASSUME ReconcileRollout PROVE DeletionGuarded'
  <2>1. CASE Return
    BY <1>1, <1>5, <2>1 DEF ReconcileRollout
  <2>2. CASE ~Return
    BY <1>5, <2>2 DEF ReconcileRollout, Retry
  <2> QED
    BY <2>1, <2>2
<1>6. ASSUME UpdateStatus PROVE DeletionGuarded'
  <2>1. PICK labelRead \in BOOLEAN :
          /\ Return /\ pc = "status"
          /\ ad' = ad \/ ad' = Append(ad, NewStatus(Cached(ro), labelRead))
    BY <1>6 DEF UpdateStatus, Retry
  <2>. DEFINE x == NewStatus(Cached(ro), labelRead)
  <2>2. x \in Agents /\ x.deleting = me.deleting /\ x.fin = me.fin
    BY <1>0, <2>1, StatusType, SyncFacts DEF TypeOK
  <2>3. ad' = ad \/ ad' = Append(ad, x)
    BY <2>1
  <2>4. Guarded(x)
    BY <1>0, <2>1, <2>2
  <2>. HIDE DEF x
  <2>5. \A v \in Range(ad') : v \in Range(ad) \/ v = x
    BY <2>2, <2>3, AgentVersions
  <2> QED
    BY <1>1, <2>1, <2>4, <2>5
<1>7. ASSUME CleanUp PROVE DeletionGuarded'
  BY <1>7 DEF CleanUp
<1>8. ASSUME Release PROVE DeletionGuarded'
  <2>. DEFINE x == [me EXCEPT !.fin = FALSE, !.live = FALSE]
  <2>1. x \in Agents /\ ~x.live
    BY <1>0 DEF Agents
  <2>2. Return /\ (ad' = ad \/ ad' = Append(ad, x))
    BY <1>8 DEF Release, Retry
  <2>. HIDE DEF x
  <2> QED
    BY <1>1, <2>1, <2>2, AgentVersions
<1>9. ASSUME Restart PROVE DeletionGuarded'
  BY <1>1, <1>9, AgentVersions DEF Restart, Retry
<1>10. ASSUME EditSpec PROVE DeletionGuarded'
  <2>1. PICK s \in Specs : ad' = Append(ad, [Stored(ad) EXCEPT !.spec = s, !.gen = @ + 1])
    BY <1>10 DEF EditSpec
  <2>. DEFINE x == [Stored(ad) EXCEPT !.spec = s, !.gen = @ + 1]
  <2>2. x \in Agents
    BY <1>0, EditTypes
  <2>3. /\ x.live = Stored(ad).live /\ x.fin = Stored(ad).fin
        /\ x.deleting = Stored(ad).deleting
    BY <1>0 DEF Agents
  <2>4. ad' = Append(ad, x)
    BY <2>1
  <2>. HIDE DEF x
  <2> QED
    BY <1>2, <1>10, <2>2, <2>3, <2>4, AgentVersions DEF EditSpec
<1>11. ASSUME DeleteAgent PROVE DeletionGuarded'
  <2>1. PICK x \in Agents : ad' = Append(ad, x) /\ (~x.live \/ x.fin)
    <3>1. CASE Stored(ad).fin
      <4>. DEFINE y == [Stored(ad) EXCEPT !.deleting = TRUE, !.gen = @ + 1]
      <4>1. y \in Agents /\ y.fin
        BY <1>0, <3>1, EditTypes DEF Agents
      <4>2. ad' = Append(ad, y)
        BY <1>11, <3>1 DEF DeleteAgent
      <4>. HIDE DEF y
      <4> QED
        BY <4>1, <4>2
    <3>2. CASE ~Stored(ad).fin
      <4>. DEFINE y == [Stored(ad) EXCEPT !.live = FALSE]
      <4>1. y \in Agents /\ ~y.live
        BY <1>0, EditTypes DEF Agents
      <4>2. ad' = Append(ad, y)
        BY <1>11, <3>2 DEF DeleteAgent
      <4>. HIDE DEF y
      <4> QED
        BY <4>1, <4>2
    <3> QED
      BY <3>1, <3>2
  <2>2. Guarded(x) /\ Range(ad') = Range(ad) \cup {x}
    BY <2>1, AgentVersions
  <2>3. UNCHANGED <<pc, me>>
    BY <1>11 DEF DeleteAgent
  <2> QED
    BY <1>2, <2>2, <2>3
<1>12. ASSUME DeliverAgent PROVE DeletionGuarded'
  BY <1>2, <1>12, AgentVersions DEF DeliverAgent
<1>13. ASSUME Argo PROVE DeletionGuarded'
  BY <1>2, <1>13 DEF Argo, ArgoObserves, ArgoPauses, ArgoPromotes, ArgoAborts, ArgoWrites
<1>14. ASSUME PatchSpec PROVE DeletionGuarded'
  <2>1. /\ me' \in Agents /\ ad' = Append(ad, me') /\ me'.live
        /\ me'.fin = Stored(ad).fin /\ me'.deleting = Stored(ad).deleting
        /\ Stored(ad).live
    BY <1>14, PatchFacts
  <2>2. Range(ad') = Range(ad) \cup {me'} /\ Stored(ad) \in Range(ad)
    BY <2>1, AgentVersions
  <2>3. me'.live /\ me'.deleting => me'.fin
    BY <2>1, <2>2
  <2>4. pc' = "status"
    BY <1>14 DEF PatchSpec
  <2> QED
    BY <2>2, <2>3, <2>4
<1> QED
  BY <1>1, <1>2, <1>3, <1>4, <1>5, <1>6, <1>7, <1>8, <1>9, <1>10, <1>11, <1>12, <1>13, <1>14
     DEF Next, Controller, Informers, Environment, StepFails, Retry, RequeueTimer,
         DeliverRollout, RolloutRemoved

\* Only what queues the agent comes between reconcileRollout and updateStatus.
LEMMA RolloutAppliedStep ==
    ASSUME TypeOK, DeletionGuarded, RolloutApplied, Next PROVE RolloutApplied'
<1>1. ASSUME pc' # "status" \/ queued' = TRUE \/ ~InSync(ro') \/ ~InSync(ad')
      PROVE  RolloutApplied'
  BY <1>1 DEF RolloutApplied
<1>2. ASSUME UNCHANGED <<ad, ro, pc, me, queued>> PROVE RolloutApplied'
  BY <1>2 DEF RolloutApplied, SameSpec, InSync, Stored
<1>3. ASSUME ReconcileRollout PROVE RolloutApplied'
  <2>1. CASE Cached(ro).live /\ SameSpec(Cached(ro)) /\ UNCHANGED <<ro, me>>
    <3>1. ~me.deleting
      BY <1>3 DEF ReconcileRollout, DeletionGuarded
    <3> QED
      BY <2>1, <3>1, SyncFacts DEF RolloutApplied, SameSpec, InSync, Stored
  <2>2. CASE ro' = Append(ro, Desired(Cached(ro)))
    <3>1. Desired(Cached(ro)) \in Rollouts
      BY SyncFacts, WriteTypes DEF TypeOK
    <3> QED
      BY <1>1, <2>2, <3>1, WriteAwakes
  <2>3. CASE Retry
    BY <1>1, <2>3 DEF Retry, Return
  <2> QED
    BY <1>3, <2>1, <2>2, <2>3 DEF ReconcileRollout
<1>4. ASSUME Argo PROVE RolloutApplied'
  <2>1. PICK r \in Rollouts : ro' = Append(ro, r)
    BY <1>4, ArgoStep, SyncFacts DEF ArgoWrites
  <2> QED
    BY <1>1, <2>1, WriteAwakes
<1>5. ASSUME RolloutRemoved PROVE RolloutApplied'
  <2>1. ro' = Append(ro, Gone(Stored(ro))) /\ Gone(Stored(ro)) \in Rollouts
    BY <1>5, SyncFacts, WriteTypes DEF RolloutRemoved, TypeOK
  <2> QED
    BY <1>1, <2>1, WriteAwakes
<1>6. ASSUME Fetch PROVE RolloutApplied'
  BY <1>1, <1>6 DEF Fetch, FirstStep, Return
<1>7. ASSUME EditSpec \/ DeleteAgent \/ PatchSpec PROVE RolloutApplied'
  <2>1. PICK x \in Agents : ad' = Append(ad, x)
    BY <1>7, EditTypes, PatchFacts, SyncFacts DEF EditSpec, DeleteAgent
  <2> QED
    BY <1>1, <2>1, WriteAwakes
<1> QED
  BY <1>1, <1>2, <1>3, <1>4, <1>5, <1>6, <1>7
     DEF Next, Controller, Informers, Environment, AddFinalizer, UpdateStatus, CleanUp,
         Release, StepFails, Restart, Retry, Return, RequeueTimer, DeliverAgent,
         DeliverRollout

\* The only ways to come to rest: nothing to do for the object that is cached, or a status
\* that is already as updateStatus would write it.
LEMMA ComesToRest ==
    ASSUME TypeOK, Next, Quiet'
    PROVE  \/ Quiet /\ UNCHANGED <<ad, ro>>
           \/ /\ UNCHANGED <<ad, ro>> /\ InSync(ad)
              /\ ~Cached(ad).live \/ (Cached(ad).deleting /\ ~Cached(ad).fin)
           \/ /\ pc = "status" /\ UNCHANGED <<ad, ro>> /\ ~queued /\ current
              /\ InSync(ad) /\ InSync(ro)
              /\ \E labelRead \in BOOLEAN : NewStatus(Cached(ro), labelRead) = me
<1>. USE DEF Quiet
<1>1. ASSUME Fetch PROVE UNCHANGED <<ad, ro>> /\ InSync(ad)
                         /\ (~Cached(ad).live \/ (Cached(ad).deleting /\ ~Cached(ad).fin))
  <2>1. UNCHANGED <<ad, ro>> /\ FirstStep(Cached(ad)) = "idle"
    BY <1>1 DEF Fetch
  <2>2. /\ Cached(ad).live \in BOOLEAN /\ Cached(ad).deleting \in BOOLEAN
        /\ Cached(ad).fin \in BOOLEAN
    BY SyncFacts DEF Agents
  <2> QED
    BY <2>1, <2>2 DEF FirstStep, InSync
<1>2. ASSUME UpdateStatus
      PROVE  /\ pc = "status" /\ UNCHANGED <<ad, ro>> /\ ~queued /\ current
             /\ InSync(ad) /\ InSync(ro)
             /\ \E labelRead \in BOOLEAN : NewStatus(Cached(ro), labelRead) = me
  <2>1. current /\ pc = "status" /\ ro' = ro /\ queued' = queued
    BY <1>2 DEF UpdateStatus, Retry
  <2>2. PICK labelRead \in BOOLEAN :
          \/ ad' = ad /\ NewStatus(Cached(ro), labelRead) = me
          \/ ad' = Append(ad, NewStatus(Cached(ro), labelRead))
    BY <1>2, <2>1 DEF UpdateStatus
  <2>3. NewStatus(Cached(ro), labelRead) \in Agents
    BY <2>1, StatusType, SyncFacts DEF TypeOK
  <2>4. ad' # Append(ad, NewStatus(Cached(ro), labelRead))
    BY <2>3, WriteAwakes DEF InSync
  <2> QED
    BY <2>1, <2>2, <2>4 DEF InSync
<1>3. ASSUME Release PROVE FALSE
  <2>1. [me EXCEPT !.fin = FALSE, !.live = FALSE] \in Agents
    BY WriteTypes, SyncFacts DEF TypeOK
  <2> QED
    BY <1>3, <2>1, WriteAwakes DEF Release, Retry, InSync
<1>4. ASSUME EditSpec \/ DeleteAgent \/ PatchSpec PROVE FALSE
  <2>1. PICK x \in Agents : ad' = Append(ad, x)
    BY <1>4, EditTypes, PatchFacts, SyncFacts DEF EditSpec, DeleteAgent
  <2> QED
    BY <2>1, WriteAwakes DEF InSync
<1>5. ASSUME Argo \/ RolloutRemoved PROVE FALSE
  <2>1. PICK x \in Rollouts : ro' = Append(ro, x)
    BY <1>5, ArgoStep, SyncFacts, WriteTypes DEF ArgoWrites, RolloutRemoved, TypeOK
  <2> QED
    BY <2>1, WriteAwakes DEF InSync
<1>6. ASSUME \/ AddFinalizer \/ ReconcileRollout \/ CleanUp \/ StepFails \/ Restart
             \/ RequeueTimer \/ DeliverAgent \/ DeliverRollout
      PROVE  FALSE
  BY <1>6 DEF AddFinalizer, ReconcileRollout, CleanUp, StepFails, Restart, RequeueTimer,
              DeliverAgent, DeliverRollout, Retry, Return
<1> QED
  BY <1>1, <1>2, <1>3, <1>4, <1>5, <1>6 DEF Next, Controller, Informers, Environment

\* Coming to rest, the agent is as its spec and the Rollout say.
LEMMA QuietStep ==
    ASSUME TypeOK, Inductive, WakeUp, Next PROVE QuietMeansConverged'
<1>1. CASE UNCHANGED <<ad, ro>> /\ Quiet
  BY <1>1 DEF WakeUp, QuietMeansConverged, Stored
<1>2. CASE /\ UNCHANGED <<ad, ro>> /\ InSync(ad)
           /\ ~Cached(ad).live \/ (Cached(ad).deleting /\ ~Cached(ad).fin)
  <2>1. ~Stored(ad).live
    BY <1>2, SyncFacts, AgentVersions DEF WakeUp, DeletionGuarded, Guarded
  <2> QED
    BY <1>2, <2>1 DEF QuietMeansConverged, Stored
<1>3. CASE /\ pc = "status" /\ UNCHANGED <<ad, ro>> /\ ~queued /\ current
           /\ InSync(ad) /\ InSync(ro)
           /\ \E labelRead \in BOOLEAN : NewStatus(Cached(ro), labelRead) = me
  <2>1. PICK labelRead \in BOOLEAN : NewStatus(Cached(ro), labelRead) = me
    BY <1>3
  <2>2. me = Stored(ad) /\ Cached(ro) = Stored(ro) /\ me \in Agents
    BY <1>3, SyncFacts DEF Inductive, CopyCurrent, TypeOK
  <2>3. /\ Stored(ro).live /\ Stored(ro).tmpl = me.spec /\ Stored(ro).arg = me.stable
        /\ ~me.deleting
    BY <1>3 DEF WakeUp, RolloutApplied, SameSpec
  <2>4. me.phase = MapRolloutPhase(Stored(ro).phase) /\ me.obs = me.gen
    BY <2>1, <2>2, <2>3 DEF NewStatus, Agents
  <2> QED
    BY <1>3, <2>2, <2>3, <2>4 DEF QuietMeansConverged, Stored
<1>4. CASE ~Quiet'
  BY <1>4 DEF QuietMeansConverged
<1> QED
  BY <1>1, <1>2, <1>3, <1>4, ComesToRest

\* No lost wake-up: a controller that rests, with no key, event or retry to come, has
\* applied and reported the last spec, whatever failed, conflicted or was stale before.
THEOREM NoLostWakeUp == Spec => []QuietMeansConverged
<1>1. Init => WakeUp
  <2> SUFFICES ASSUME Init PROVE WakeUp
    OBVIOUS
  <2>1. PICK s \in Specs :
          ad = <<NoAgent, [NoAgent EXCEPT !.live = TRUE, !.gen = 1, !.spec = s]>>
    BY DEF Init
  <2>2. Len(ad) = 2 /\ ~ad[1].deleting /\ ~ad[2].deleting
    BY <2>1 DEF NoAgent
  <2>3. \A v \in Range(ad) : ~v.deleting
    BY <2>2 DEF Range
  <2>4. pc = "idle" /\ ~InSync(ad)
    BY <2>2 DEF Init, InSync
  <2> QED
    BY <2>3, <2>4 DEF WakeUp, DeletionGuarded, Guarded, RolloutApplied,
                      QuietMeansConverged, Quiet
<1>2. TypeOK /\ Inductive /\ WakeUp /\ [Next]_vars => WakeUp'
  <2> SUFFICES ASSUME TypeOK, Inductive, WakeUp, [Next]_vars PROVE WakeUp'
    OBVIOUS
  <2>1. CASE Next
    BY <2>1, DeletionGuardedStep, RolloutAppliedStep, QuietStep DEF WakeUp
  <2>2. CASE UNCHANGED vars
    BY <2>2 DEF vars, WakeUp, DeletionGuarded, Guarded, RolloutApplied, SameSpec,
                QuietMeansConverged, Quiet, InSync, Stored
  <2> QED
    BY <2>1, <2>2
<1>3. WakeUp => QuietMeansConverged
  BY DEF WakeUp
<1> QED
  BY <1>1, <1>2, <1>3, TypeInvariant, InductiveInvariant, PTL DEF Spec

=============================================================================
