----------------------- MODULE AgentDependenciesProofs -----------------------
(***************************************************************************)
(* Proofs about AgentDependencies, for any set of agents, any dependency   *)
(* lists without self-dependencies and every bound.                        *)
(***************************************************************************)
EXTENDS AgentDependencies, InformerCacheProofs, TLAPS

\* One object per agent, each with at least one version.
Objects(S) == {f \in [Agents -> Seq(S)] : \A a \in Agents : Len(f[a]) > 0}

\* A write, an event or a fresh list of one agent's object.
LEMMA ObjectFacts ==
    ASSUME NEW S, NEW f \in Objects(S), NEW a \in Agents
    PROVE  /\ Stored(f[a]) \in S /\ Cached(f[a]) \in S
           /\ \A x \in S : [f EXCEPT ![a] = Append(@, x)] \in Objects(S)
           /\ ~InSync(f[a]) => [f EXCEPT ![a] = Tail(@)] \in Objects(S)
           /\ [b \in Agents |-> <<Stored(f[b])>>] \in Objects(S)
<1>1. f \in Families(Agents, S)
  BY DEF Objects, Families
<1>2. /\ Stored(f[a]) \in S /\ Cached(f[a]) \in S
      /\ \A x \in S : [f EXCEPT ![a] = Append(@, x)] \in Families(Agents, S)
      /\ ~InSync(f[a]) => [f EXCEPT ![a] = Tail(@)] \in Families(Agents, S)
      /\ [b \in Agents |-> <<Stored(f[b])>>] \in Families(Agents, S)
  BY <1>1, FamilyFacts
<1>3. \A g \in Families(Agents, S) : g \in Objects(S)
  BY DEF Objects, Families
<1> QED
  BY <1>2, <1>3

\* The two families of objects in the state.
LEMMA StateObjects == TypeOK <=> /\ ad \in Objects(Specs) /\ ro \in Objects(Rollouts)
                                 /\ rec \in [Agents -> Reconciles]
                                 /\ queued \subseteq Agents /\ served \subseteq Agents
                                 /\ edits \in 0..MaxEdits /\ faults \in 0..MaxFaults
  BY DEF TypeOK, Objects

\* What Reconcile and Argo write has the type of what they read.
LEMMA WriteTypes ==
    /\ NoAgent \in Specs /\ NoRollout \in Rollouts /\ Idle \in Reconciles
    /\ \A s \in Specs, t \in Nat, d \in SUBSET Agents, r \in Rollouts :
         /\ [s EXCEPT !.tmpl = t, !.deps = d] \in Specs
         /\ [s EXCEPT !.phase = MapRolloutPhase(r)] \in Specs
         /\ [r EXCEPT !.tmpl = t] \in Rollouts
         /\ [r EXCEPT !.cur = r.tmpl, !.phase = "Progressing"] \in Rollouts
         /\ [r EXCEPT !.phase = "Healthy"] \in Rollouts
         /\ [r EXCEPT !.phase = "Degraded"] \in Rollouts
<1>1. \A r \in Rollouts : MapRolloutPhase(r) \in Phases
  BY DEF MapRolloutPhase, Phases, Rollouts
<1>2. NoAgent \in Specs /\ NoRollout \in Rollouts /\ Idle \in Reconciles
  BY DEF NoAgent, NoRollout, Idle, Specs, Rollouts, Reconciles, Phases, RolloutPhases, Steps
<1> QED
  BY <1>1, <1>2 DEF Specs, Rollouts, RolloutPhases

\* A fault uses up the bound.
LEMMA FaultType == TypeOK /\ Fault => faults' \in 0..MaxFaults
  BY BoundsAssumption DEF TypeOK, Fault

\* A reconcile moving on.
LEMMA RecordType ==
    ASSUME TypeOK, NEW a \in Agents
    PROVE  /\ rec[a] \in Reconciles
           /\ \A x \in Reconciles : [rec EXCEPT ![a] = x] \in [Agents -> Reconciles]
           /\ \A step \in Steps : [rec[a] EXCEPT !.pc = step] \in Reconciles
           /\ \A step \in Steps, d \in rec[a].unchecked :
                [rec[a] EXCEPT !.unchecked = @ \ {d}, !.pc = step] \in Reconciles
           /\ [rec[a] EXCEPT !.current = FALSE] \in Reconciles
<1>1. rec \in [Agents -> Reconciles]
  BY DEF TypeOK
<1>2. rec[a] \in Reconciles
  BY <1>1
<1>3. \A x \in Reconciles : [rec EXCEPT ![a] = x] \in [Agents -> Reconciles]
  BY <1>1
<1> QED
  BY <1>2, <1>3 DEF Reconciles

\* Giving the key back.
LEMMA RequeueType ==
    ASSUME TypeOK, NEW a \in Agents, Requeue(a)
    PROVE  rec' \in [Agents -> Reconciles] /\ queued' \subseteq Agents
<1>1. [rec EXCEPT ![a] = Idle] \in [Agents -> Reconciles]
  BY WriteTypes, RecordType
<1>2. queued \subseteq Agents
  BY DEF TypeOK
<1> QED
  BY <1>1, <1>2 DEF Requeue

\* What the user writes.
LEMMA UserType ==
    ASSUME TypeOK, NEW a \in Agents, NEW x \in Specs, UserWrites(a, x)
    PROVE  /\ ad' \in Objects(Specs)
           /\ rec' \in [Agents -> Reconciles]
<1>1. ad' \in Objects(Specs)
  BY StateObjects, ObjectFacts DEF UserWrites
<1>2. [rec[a] EXCEPT !.current = FALSE] \in Reconciles
  BY RecordType
<1>3. [rec EXCEPT ![a] = [rec[a] EXCEPT !.current = FALSE]] \in [Agents -> Reconciles]
  BY <1>2, RecordType
<1>4. rec' = [rec EXCEPT ![a] = [rec[a] EXCEPT !.current = FALSE]]
  BY DEF UserWrites
<1> QED
  BY <1>1, <1>3, <1>4

\* Every step keeps the types.
LEMMA TypeStep ==
    ASSUME TypeOK, Next
    PROVE  TypeOK'
<1>. USE StateObjects
<1>0. TypeOK' <=> /\ ad' \in Objects(Specs) /\ ro' \in Objects(Rollouts)
                  /\ rec' \in [Agents -> Reconciles]
                  /\ queued' \subseteq Agents /\ served' \subseteq Agents
                  /\ edits' \in 0..MaxEdits /\ faults' \in 0..MaxFaults
  BY DEF TypeOK, Objects
<1>1. ASSUME NEW a \in Agents, Fetch(a) PROVE TypeOK'
  <2>1. Cached(ad[a]) \in Specs
    BY ObjectFacts
  <2>2. [pc |-> IF Cached(ad[a]).deps = {} THEN "rollout" ELSE "gate",
         me |-> Cached(ad[a]), current |-> InSync(ad[a]),
         unchecked |-> Cached(ad[a]).deps,
         seen |-> {d \in Cached(ad[a]).deps : Cached(ad[d]).phase = "Stable"}] \in Reconciles
    BY <2>1 DEF Reconciles, Specs, Steps, InSync
  <2>3. rec' \in [Agents -> Reconciles]
    BY <1>1, <2>2 DEF Fetch, TypeOK
  <2> QED
    BY <1>0, <1>1, <2>3 DEF Fetch
<1>2. ASSUME NEW a \in Agents, CheckDependency(a) PROVE TypeOK'
  <2>1. PICK d \in rec[a].unchecked :
               rec' = [rec EXCEPT ![a].unchecked = @ \ {d},
                                  ![a].pc = IF rec[a].unchecked = {d} THEN "rollout" ELSE "gate"]
    BY <1>2 DEF CheckDependency
  <2>. DEFINE step == IF rec[a].unchecked = {d} THEN "rollout" ELSE "gate"
              x == [rec[a] EXCEPT !.unchecked = @ \ {d}, !.pc = step]
  <2>2. step \in Steps
    BY DEF Steps
  <2>3. x \in Reconciles
    BY <2>2, RecordType
  <2>4. rec' = [rec EXCEPT ![a] = x]
    BY <2>1, RecordType DEF TypeOK, Reconciles
  <2>5. rec' \in [Agents -> Reconciles]
    BY <2>3, <2>4, RecordType
  <2> QED
    BY <1>0, <1>2, <2>5 DEF CheckDependency
<1>3. ASSUME NEW a \in Agents, Blocked(a) PROVE TypeOK'
  BY <1>0, <1>3, RequeueType DEF Blocked
<1>4. ASSUME NEW a \in Agents, ReconcileRollout(a) PROVE TypeOK'
  <2>0. Cached(ro[a]) \in Rollouts /\ rec[a] \in Reconciles
    BY ObjectFacts, RecordType
  <2>1. Cached(ro[a]) \in Rollouts /\ rec[a].me.tmpl \in Nat
    BY <2>0 DEF Reconciles, Specs
  <2>2. [Cached(ro[a]) EXCEPT !.tmpl = rec[a].me.tmpl] \in Rollouts
    BY <2>1 DEF Rollouts
  <2>3. ro' \in Objects(Rollouts)
    <3>1. [ro EXCEPT ![a] = Append(@, [Cached(ro[a]) EXCEPT !.tmpl = rec[a].me.tmpl])]
            \in Objects(Rollouts)
      BY <2>2, ObjectFacts
    <3>2. \/ ro' = ro
          \/ ro' = [ro EXCEPT ![a] = Append(@, [Cached(ro[a]) EXCEPT !.tmpl = rec[a].me.tmpl])]
      BY <1>4 DEF ReconcileRollout
    <3> QED
      BY <3>1, <3>2
  <2>4. [rec EXCEPT ![a].pc = "status"] \in [Agents -> Reconciles]
    <3>1. [rec[a] EXCEPT !.pc = "status"] \in Reconciles
      BY RecordType DEF Steps
    <3>2. [rec EXCEPT ![a] = [rec[a] EXCEPT !.pc = "status"]] \in [Agents -> Reconciles]
      BY <3>1, RecordType
    <3> QED
      BY <3>2
  <2>5. rec' \in [Agents -> Reconciles] /\ queued' \subseteq Agents
    BY <1>4, <2>4, RequeueType DEF ReconcileRollout
  <2> QED
    BY <1>0, <1>4, <2>3, <2>5 DEF ReconcileRollout
<1>5. ASSUME NEW a \in Agents, UpdateStatus(a) PROVE TypeOK'
  <2>0. Cached(ro[a]) \in Rollouts /\ rec[a] \in Reconciles
    BY ObjectFacts, RecordType
  <2>1. rec[a].me \in Specs /\ Cached(ro[a]) \in Rollouts
    BY <2>0 DEF Reconciles
  <2>2. [rec[a].me EXCEPT !.phase = MapRolloutPhase(Cached(ro[a]))] \in Specs
    BY <2>1, WriteTypes DEF Specs
  <2>3. ad' \in Objects(Specs)
    BY <1>5, <2>2, ObjectFacts DEF UpdateStatus
  <2> QED
    BY <1>0, <1>5, <2>3, RequeueType DEF UpdateStatus
<1>6. ASSUME NEW a \in Agents, StepFails(a) PROVE TypeOK'
  BY <1>0, <1>6, RequeueType, FaultType DEF StepFails
<1>7. ASSUME NEW a \in Agents, DeliverAgent(a) PROVE TypeOK'
  <2>1. ASSUME NEW b \in Agents
        PROVE  rec[b] \in Reconciles /\ [rec[b] EXCEPT !.seen = @ \cup {a}] \in Reconciles
    BY RecordType DEF Reconciles
  <2>2. rec' \in [Agents -> Reconciles]
    BY <1>7, <2>1 DEF DeliverAgent
  <2> QED
    BY <1>0, <1>7, <2>2, ObjectFacts DEF DeliverAgent
<1>8. ASSUME NEW a \in Agents, DeliverRollout(a) PROVE TypeOK'
  BY <1>0, <1>8, ObjectFacts DEF DeliverRollout
<1>9. ASSUME NEW a \in Agents, CreateAgent(a) PROVE TypeOK'
  <2>1. PICK deps \in Choices[a] : UserWrites(a, [NoAgent EXCEPT !.tmpl = 1, !.deps = deps])
    BY <1>9 DEF CreateAgent
  <2>2. [NoAgent EXCEPT !.tmpl = 1, !.deps = deps] \in Specs
    BY ChoicesAssumption, WriteTypes
  <2> QED
    BY <1>0, <1>9, <2>1, <2>2, UserType DEF CreateAgent, UserWrites
<1>10. ASSUME NEW a \in Agents, EditSpec(a) PROVE TypeOK'
  <2>0. Stored(ad[a]) \in Specs
    BY ObjectFacts
  <2>1. Stored(ad[a]) \in Specs /\ Stored(ad[a]).tmpl \in Nat
    BY <2>0 DEF Specs
  <2>2. PICK deps \in Choices[a], tmpl \in {Stored(ad[a]).tmpl, Stored(ad[a]).tmpl + 1} :
               UserWrites(a, [Stored(ad[a]) EXCEPT !.tmpl = tmpl, !.deps = deps])
    BY <1>10 DEF EditSpec
  <2>3. tmpl \in Nat /\ deps \in SUBSET Agents
    BY <2>1, <2>2, ChoicesAssumption
  <2>4. [Stored(ad[a]) EXCEPT !.tmpl = tmpl, !.deps = deps] \in Specs
    BY <2>1, <2>3, WriteTypes DEF Rollouts, RolloutPhases
  <2>5. edits' \in 0..MaxEdits
    BY <1>10, BoundsAssumption DEF EditSpec
  <2> QED
    BY <1>0, <1>10, <2>2, <2>4, <2>5, UserType DEF UserWrites
<1>11. ASSUME NEW a \in Agents, Argo(a) PROVE TypeOK'
  <2>1. Stored(ro[a]) \in Rollouts
    BY ObjectFacts
  <2>2. PICK r \in Rollouts : ArgoWrites(a, r)
    <3>1. CASE ArgoObserves(a)
      <4>1. [Stored(ro[a]) EXCEPT !.cur = Stored(ro[a]).tmpl, !.phase = "Progressing"] \in Rollouts
        BY <2>1 DEF Rollouts, RolloutPhases
      <4> QED
        BY <3>1, <4>1 DEF ArgoObserves
    <3>2. CASE ArgoPromotes(a)
      <4>1. [Stored(ro[a]) EXCEPT !.phase = "Healthy"] \in Rollouts
        BY <2>1 DEF Rollouts, RolloutPhases
      <4> QED
        BY <3>2, <4>1 DEF ArgoPromotes
    <3>3. CASE ArgoAborts(a)
      <4>1. [Stored(ro[a]) EXCEPT !.phase = "Degraded"] \in Rollouts
        BY <2>1 DEF Rollouts, RolloutPhases
      <4> QED
        BY <3>3, <4>1 DEF ArgoAborts
    <3> QED
      BY <1>11, <3>1, <3>2, <3>3 DEF Argo
  <2>3. ro' \in Objects(Rollouts) /\ UNCHANGED <<ad, rec, queued, edits>>
    BY <2>2, ObjectFacts DEF ArgoWrites
  <2>4. served' \subseteq Agents /\ faults' \in 0..MaxFaults
    BY <1>11, FaultType DEF Argo, ArgoObserves, ArgoPromotes, ArgoAborts
  <2> QED
    BY <1>0, <2>3, <2>4
<1>12. ASSUME Restart PROVE TypeOK'
  <2>1. /\ [a \in Agents |-> <<Stored(ad[a])>>] \in Objects(Specs)
        /\ [a \in Agents |-> <<Stored(ro[a])>>] \in Objects(Rollouts)
    BY ObjectFacts DEF Objects
  <2> QED
    BY <1>0, <1>12, <2>1, WriteTypes, FaultType DEF Restart
<1> QED
  BY <1>1, <1>2, <1>3, <1>4, <1>5, <1>6, <1>7, <1>8, <1>9, <1>10, <1>11, <1>12
     DEF Next, Controller

\* The variables keep their types, for any agents and any bounds.
THEOREM TypeInvariant == Spec => []TypeOK
<1>1. Init => TypeOK
  <2> SUFFICES ASSUME Init PROVE TypeOK
    OBVIOUS
  <2>1. /\ <<NoAgent>> \in Seq(Specs) /\ Len(<<NoAgent>>) = 1
        /\ <<NoRollout>> \in Seq(Rollouts) /\ Len(<<NoRollout>>) = 1
    <3>1. NoAgent \in Specs /\ NoRollout \in Rollouts
      BY WriteTypes
    <3> QED
      BY <3>1
  <2>2. ad \in Objects(Specs) /\ ro \in Objects(Rollouts)
    <3>1. \A n \in Nat : n = 1 => n > 0
      OBVIOUS
    <3>2. Len(<<NoAgent>>) > 0 /\ Len(<<NoRollout>>) > 0
      BY <2>1, <3>1
    <3>3. ASSUME NEW a \in Agents PROVE ad[a] = <<NoAgent>> /\ ro[a] = <<NoRollout>>
      BY DEF Init
    <3>4. ad \in [Agents -> Seq(Specs)] /\ ro \in [Agents -> Seq(Rollouts)]
      BY <2>1 DEF Init
    <3> QED
      BY <3>2, <3>3, <3>4 DEF Objects
  <2>3. rec \in [Agents -> Reconciles]
    BY WriteTypes DEF Init
  <2>4. edits \in 0..MaxEdits /\ faults \in 0..MaxFaults
    BY BoundsAssumption DEF Init
  <2> QED
    BY <2>2, <2>3, <2>4, StateObjects DEF Init
<1>2. TypeOK /\ UNCHANGED vars => TypeOK'
  BY DEF TypeOK, vars
<1> QED
  BY <1>1, <1>2, TypeStep, PTL DEF Spec

(***************************************************************************)
(* What a step can do to one agent's objects and to its reconcile.         *)
(***************************************************************************)

\* An agent gets a version only from its own reconcile's status write or from
\* the user, who leaves the phase alone.
LEMMA AgentChange ==
    ASSUME TypeOK, Next, NEW b \in Agents
    PROVE  \/ Range(ad'[b]) \subseteq Range(ad[b])
           \/ /\ At(b, "status")
              /\ Range(ad'[b]) \subseteq Range(ad[b]) \cup
                   {[rec[b].me EXCEPT !.phase = MapRolloutPhase(Cached(ro[b]))]}
           \/ \E x \in Specs : /\ ad'[b] = Append(ad[b], x)
                               /\ x.phase \in {"", Stored(ad[b]).phase}
<1>0. /\ ad \in Objects(Specs) /\ ad \in [Agents -> Seq(Specs)]
      /\ \A a \in Agents : ad[a] \in Seq(Specs) /\ Len(ad[a]) > 0
      /\ \A a \in Agents : Stored(ad[a]) \in Specs
  BY StateObjects, ObjectFacts DEF TypeOK
<1>1. ASSUME UNCHANGED ad PROVE Range(ad'[b]) \subseteq Range(ad[b])
  BY <1>1
<1>2. ASSUME NEW a \in Agents, UpdateStatus(a)
      PROVE  \/ Range(ad'[b]) \subseteq Range(ad[b])
             \/ /\ At(b, "status")
                /\ Range(ad'[b]) \subseteq Range(ad[b]) \cup
                     {[rec[b].me EXCEPT !.phase = MapRolloutPhase(Cached(ro[b]))]}
  <2>. DEFINE x == [rec[a].me EXCEPT !.phase = MapRolloutPhase(Cached(ro[a]))]
  <2>1. x \in Specs
    <3>1. rec[a].me \in Specs
      BY RecordType DEF Reconciles
    <3>2. Cached(ro[a]) \in Rollouts
      BY StateObjects, ObjectFacts
    <3> QED
      BY <3>1, <3>2, WriteTypes DEF Specs
  <2>2. ad' = ad \/ ad' = [ad EXCEPT ![a] = Append(@, x)]
    BY <1>2 DEF UpdateStatus
  <2>3. Range(Append(ad[a], x)) = Range(ad[a]) \cup {x}
    BY <1>0, <2>1, VersionFacts
  <2>4. CASE a = b
    <3>1. ad'[b] = ad[b] \/ ad'[b] = Append(ad[b], x)
      BY <1>0, <2>2, <2>4
    <3>2. At(b, "status")
      BY <1>2, <2>4 DEF UpdateStatus
    <3> QED
      BY <2>3, <2>4, <3>1, <3>2
  <2>5. CASE a # b
    BY <1>0, <2>2, <2>5
  <2> QED
    BY <2>4, <2>5
<1>3. ASSUME NEW a \in Agents, DeliverAgent(a) PROVE Range(ad'[b]) \subseteq Range(ad[b])
  <2>1. Range(Tail(ad[a])) \subseteq Range(ad[a])
    BY <1>0, <1>3, VersionFacts DEF DeliverAgent
  <2>2. ad' = [ad EXCEPT ![a] = Tail(@)]
    BY <1>3 DEF DeliverAgent
  <2>3. ad'[b] = IF a = b THEN Tail(ad[b]) ELSE ad[b]
    BY <1>0, <2>2
  <2> QED
    BY <2>1, <2>3
<1>4. ASSUME Restart PROVE Range(ad'[b]) \subseteq Range(ad[b])
  <2>1. ad'[b] = <<Stored(ad[b])>>
    BY <1>4 DEF Restart
  <2>2. Range(<<Stored(ad[b])>>) = {Stored(ad[b])} /\ Stored(ad[b]) \in Range(ad[b])
    BY <1>0, VersionFacts
  <2> QED
    BY <2>1, <2>2
<1>5. ASSUME NEW a \in Agents, NEW x \in Specs, UserWrites(a, x),
             x.phase \in {"", Stored(ad[a]).phase}
      PROVE  \/ Range(ad'[b]) \subseteq Range(ad[b])
             \/ \E y \in Specs : /\ ad'[b] = Append(ad[b], y)
                                 /\ y.phase \in {"", Stored(ad[b]).phase}
  <2>1. ad' = [ad EXCEPT ![a] = Append(@, x)]
    BY <1>5 DEF UserWrites
  <2>2. ad'[b] = IF a = b THEN Append(ad[b], x) ELSE ad[b]
    BY <1>0, <2>1
  <2> QED
    BY <1>5, <2>2
<1>6. ASSUME NEW a \in Agents, CreateAgent(a)
      PROVE  \E x \in Specs : UserWrites(a, x) /\ x.phase \in {"", Stored(ad[a]).phase}
  <2>1. PICK deps \in Choices[a] : UserWrites(a, [NoAgent EXCEPT !.tmpl = 1, !.deps = deps])
    BY <1>6 DEF CreateAgent
  <2>2. [NoAgent EXCEPT !.tmpl = 1, !.deps = deps] \in Specs
    BY ChoicesAssumption, WriteTypes
  <2>3. [NoAgent EXCEPT !.tmpl = 1, !.deps = deps].phase = ""
    BY DEF NoAgent
  <2> QED
    BY <2>1, <2>2, <2>3
<1>7. ASSUME NEW a \in Agents, EditSpec(a)
      PROVE  \E x \in Specs : UserWrites(a, x) /\ x.phase \in {"", Stored(ad[a]).phase}
  <2>1. Stored(ad[a]).tmpl \in Nat /\ Stored(ad[a]) \in Specs
    BY <1>0 DEF Specs
  <2>2. PICK deps \in Choices[a], tmpl \in {Stored(ad[a]).tmpl, Stored(ad[a]).tmpl + 1} :
               UserWrites(a, [Stored(ad[a]) EXCEPT !.tmpl = tmpl, !.deps = deps])
    BY <1>7 DEF EditSpec
  <2>3. tmpl \in Nat /\ deps \in SUBSET Agents
    BY <2>1, <2>2, ChoicesAssumption
  <2>4. [Stored(ad[a]) EXCEPT !.tmpl = tmpl, !.deps = deps] \in Specs
    BY <2>1, <2>3, WriteTypes DEF Rollouts, RolloutPhases
  <2>5. [Stored(ad[a]) EXCEPT !.tmpl = tmpl, !.deps = deps].phase = Stored(ad[a]).phase
    BY <2>1 DEF Specs
  <2> QED
    BY <2>2, <2>4, <2>5
<1>8. ASSUME NEW a \in Agents, ~UpdateStatus(a),
             Controller(a) \/ StepFails(a) \/ DeliverRollout(a) \/ Argo(a)
      PROVE  UNCHANGED ad
  BY <1>8 DEF Controller, StepFails, DeliverRollout, Argo, Fetch, CheckDependency, Blocked,
              ReconcileRollout, ArgoObserves, ArgoPromotes, ArgoAborts, ArgoWrites
<1>9. CASE Restart
  BY <1>4, <1>9
<1>10. CASE \E a \in Agents : CreateAgent(a) \/ EditSpec(a)
  BY <1>5, <1>6, <1>7, <1>10
<1>11. CASE \E a \in Agents : Controller(a) \/ StepFails(a) \/ DeliverRollout(a) \/ Argo(a)
  BY <1>1, <1>2, <1>8, <1>11
<1>12. CASE \E a \in Agents : DeliverAgent(a)
  BY <1>3, <1>12
<1> QED
  BY <1>9, <1>10, <1>11, <1>12 DEF Next

\* A Rollout gets a version from its agent's reconcile, past the gate, or from Argo,
\* which leaves the template alone and says Healthy only when it promotes.
LEMMA RolloutChange ==
    ASSUME TypeOK, Next, NEW b \in Agents
    PROVE  \/ /\ Range(ro'[b]) \subseteq Range(ro[b])
              /\ Stored(ro'[b]) = Stored(ro[b])
           \/ /\ At(b, "rollout")
              /\ ro'[b] = Append(ro[b], [Cached(ro[b]) EXCEPT !.tmpl = rec[b].me.tmpl])
              /\ [Cached(ro[b]) EXCEPT !.tmpl = rec[b].me.tmpl] \in Rollouts
           \/ \E x \in Rollouts : /\ ro'[b] = Append(ro[b], x)
                                  /\ x.tmpl = Stored(ro[b]).tmpl
                                  /\ x.phase = "Healthy" => b \in served'
<1>0. /\ ro \in Objects(Rollouts) /\ ro \in [Agents -> Seq(Rollouts)]
      /\ \A a \in Agents : ro[a] \in Seq(Rollouts) /\ Len(ro[a]) > 0
      /\ \A a \in Agents : Stored(ro[a]) \in Rollouts /\ Cached(ro[a]) \in Rollouts
  BY StateObjects, ObjectFacts DEF TypeOK
<1>1. ASSUME NEW a \in Agents, ReconcileRollout(a), ro' # ro, a = b
      PROVE  /\ At(b, "rollout")
             /\ ro'[b] = Append(ro[b], [Cached(ro[b]) EXCEPT !.tmpl = rec[b].me.tmpl])
             /\ [Cached(ro[b]) EXCEPT !.tmpl = rec[b].me.tmpl] \in Rollouts
  <2>1. ro' = [ro EXCEPT ![a] = Append(@, [Cached(ro[a]) EXCEPT !.tmpl = rec[a].me.tmpl])]
    BY <1>1 DEF ReconcileRollout
  <2>2. rec[b].me.tmpl \in Nat
    BY RecordType DEF Reconciles, Specs
  <2>3. [Cached(ro[b]) EXCEPT !.tmpl = rec[b].me.tmpl] \in Rollouts
    BY <1>0, <2>2 DEF Rollouts
  <2> QED
    BY <1>0, <1>1, <2>1, <2>3 DEF ReconcileRollout
<1>2. ASSUME NEW a \in Agents, ReconcileRollout(a), a # b PROVE ro'[b] = ro[b]
  <2>1. \/ ro' = ro
        \/ ro' = [ro EXCEPT ![a] = Append(@, [Cached(ro[a]) EXCEPT !.tmpl = rec[a].me.tmpl])]
    BY <1>2 DEF ReconcileRollout
  <2> QED
    BY <1>0, <1>2, <2>1
<1>3. ASSUME NEW a \in Agents, DeliverRollout(a)
      PROVE  Range(ro'[b]) \subseteq Range(ro[b]) /\ Stored(ro'[b]) = Stored(ro[b])
  <2>1. Range(Tail(ro[a])) \subseteq Range(ro[a]) /\ Stored(Tail(ro[a])) = Stored(ro[a])
    BY <1>0, <1>3, VersionFacts, TailFacts DEF DeliverRollout
  <2>2. ro' = [ro EXCEPT ![a] = Tail(@)]
    BY <1>3 DEF DeliverRollout
  <2>3. ro'[b] = IF a = b THEN Tail(ro[b]) ELSE ro[b]
    BY <1>0, <2>2
  <2> QED
    BY <2>1, <2>3
<1>4. ASSUME Restart
      PROVE  Range(ro'[b]) \subseteq Range(ro[b]) /\ Stored(ro'[b]) = Stored(ro[b])
  <2>1. ro'[b] = <<Stored(ro[b])>>
    BY <1>4 DEF Restart
  <2>2. /\ Range(<<Stored(ro[b])>>) = {Stored(ro[b])} /\ Stored(ro[b]) \in Range(ro[b])
        /\ Stored(<<Stored(ro[b])>>) = Stored(ro[b])
    BY <1>0, VersionFacts, SingleFacts
  <2> QED
    BY <2>1, <2>2
<1>5. ASSUME NEW a \in Agents, Argo(a)
      PROVE  \/ ro'[b] = ro[b]
             \/ \E x \in Rollouts : /\ ro'[b] = Append(ro[b], x)
                                    /\ x.tmpl = Stored(ro[b]).tmpl
                                    /\ x.phase = "Healthy" => b \in served'
  <2>1. PICK x \in Rollouts : /\ ArgoWrites(a, x)
                              /\ x.tmpl = Stored(ro[a]).tmpl
                              /\ x.phase = "Healthy" => a \in served'
    <3>1. CASE ArgoObserves(a)
      <4>. DEFINE y == [Stored(ro[a]) EXCEPT !.cur = Stored(ro[a]).tmpl, !.phase = "Progressing"]
      <4>1. y \in Rollouts /\ y.tmpl = Stored(ro[a]).tmpl /\ y.phase = "Progressing"
        BY <1>0 DEF Rollouts, RolloutPhases
      <4> QED
        BY <3>1, <4>1 DEF ArgoObserves
    <3>2. CASE ArgoPromotes(a)
      <4>. DEFINE y == [Stored(ro[a]) EXCEPT !.phase = "Healthy"]
      <4>1. y \in Rollouts /\ y.tmpl = Stored(ro[a]).tmpl
        BY <1>0 DEF Rollouts, RolloutPhases
      <4> QED
        BY <3>2, <4>1 DEF ArgoPromotes
    <3>3. CASE ArgoAborts(a)
      <4>. DEFINE y == [Stored(ro[a]) EXCEPT !.phase = "Degraded"]
      <4>1. y \in Rollouts /\ y.tmpl = Stored(ro[a]).tmpl /\ y.phase = "Degraded"
        BY <1>0 DEF Rollouts, RolloutPhases
      <4> QED
        BY <3>3, <4>1 DEF ArgoAborts
    <3> QED
      BY <1>5, <3>1, <3>2, <3>3 DEF Argo
  <2>2. ro' = [ro EXCEPT ![a] = Append(@, x)]
    BY <2>1 DEF ArgoWrites
  <2>3. ro'[b] = IF a = b THEN Append(ro[b], x) ELSE ro[b]
    BY <1>0, <2>2
  <2> QED
    BY <2>1, <2>3
<1>6. ASSUME NEW a \in Agents, \/ Controller(a) /\ ~ReconcileRollout(a)
                               \/ StepFails(a) \/ DeliverAgent(a)
                               \/ CreateAgent(a) \/ EditSpec(a)
      PROVE  UNCHANGED ro
  BY <1>6 DEF Controller, StepFails, DeliverAgent, CreateAgent, EditSpec, UserWrites,
              Fetch, CheckDependency, Blocked, UpdateStatus
<1>7. CASE Restart
  BY <1>4, <1>7
<1>8. CASE \E a \in Agents : ReconcileRollout(a)
  BY <1>1, <1>2, <1>8
<1>9. CASE \E a \in Agents : Argo(a)
  BY <1>5, <1>9
<1>10. CASE \E a \in Agents : DeliverRollout(a)
  BY <1>3, <1>10
<1>11. CASE \E a \in Agents : \/ Controller(a) /\ ~ReconcileRollout(a)
                              \/ StepFails(a) \/ DeliverAgent(a)
                              \/ CreateAgent(a) \/ EditSpec(a)
  BY <1>6, <1>11
<1> QED
  BY <1>7, <1>8, <1>9, <1>10, <1>11 DEF Next

\* A reconcile starts with everything unchecked, passes one dependency at a time,
\* goes on to the status, or ends.
LEMMA ReconcileChange ==
    ASSUME TypeOK, Next, NEW b \in Agents
    PROVE  \/ /\ rec'[b].pc = rec[b].pc /\ rec'[b].me = rec[b].me
              /\ rec'[b].unchecked = rec[b].unchecked /\ rec[b].seen \subseteq rec'[b].seen
           \/ rec'[b].pc = "idle"
           \/ At(b, "rollout") /\ rec'[b].pc = "status"
           \/ /\ Cached(ad[b]).tmpl # 0
              /\ rec'[b].pc = IF Cached(ad[b]).deps = {} THEN "rollout" ELSE "gate"
              /\ rec'[b].me = Cached(ad[b])
              /\ rec'[b].unchecked = Cached(ad[b]).deps
           \/ /\ At(b, "gate")
              /\ \E d \in rec[b].unchecked :
                   /\ Ready(d)
                   /\ rec'[b].me = rec[b].me /\ rec'[b].seen = rec[b].seen
                   /\ rec'[b].unchecked = rec[b].unchecked \ {d}
                   /\ rec'[b].pc = IF rec[b].unchecked = {d} THEN "rollout" ELSE "gate"
<1>. DEFINE Same == /\ rec'[b].pc = rec[b].pc /\ rec'[b].me = rec[b].me
                    /\ rec'[b].unchecked = rec[b].unchecked
                    /\ rec[b].seen \subseteq rec'[b].seen
<1>0. rec \in [Agents -> Reconciles] /\ rec[b] \in Reconciles
  BY RecordType DEF TypeOK
<1>1. ASSUME NEW a \in Agents, Requeue(a) PROVE Same \/ rec'[b].pc = "idle"
  <2>1. rec'[b] = IF a = b THEN Idle ELSE rec[b]
    BY <1>0, <1>1 DEF Requeue
  <2> QED
    BY <2>1 DEF Idle
<1>2. ASSUME NEW a \in Agents, Fetch(a)
      PROVE  \/ Same
             \/ /\ Cached(ad[b]).tmpl # 0
                /\ rec'[b].pc = IF Cached(ad[b]).deps = {} THEN "rollout" ELSE "gate"
                /\ rec'[b].me = Cached(ad[b])
                /\ rec'[b].unchecked = Cached(ad[b]).deps
  <2>. DEFINE x == [pc |-> IF Cached(ad[a]).deps = {} THEN "rollout" ELSE "gate",
                    me |-> Cached(ad[a]), current |-> InSync(ad[a]),
                    unchecked |-> Cached(ad[a]).deps,
                    seen |-> {d \in Cached(ad[a]).deps : Cached(ad[d]).phase = "Stable"}]
  <2>1. rec' = rec \/ (Cached(ad[a]).tmpl # 0 /\ rec' = [rec EXCEPT ![a] = x])
    BY <1>2 DEF Fetch
  <2>2. rec'[b] = rec[b] \/ (a = b /\ Cached(ad[a]).tmpl # 0 /\ rec'[b] = x)
    BY <1>0, <2>1
  <2> QED
    BY <2>2
<1>3. ASSUME NEW a \in Agents, CheckDependency(a)
      PROVE  \/ Same
             \/ /\ At(b, "gate")
                /\ \E d \in rec[b].unchecked :
                     /\ Ready(d)
                     /\ rec'[b].me = rec[b].me /\ rec'[b].seen = rec[b].seen
                     /\ rec'[b].unchecked = rec[b].unchecked \ {d}
                     /\ rec'[b].pc = IF rec[b].unchecked = {d} THEN "rollout" ELSE "gate"
  <2>1. PICK d \in rec[a].unchecked :
               /\ Ready(d)
               /\ rec' = [rec EXCEPT ![a].unchecked = @ \ {d},
                                     ![a].pc = IF rec[a].unchecked = {d} THEN "rollout" ELSE "gate"]
    BY <1>3 DEF CheckDependency
  <2>2. CASE a = b
    <3>1. /\ rec'[b].me = rec[b].me /\ rec'[b].seen = rec[b].seen
          /\ rec'[b].unchecked = rec[b].unchecked \ {d}
          /\ rec'[b].pc = IF rec[b].unchecked = {d} THEN "rollout" ELSE "gate"
      BY <1>0, <2>1, <2>2 DEF Reconciles
    <3> QED
      BY <1>3, <2>1, <2>2, <3>1 DEF CheckDependency
  <2>3. CASE a # b
    <3>1. rec'[b] = rec[b]
      BY <1>0, <2>1, <2>3
    <3> QED
      BY <3>1
  <2> QED
    BY <2>2, <2>3
<1>4. ASSUME NEW a \in Agents, ReconcileRollout(a)
      PROVE  Same \/ rec'[b].pc = "idle" \/ (At(b, "rollout") /\ rec'[b].pc = "status")
  <2>1. Requeue(a) \/ rec' = [rec EXCEPT ![a].pc = "status"]
    BY <1>4 DEF ReconcileRollout
  <2>2. CASE rec' = [rec EXCEPT ![a].pc = "status"]
    <3>1. CASE a = b
      BY <1>0, <1>4, <2>2, <3>1 DEF ReconcileRollout, Reconciles
    <3>2. CASE a # b
      BY <1>0, <2>2, <3>2
    <3> QED
      BY <3>1, <3>2
  <2> QED
    BY <1>1, <2>1, <2>2
<1>5. ASSUME NEW a \in Agents, CreateAgent(a) \/ EditSpec(a) PROVE Same
  <2>1. rec' = [rec EXCEPT ![a].current = FALSE]
    BY <1>5 DEF CreateAgent, EditSpec, UserWrites
  <2> QED
    BY <1>0, <2>1 DEF Reconciles
<1>6. ASSUME NEW a \in Agents, DeliverAgent(a) \/ DeliverRollout(a) \/ Argo(a) PROVE Same
  <2>1. CASE DeliverAgent(a)
    <3>1. rec'[b] = rec[b] \/ rec'[b] = [rec[b] EXCEPT !.seen = @ \cup {a}]
      BY <2>1 DEF DeliverAgent
    <3> QED
      BY <1>0, <3>1 DEF Reconciles
  <2>2. CASE DeliverRollout(a) \/ Argo(a)
    BY <2>2 DEF DeliverRollout, Argo, ArgoObserves, ArgoPromotes, ArgoAborts, ArgoWrites
  <2> QED
    BY <1>6, <2>1, <2>2
<1>7. ASSUME NEW a \in Agents, Blocked(a) \/ UpdateStatus(a) \/ StepFails(a)
      PROVE  Same \/ rec'[b].pc = "idle"
  BY <1>1, <1>7 DEF Blocked, UpdateStatus, StepFails
<1>8. CASE Restart
  BY <1>8 DEF Restart, Idle
<1>9. CASE \E a \in Agents : Controller(a) \/ StepFails(a)
  BY <1>2, <1>3, <1>4, <1>7, <1>9 DEF Controller
<1>10. CASE \E a \in Agents : CreateAgent(a) \/ EditSpec(a)
  BY <1>5, <1>10
<1>11. CASE \E a \in Agents : DeliverAgent(a) \/ DeliverRollout(a) \/ Argo(a)
  BY <1>6, <1>11
<1> QED
  BY <1>8, <1>9, <1>10, <1>11 DEF Next

(***************************************************************************)
(* The gate.                                                               *)
(***************************************************************************)

\* What has been promoted once stays so on record.
LEMMA ServedGrows == ASSUME Next PROVE served \subseteq served'
  BY DEF Next, Controller, StepFails, DeliverAgent, DeliverRollout, CreateAgent, EditSpec,
         UserWrites, Argo, ArgoObserves, ArgoPromotes, ArgoAborts, Fetch, CheckDependency,
         Blocked, ReconcileRollout, UpdateStatus, Restart

\* Only a Healthy Rollout is reported Stable.
LEMMA StableMeansHealthy ==
    ASSUME NEW rollout, MapRolloutPhase(rollout) = "Stable"
    PROVE  rollout.phase = "Healthy"
  BY DEF MapRolloutPhase

\* What a reconcile has been shown: all that the cache now says of its dependencies.
Shown(b) ==
    /\ rec[b].seen \subseteq served /\ rec[b].unchecked \subseteq rec[b].me.deps
    /\ \A d \in rec[b].me.deps : Cached(ad[d]).phase = "Stable" => d \in rec[b].seen

\* Only an event changes what the cache says of an agent.
LEMMA CachedChange ==
    ASSUME TypeOK, NEW d \in Agents, NEW x \in Specs
    PROVE  Cached(Append(ad[d], x)) = Cached(ad[d])
<1>1. ad[d] \in Seq(Specs) /\ Len(ad[d]) > 0
  BY DEF TypeOK
<1> QED
  BY <1>1 DEF Cached

\* Every step keeps it that what the cache says has been shown.
LEMMA ShownStep ==
    ASSUME TypeOK, GateInvariant, Next, NEW b \in Agents
    PROVE  Shown(b)'
<1>0. /\ rec \in [Agents -> Reconciles] /\ rec[b] \in Reconciles /\ Shown(b)
      /\ rec[b].me.deps \subseteq Agents /\ served \subseteq served'
      /\ \A d \in Agents : Cached(ad[d]) \in Specs
      /\ \A d \in Agents : Cached(ad[d]).phase = "Stable" => d \in served
  <2>1. rec \in [Agents -> Reconciles] /\ rec[b] \in Reconciles /\ served \subseteq served'
    BY RecordType, ServedGrows DEF TypeOK
  <2>2. rec[b].me.deps \subseteq Agents
    BY <2>1 DEF Reconciles, Specs
  <2>3. ASSUME NEW d \in Agents
        PROVE  Cached(ad[d]) \in Specs /\ (Cached(ad[d]).phase = "Stable" => d \in served)
    <3>1. Cached(ad[d]) \in Specs /\ Cached(ad[d]) \in Range(ad[d])
      BY VersionFacts, EndFacts DEF TypeOK
    <3> QED
      BY <3>1 DEF GateInvariant
  <2>4. Shown(b)
    BY DEF GateInvariant, Shown
  <2> QED
    BY <2>1, <2>2, <2>3, <2>4
<1>1. ASSUME rec'[b] = Idle PROVE Shown(b)'
  <2>1. Idle.seen = {} /\ Idle.unchecked = {} /\ Idle.me.deps = {}
    BY DEF Idle, NoAgent
  <2>2. rec'[b].seen = {} /\ rec'[b].unchecked = {} /\ rec'[b].me.deps = {}
    BY <1>1, <2>1
  <2> QED
    BY <2>2 DEF Shown
<1>2. ASSUME rec'[b].me = rec[b].me, rec'[b].seen = rec[b].seen,
             rec'[b].unchecked \subseteq rec[b].unchecked,
             \A d \in Agents : Cached(ad'[d]) = Cached(ad[d])
      PROVE  Shown(b)'
  BY <1>0, <1>2 DEF Shown
<1>3. ASSUME NEW a \in Agents, Requeue(a), \A d \in Agents : Cached(ad'[d]) = Cached(ad[d])
      PROVE  Shown(b)'
  <2>1. rec'[b] = IF a = b THEN Idle ELSE rec[b]
    BY <1>0, <1>3 DEF Requeue
  <2> QED
    BY <1>1, <1>2, <1>3, <2>1
<1>4. ASSUME NEW a \in Agents, NEW x \in Specs, ad' = [ad EXCEPT ![a] = Append(@, x)]
      PROVE  \A d \in Agents : Cached(ad'[d]) = Cached(ad[d])
  BY <1>4, CachedChange DEF TypeOK
<1>5. ASSUME NEW a \in Agents, Fetch(a) PROVE Shown(b)'
  <2>. DEFINE x == [pc |-> IF Cached(ad[a]).deps = {} THEN "rollout" ELSE "gate",
                    me |-> Cached(ad[a]), current |-> InSync(ad[a]),
                    unchecked |-> Cached(ad[a]).deps,
                    seen |-> {d \in Cached(ad[a]).deps : Cached(ad[d]).phase = "Stable"}]
  <2>1. ad' = ad /\ served' = served /\ (rec' = rec \/ rec' = [rec EXCEPT ![a] = x])
    BY <1>5 DEF Fetch
  <2>2. rec'[b] = rec[b] \/ (a = b /\ rec'[b] = x)
    BY <1>0, <2>1
  <2>3. CASE rec'[b] = rec[b]
    BY <1>2, <2>1, <2>3
  <2>4. CASE a = b /\ rec'[b] = x
    <3>1. Cached(ad[a]).deps \subseteq Agents
      BY <1>0 DEF Specs
    <3>2. /\ rec'[b].me = Cached(ad[a]) /\ rec'[b].unchecked = Cached(ad[a]).deps
          /\ rec'[b].seen = {d \in Cached(ad[a]).deps : Cached(ad[d]).phase = "Stable"}
      BY <2>4
    <3> QED
      BY <1>0, <2>1, <3>1, <3>2 DEF Shown
  <2> QED
    BY <2>2, <2>3, <2>4
<1>6. ASSUME NEW a \in Agents, CheckDependency(a) PROVE Shown(b)'
  <2>1. PICK d \in rec[a].unchecked :
               rec' = [rec EXCEPT ![a].unchecked = @ \ {d},
                                  ![a].pc = IF rec[a].unchecked = {d} THEN "rollout" ELSE "gate"]
    BY <1>6 DEF CheckDependency
  <2>2. /\ rec'[b].me = rec[b].me /\ rec'[b].seen = rec[b].seen
        /\ rec'[b].unchecked \subseteq rec[b].unchecked
    <3>1. CASE a = b
      BY <1>0, <2>1, <3>1 DEF Reconciles
    <3>2. CASE a # b
      BY <1>0, <2>1, <3>2
    <3> QED
      BY <3>1, <3>2
  <2> QED
    BY <1>2, <1>6, <2>2 DEF CheckDependency
<1>7. ASSUME NEW a \in Agents, Blocked(a) \/ StepFails(a) PROVE Shown(b)'
  <2>1. Requeue(a) /\ ad' = ad
    BY <1>7 DEF Blocked, StepFails
  <2> QED
    BY <1>3, <2>1
<1>8. ASSUME NEW a \in Agents, ReconcileRollout(a) PROVE Shown(b)'
  <2>1. ad' = ad /\ (Requeue(a) \/ rec' = [rec EXCEPT ![a].pc = "status"])
    BY <1>8 DEF ReconcileRollout
  <2>2. CASE rec' = [rec EXCEPT ![a].pc = "status"]
    <3>1. /\ rec'[b].me = rec[b].me /\ rec'[b].seen = rec[b].seen
          /\ rec'[b].unchecked = rec[b].unchecked
      BY <1>0, <2>2 DEF Reconciles
    <3> QED
      BY <1>2, <2>1, <3>1
  <2> QED
    BY <1>3, <2>1, <2>2
<1>9. ASSUME NEW a \in Agents, UpdateStatus(a) PROVE Shown(b)'
  <2>. DEFINE new == [rec[a].me EXCEPT !.phase = MapRolloutPhase(Cached(ro[a]))]
  <2>1. Requeue(a) /\ (ad' = ad \/ ad' = [ad EXCEPT ![a] = Append(@, new)])
    BY <1>9 DEF UpdateStatus
  <2>2. new \in Specs
    <3>1. rec[a] \in Reconciles /\ ro \in Objects(Rollouts)
      BY RecordType, StateObjects
    <3>2. rec[a].me \in Specs
      BY <3>1 DEF Reconciles
    <3>3. Cached(ro[a]) \in Rollouts
      BY <3>1, ObjectFacts
    <3> QED
      BY <3>2, <3>3, WriteTypes
  <2>. HIDE DEF new
  <2>3. \A d \in Agents : Cached(ad'[d]) = Cached(ad[d])
    BY <1>4, <2>1, <2>2
  <2> QED
    BY <1>3, <2>1, <2>3
<1>10. ASSUME NEW a \in Agents, NEW x \in Specs, UserWrites(a, x) PROVE Shown(b)'
  <2>1. \A d \in Agents : Cached(ad'[d]) = Cached(ad[d])
    BY <1>4, <1>10 DEF UserWrites
  <2>2. /\ rec'[b].me = rec[b].me /\ rec'[b].seen = rec[b].seen
        /\ rec'[b].unchecked = rec[b].unchecked
    BY <1>0, <1>10 DEF UserWrites, Reconciles
  <2> QED
    BY <1>2, <2>1, <2>2
<1>11. ASSUME NEW a \in Agents, CreateAgent(a) PROVE Shown(b)'
  <2>1. PICK deps \in Choices[a] : UserWrites(a, [NoAgent EXCEPT !.tmpl = 1, !.deps = deps])
    BY <1>11 DEF CreateAgent
  <2>2. [NoAgent EXCEPT !.tmpl = 1, !.deps = deps] \in Specs
    BY ChoicesAssumption, WriteTypes, StateObjects
  <2> QED
    BY <1>10, <2>1, <2>2
<1>12. ASSUME NEW a \in Agents, EditSpec(a) PROVE Shown(b)'
  <2>0. ad \in Objects(Specs)
    BY StateObjects
  <2>1. Stored(ad[a]) \in Specs
    BY <2>0, ObjectFacts
  <2>4. Stored(ad[a]).tmpl \in Nat
    BY <2>1 DEF Specs
  <2>2. PICK deps \in Choices[a], tmpl \in {Stored(ad[a]).tmpl, Stored(ad[a]).tmpl + 1} :
               UserWrites(a, [Stored(ad[a]) EXCEPT !.tmpl = tmpl, !.deps = deps])
    BY <1>12 DEF EditSpec
  <2>3. [Stored(ad[a]) EXCEPT !.tmpl = tmpl, !.deps = deps] \in Specs
    <3>1. deps \in SUBSET Agents
      BY ChoicesAssumption
    <3>2. tmpl \in Nat
      BY <2>4
    <3> QED
      BY <2>1, <3>1, <3>2, WriteTypes
  <2> QED
    BY <1>10, <2>2, <2>3
<1>13. ASSUME NEW a \in Agents, DeliverAgent(a) PROVE Shown(b)'
  <2>1. \A d \in Agents : ad'[d] = IF d = a THEN Tail(ad[a]) ELSE ad[d]
    BY <1>13 DEF DeliverAgent, TypeOK
  <2>2. rec'[b] = IF Cached(Tail(ad[a])).phase = "Stable" /\ a \in rec[b].me.deps
                    THEN [rec[b] EXCEPT !.seen = @ \cup {a}] ELSE rec[b]
    BY <1>13 DEF DeliverAgent
  <2>3. Cached(Tail(ad[a])).phase = "Stable" => a \in served
    <3>1. /\ Tail(ad[a]) \in Seq(Specs) /\ Len(Tail(ad[a])) > 0
          /\ Range(Tail(ad[a])) \subseteq Range(ad[a])
      BY <1>13, TailFacts, VersionFacts DEF DeliverAgent, TypeOK
    <3>2. Cached(Tail(ad[a])) \in Range(Tail(ad[a]))
      BY <3>1, VersionFacts
    <3> QED
      BY <3>1, <3>2 DEF GateInvariant
  <2>4. served' = served
    BY <1>13 DEF DeliverAgent
  <2>5. /\ rec'[b].me = rec[b].me /\ rec'[b].unchecked = rec[b].unchecked
        /\ rec'[b].seen = IF Cached(Tail(ad[a])).phase = "Stable" /\ a \in rec[b].me.deps
                            THEN rec[b].seen \cup {a} ELSE rec[b].seen
    BY <1>0, <2>2 DEF Reconciles
  <2>6. rec'[b].seen \subseteq served'
    BY <1>0, <2>3, <2>4, <2>5 DEF Shown
  <2>7. ASSUME NEW d \in rec[b].me.deps, Cached(ad'[d]).phase = "Stable" PROVE d \in rec'[b].seen
    BY <1>0, <2>1, <2>5, <2>7 DEF Shown
  <2> QED
    BY <1>0, <2>5, <2>6, <2>7 DEF Shown
<1>14. ASSUME NEW a \in Agents, DeliverRollout(a) \/ Argo(a) PROVE Shown(b)'
  <2>1. ad' = ad /\ rec' = rec
    BY <1>14 DEF DeliverRollout, Argo, ArgoObserves, ArgoPromotes, ArgoAborts, ArgoWrites
  <2> QED
    BY <1>2, <2>1
<1>15. CASE Restart
  BY <1>1, <1>15 DEF Restart
<1>16. CASE \E a \in Agents : Controller(a) \/ StepFails(a)
  BY <1>5, <1>6, <1>7, <1>8, <1>9, <1>16 DEF Controller
<1>17. CASE \E a \in Agents : CreateAgent(a) \/ EditSpec(a)
  BY <1>11, <1>12, <1>17
<1>18. CASE \E a \in Agents : DeliverAgent(a) \/ DeliverRollout(a) \/ Argo(a)
  BY <1>13, <1>14, <1>18
<1> QED
  BY <1>15, <1>16, <1>17, <1>18 DEF Next

\* Every step keeps what the gate rests on.
LEMMA GateStep ==
    ASSUME TypeOK, GateInvariant, Next
    PROVE  GateInvariant'
<1>0. ASSUME NEW b \in Agents
      PROVE  /\ Range(ad[b]) \subseteq Specs /\ Range(ro[b]) \subseteq Rollouts
             /\ Cached(ad[b]) \in Range(ad[b]) /\ Cached(ro[b]) \in Range(ro[b])
             /\ Stored(ad[b]) \in Range(ad[b]) /\ Stored(ro[b]) \in Range(ro[b])
             /\ \A x \in Specs : Range(Append(ad[b], x)) = Range(ad[b]) \cup {x}
             /\ \A x \in Rollouts : Range(Append(ro[b], x)) = Range(ro[b]) \cup {x}
             /\ rec[b] \in Reconciles
  BY VersionFacts DEF TypeOK
<1>1. ASSUME NEW b \in Agents, NEW v \in Range(ad'[b]), v.phase = "Stable"
      PROVE  b \in served
  <2>1. CASE Range(ad'[b]) \subseteq Range(ad[b])
    BY <1>1, <2>1 DEF GateInvariant
  <2>2. CASE Range(ad'[b]) \subseteq Range(ad[b]) \cup
                 {[rec[b].me EXCEPT !.phase = MapRolloutPhase(Cached(ro[b]))]}
    <3>1. CASE v \in Range(ad[b])
      BY <1>1, <3>1 DEF GateInvariant
    <3>2. CASE v = [rec[b].me EXCEPT !.phase = MapRolloutPhase(Cached(ro[b]))]
      <4>1. rec[b].me \in Specs
        BY <1>0 DEF Reconciles
      <4>2. v.phase = MapRolloutPhase(Cached(ro[b]))
        BY <3>2, <4>1 DEF Specs
      <4>3. Cached(ro[b]).phase = "Healthy"
        BY <1>1, <4>2, StableMeansHealthy
      <4> QED
        BY <1>0, <4>3 DEF GateInvariant
    <3> QED
      BY <1>1, <2>2, <3>1, <3>2
  <2>3. CASE \E x \in Specs : /\ ad'[b] = Append(ad[b], x)
                              /\ x.phase \in {"", Stored(ad[b]).phase}
    <3>1. PICK x \in Specs : /\ ad'[b] = Append(ad[b], x)
                             /\ x.phase \in {"", Stored(ad[b]).phase}
      BY <2>3
    <3>2. v \in Range(ad[b]) \/ v = x
      <4>1. Range(Append(ad[b], x)) = Range(ad[b]) \cup {x}
        BY <1>0
      <4> QED
        BY <3>1, <4>1
    <3>3. Stored(ad[b]).phase = "Stable" => b \in served
      BY <1>0 DEF GateInvariant
    <3> QED
      BY <1>1, <3>1, <3>2, <3>3 DEF GateInvariant
  <2> QED
    BY <2>1, <2>2, <2>3, AgentChange
<1>2. ASSUME NEW b \in Agents, NEW v \in Range(ro'[b]), v.phase = "Healthy"
      PROVE  b \in served'
  <2>1. CASE v \in Range(ro[b])
    BY <1>2, <2>1, ServedGrows DEF GateInvariant
  <2>2. CASE v = [Cached(ro[b]) EXCEPT !.tmpl = rec[b].me.tmpl]
    <3>1. Cached(ro[b]) \in Rollouts
      BY <1>0
    <3>2. v.phase = Cached(ro[b]).phase
      BY <2>2, <3>1 DEF Rollouts
    <3> QED
      BY <1>0, <1>2, <3>2, ServedGrows DEF GateInvariant
  <2>3. ASSUME NEW x \in Rollouts, ro'[b] = Append(ro[b], x)
        PROVE  v \in Range(ro[b]) \/ v = x
    BY <1>0, <1>2, <2>3
  <2> QED
    BY <1>2, <2>1, <2>2, <2>3, RolloutChange
<1>3. ASSUME NEW b \in Agents
      PROVE  /\ rec'[b].pc = "gate"
                  => rec'[b].me.deps \ rec'[b].unchecked \subseteq rec'[b].seen
             /\ rec'[b].pc = "rollout" => rec'[b].me.deps \subseteq rec'[b].seen
  <2>1. CASE /\ rec'[b].pc = rec[b].pc /\ rec'[b].me = rec[b].me
             /\ rec'[b].unchecked = rec[b].unchecked /\ rec[b].seen \subseteq rec'[b].seen
    BY <2>1 DEF GateInvariant, At
  <2>2. CASE rec'[b].pc \in {"idle", "status"}
    BY <2>2
  <2>3. CASE /\ rec'[b].pc = IF Cached(ad[b]).deps = {} THEN "rollout" ELSE "gate"
             /\ rec'[b].me = Cached(ad[b])
             /\ rec'[b].unchecked = Cached(ad[b]).deps
    BY <2>3
  <2>4. CASE /\ At(b, "gate")
             /\ \E d \in rec[b].unchecked :
                  /\ Ready(d)
                  /\ rec'[b].me = rec[b].me /\ rec'[b].seen = rec[b].seen
                  /\ rec'[b].unchecked = rec[b].unchecked \ {d}
                  /\ rec'[b].pc = IF rec[b].unchecked = {d} THEN "rollout" ELSE "gate"
    <3>1. PICK d \in rec[b].unchecked :
                  /\ Ready(d)
                  /\ rec'[b].me = rec[b].me /\ rec'[b].seen = rec[b].seen
                  /\ rec'[b].unchecked = rec[b].unchecked \ {d}
                  /\ rec'[b].pc = IF rec[b].unchecked = {d} THEN "rollout" ELSE "gate"
      BY <2>4
    <3>2. d \in rec[b].seen
      BY <3>1 DEF Ready, GateInvariant
    <3>3. rec[b].me.deps \ rec[b].unchecked \subseteq rec[b].seen
      BY <2>4 DEF GateInvariant
    <3> QED
      BY <3>1, <3>2, <3>3
  <2> QED
    BY <2>1, <2>2, <2>3, <2>4, ReconcileChange
<1>4. ASSUME NEW b \in Agents PROVE Shown(b)'
  BY <1>4, ShownStep
<1>5. served \subseteq served'
  BY ServedGrows
<1> QED
  BY <1>1, <1>2, <1>3, <1>4, <1>5 DEF GateInvariant, At, Shown

\* An agent is Stable only once Argo has promoted it, and a reconcile past the
\* gate rests on promoted dependencies alone, for any dependencies.
THEOREM GateHolds == Spec => []GateInvariant
<1>1. Init => GateInvariant
  <2> SUFFICES ASSUME Init, NEW a \in Agents
               PROVE  /\ \A v \in Range(ad[a]) : v.phase # "Stable"
                      /\ \A v \in Range(ro[a]) : v.phase # "Healthy"
                      /\ rec[a] = Idle
    <3>1. Idle.seen = {} /\ Idle.unchecked = {} /\ Idle.me.deps = {} /\ Idle.pc = "idle"
      BY DEF Idle, NoAgent
    <3> QED
      BY <3>1 DEF GateInvariant, At
  <2>1. ad[a] = <<NoAgent>> /\ ro[a] = <<NoRollout>>
    BY DEF Init
  <2>2. ASSUME NEW x PROVE Range(<<x>>) = {x}
    BY DEF Range
  <2>3. Range(ad[a]) = {NoAgent} /\ Range(ro[a]) = {NoRollout}
    BY <2>1, <2>2
  <2>4. NoAgent.phase = "" /\ NoRollout.phase = "" /\ rec[a] = Idle
    BY DEF Init, NoAgent, NoRollout
  <2> QED
    BY <2>3, <2>4
<1>2. GateInvariant /\ UNCHANGED vars => GateInvariant'
  BY DEF GateInvariant, At, vars
<1> QED
  BY <1>1, <1>2, GateStep, TypeInvariant, PTL DEF Spec

\* No Rollout is created or given a new template by a reconcile that was not shown all
\* its dependencies Stable, for any dependencies.
THEOREM GatePromise == Spec => UpstreamStableFirst
<1>1. ASSUME TypeOK, GateInvariant, Next, NEW a \in Agents,
             Stored(ro'[a]).tmpl # Stored(ro[a]).tmpl
      PROVE  rec[a].me.deps \subseteq rec[a].seen \cap served
  <2>1. ASSUME NEW x \in Rollouts, ro'[a] = Append(ro[a], x) PROVE Stored(ro'[a]) = x
    <3>1. ro[a] \in Seq(Rollouts)
      BY <1>1 DEF TypeOK
    <3> QED
      BY <2>1, <3>1, AppendFacts
  <2>2. At(a, "rollout")
    BY <1>1, <2>1, RolloutChange
  <2> QED
    BY <1>1, <2>2 DEF GateInvariant
<1>2. TypeOK /\ GateInvariant /\ [Next]_vars =>
        [\A a \in Agents :
           Stored(ro'[a]).tmpl # Stored(ro[a]).tmpl
             => rec[a].me.deps \subseteq rec[a].seen \cap served]_vars
  BY <1>1
<1> QED
  BY <1>2, TypeInvariant, GateHolds, PTL DEF Spec, UpstreamStableFirst

\* No step frees an agent from a cycle, but an edit of a spec of the cycle.
THEOREM CyclesStay == Spec => CycleStaysStuck
<1>1. ASSUME TypeOK, Next, NEW S \in SUBSET Agents, Stuck(S), \A a \in S : SpecUnchanged(a),
             NEW b \in S
      PROVE  /\ \A v \in Range(ad'[b]) : v.phase # "Stable"
             /\ \A v \in Range(ad'[b]) : v.tmpl # 0 => v.deps \cap S # {}
             /\ rec'[b].pc \in {"idle", "gate"}
             /\ rec'[b].pc = "gate" => rec'[b].unchecked \cap S # {}
  <2>0. /\ b \in Agents /\ ad[b] \in Seq(Specs) /\ Len(ad[b]) > 0
        /\ Cached(ad[b]) \in Range(ad[b]) /\ Stored(ad[b]) \in Range(ad[b])
        /\ \A x \in Specs : Range(Append(ad[b], x)) = Range(ad[b]) \cup {x}
        /\ \A x \in Specs : Stored(Append(ad[b], x)) = x
    BY <1>1, VersionFacts, AppendFacts DEF TypeOK
  <2>1. /\ \A v \in Range(ad[b]) : v.phase # "Stable"
        /\ \A v \in Range(ad[b]) : v.tmpl # 0 => v.deps \cap S # {}
        /\ rec[b].pc \in {"idle", "gate"}
        /\ rec[b].pc = "gate" => rec[b].unchecked \cap S # {}
    BY <1>1 DEF Stuck, At
  <2>2. ASSUME NEW v \in Range(ad'[b])
        PROVE  v.phase # "Stable" /\ (v.tmpl # 0 => v.deps \cap S # {})
    <3>1. CASE v \in Range(ad[b])
      BY <2>1, <3>1
    <3>2. CASE v \notin Range(ad[b])
      <4>1. PICK x \in Specs : ad'[b] = Append(ad[b], x) /\ x.phase \in {"", Stored(ad[b]).phase}
        BY <2>0, <2>1, <2>2, <3>2, <1>1, AgentChange DEF At
      <4>2. v = x /\ Stored(ad'[b]) = x
        BY <2>0, <2>2, <3>2, <4>1
      <4>3. x.tmpl = Stored(ad[b]).tmpl /\ x.deps = Stored(ad[b]).deps
        BY <1>1, <4>2 DEF SpecUnchanged
      <4> QED
        BY <2>0, <2>1, <4>1, <4>2, <4>3
    <3> QED
      BY <3>1, <3>2
  <2>3. rec'[b].pc \in {"idle", "gate"} /\ (rec'[b].pc = "gate" => rec'[b].unchecked \cap S # {})
    <3>1. CASE rec'[b].pc = rec[b].pc /\ rec'[b].unchecked = rec[b].unchecked
      BY <2>1, <3>1
    <3>2. CASE rec'[b].pc = "idle"
      BY <3>2
    <3>3. CASE /\ Cached(ad[b]).tmpl # 0
               /\ rec'[b].pc = IF Cached(ad[b]).deps = {} THEN "rollout" ELSE "gate"
               /\ rec'[b].unchecked = Cached(ad[b]).deps
      <4>1. Cached(ad[b]).deps \cap S # {}
        BY <2>0, <2>1, <3>3
      <4> QED
        BY <3>3, <4>1
    <3>4. ASSUME At(b, "gate"), NEW d \in rec[b].unchecked, Ready(d),
                 rec'[b].unchecked = rec[b].unchecked \ {d},
                 rec'[b].pc = IF rec[b].unchecked = {d} THEN "rollout" ELSE "gate"
          PROVE  rec'[b].pc = "gate" /\ rec'[b].unchecked \cap S # {}
      <4>1. d \notin S
        <5>1. ASSUME d \in S PROVE FALSE
          <6>1. ad[d] \in Seq(Specs) /\ Len(ad[d]) > 0
            BY <1>1, <5>1 DEF TypeOK
          <6>2. Cached(ad[d]) \in Range(ad[d])
            BY <6>1, VersionFacts
          <6> QED
            BY <1>1, <3>4, <5>1, <6>2 DEF Stuck, Ready
        <5> QED
          BY <5>1
      <4>2. rec[b].unchecked \cap S # {}
        BY <2>1, <3>4 DEF At
      <4> QED
        BY <3>4, <4>1, <4>2
    <3>5. ~At(b, "rollout")
      BY <2>1 DEF At
    <3> QED
      BY <1>1, <2>0, <3>1, <3>2, <3>3, <3>4, <3>5, ReconcileChange
  <2> QED
    BY <2>2, <2>3
<1>2. TypeOK /\ Next => \A S \in SUBSET Agents :
        Stuck(S) /\ (\A a \in S : SpecUnchanged(a)) => Stuck(S)'
  <2> SUFFICES ASSUME TypeOK, Next, NEW S \in SUBSET Agents, Stuck(S),
                      \A a \in S : SpecUnchanged(a)
               PROVE  Stuck(S)'
    OBVIOUS
  <2>1. S # {}
    BY DEF Stuck
  <2> QED
    BY <1>1, <2>1 DEF Stuck, At
<1>3. TypeOK /\ [Next]_vars =>
        [\A S \in SUBSET Agents :
           Stuck(S) /\ (\A a \in S : SpecUnchanged(a)) => Stuck(S)']_vars
  BY <1>2
<1> QED
  BY <1>3, TypeInvariant, PTL DEF Spec, CycleStaysStuck

=============================================================================
