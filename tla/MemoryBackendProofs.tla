------------------------- MODULE MemoryBackendProofs -------------------------
(***************************************************************************)
(* Proofs about MemoryBackend, for any memory options, number of edits,    *)
(* versions and faults.                                                    *)
(***************************************************************************)
EXTENDS MemoryBackend, InformerCacheProofs, TLAPS

\* What the controller, the user and Argo write has the type of what they read.
LEMMA WriteTypes ==
    /\ NewAgent \in Agents /\ NoRollout \in Rollouts /\ NoSecret \in Secrets
    /\ \A a \in Agents :
         /\ \A t \in Nat : [a EXCEPT !.tmpl = t] \in Agents /\ [a EXCEPT !.snap = t] \in Agents
         /\ \A r \in Rollouts : [a EXCEPT !.phase = MapRolloutPhase(r)] \in Agents
    /\ \A r \in Rollouts :
         /\ \A t \in Nat : [r EXCEPT !.tmpl = t] \in Rollouts
         /\ [r EXCEPT !.cur = r.tmpl, !.phase = "Progressing"] \in Rollouts
         /\ [r EXCEPT !.stable = r.cur, !.phase = "Healthy"] \in Rollouts
         /\ [r EXCEPT !.phase = "Degraded"] \in Rollouts
<1>1. NewAgent \in Agents /\ NoRollout \in Rollouts /\ NoSecret \in Secrets
  BY DEF NewAgent, NoRollout, NoSecret, Agents, Rollouts, Secrets, Phases, RolloutPhases
<1>2. \A r \in Rollouts : MapRolloutPhase(r) \in Phases
  BY DEF MapRolloutPhase, Phases, Rollouts
<1>3. ASSUME NEW a \in Agents
      PROVE  /\ \A t \in Nat : [a EXCEPT !.tmpl = t] \in Agents /\ [a EXCEPT !.snap = t] \in Agents
             /\ \A r \in Rollouts : [a EXCEPT !.phase = MapRolloutPhase(r)] \in Agents
  BY <1>2 DEF Agents
<1>4. ASSUME NEW r \in Rollouts
      PROVE  /\ \A t \in Nat : [r EXCEPT !.tmpl = t] \in Rollouts
             /\ [r EXCEPT !.cur = r.tmpl, !.phase = "Progressing"] \in Rollouts
             /\ [r EXCEPT !.stable = r.cur, !.phase = "Healthy"] \in Rollouts
             /\ [r EXCEPT !.phase = "Degraded"] \in Rollouts
  BY DEF Rollouts, RolloutPhases
<1> QED
  BY <1>1, <1>3, <1>4

\* The cached and the stored versions.
LEMMA ObjectTypes ==
    ASSUME TypeOK
    PROVE  /\ Cached(ad) \in Agents /\ Stored(ad) \in Agents
           /\ Cached(ro) \in Rollouts /\ Stored(ro) \in Rollouts
           /\ Cached(secret) \in Secrets /\ Stored(secret) \in Secrets
  BY EndFacts DEF TypeOK

\* A write appends a version.
LEMMA AppendTypes ==
    ASSUME TypeOK
    PROVE  /\ \A x \in Agents : Append(ad, x) \in Seq(Agents) /\ Len(Append(ad, x)) > 0
           /\ \A x \in Rollouts : Append(ro, x) \in Seq(Rollouts) /\ Len(Append(ro, x)) > 0
           /\ \A x \in Secrets : Append(secret, x) \in Seq(Secrets) /\ Len(Append(secret, x)) > 0
<1>1. ASSUME NEW S, NEW o \in Seq(S), NEW x \in S
      PROVE  Append(o, x) \in Seq(S) /\ Len(Append(o, x)) > 0
  BY AppendFacts
<1>2. ad \in Seq(Agents) /\ ro \in Seq(Rollouts) /\ secret \in Seq(Secrets)
  BY DEF TypeOK
<1>3. \A x \in Agents : Append(ad, x) \in Seq(Agents) /\ Len(Append(ad, x)) > 0
  BY <1>1, <1>2
<1>4. \A x \in Rollouts : Append(ro, x) \in Seq(Rollouts) /\ Len(Append(ro, x)) > 0
  BY <1>1, <1>2
<1>5. \A x \in Secrets : Append(secret, x) \in Seq(Secrets) /\ Len(Append(secret, x)) > 0
  BY <1>1, <1>2
<1> QED
  BY <1>3, <1>4, <1>5

\* A reconcile that ends.
LEMMA ReturnType ==
    ASSUME Return
    PROVE  pc' \in Steps /\ me' \in Agents /\ current' \in BOOLEAN /\ held' \subseteq Nat
  BY WriteTypes DEF Return, Steps

\* Every step keeps the types.
LEMMA TypeStep ==
    ASSUME TypeOK, Next
    PROVE  TypeOK'
<1>. USE ObjectTypes DEF TypeOK, Outside
<1>1. ASSUME Fetch PROVE TypeOK'
  BY <1>1 DEF Fetch, Steps, InSync
<1>2. ASSUME ReconcileRollout PROVE TypeOK'
  <2>1. [Cached(ro) EXCEPT !.tmpl = me.tmpl] \in Rollouts
    BY WriteTypes DEF Agents
  <2>2. ro' = ro \/ ro' = Append(ro, [Cached(ro) EXCEPT !.tmpl = me.tmpl])
    BY <1>2 DEF ReconcileRollout
  <2>3. ro' \in Seq(Rollouts) /\ Len(ro') > 0
    BY <2>1, <2>2, AppendFacts
  <2>4. pc' \in Steps /\ me' \in Agents /\ current' \in BOOLEAN /\ held' \subseteq Nat
    BY <1>2, ReturnType DEF ReconcileRollout, Steps
  <2> QED
    BY <1>2, <2>3, <2>4 DEF ReconcileRollout
<1>3. ASSUME NothingToDo \/ BackendFails \/ Export PROVE TypeOK'
  BY <1>3 DEF NothingToDo, BackendFails, Export, Steps
<1>4. ASSUME SaveSnapshot PROVE TypeOK'
  <2>1. me.tmpl \in Nat /\ [me EXCEPT !.snap = me.tmpl] \in Agents
    BY WriteTypes DEF Agents
  <2>2. [ver |-> me.tmpl, data |-> held] \in Secrets
    BY <2>1 DEF Secrets
  <2>3. \/ secret' = secret /\ me' = me
        \/ /\ secret' = Append(secret, [ver |-> me.tmpl, data |-> held])
           /\ me' = [me EXCEPT !.snap = me.tmpl]
    BY <1>4 DEF SaveSnapshot
  <2>4. me' \in Agents
    BY <2>1, <2>3
  <2>5. secret' \in Seq(Secrets) /\ Len(secret') > 0
    <3>. DEFINE new == [ver |-> me.tmpl, data |-> held]
    <3>1. new \in Secrets /\ (secret' = secret \/ secret' = Append(secret, new))
      BY <2>2, <2>3
    <3>. HIDE DEF new
    <3> QED
      BY <3>1, AppendTypes
  <2> QED
    BY <1>4, <2>4, <2>5 DEF SaveSnapshot, Steps
<1>5. ASSUME ReadSnapshot PROVE TypeOK'
  <2>1. Cached(secret).data \subseteq Nat
    BY DEF Secrets
  <2> QED
    BY <1>5, <2>1 DEF ReadSnapshot, Steps
<1>6. ASSUME Import PROVE TypeOK'
  BY <1>6 DEF Import, Steps
<1>7. ASSUME UpdateStatus PROVE TypeOK'
  <2>1. [me EXCEPT !.phase = LivePhase] \in Agents
    BY WriteTypes DEF LivePhase
  <2>2. ad' \in Seq(Agents) /\ Len(ad') > 0
    BY <1>7, <2>1, AppendFacts DEF UpdateStatus
  <2> QED
    BY <1>7, <2>2, ReturnType DEF UpdateStatus
<1>8. ASSUME StepFails PROVE TypeOK'
  BY <1>8, ReturnType, BoundsAssumption DEF StepFails, Fault
<1>9. ASSUME Restart PROVE TypeOK'
  <2>1. /\ ad' \in Seq(Agents) /\ Len(ad') > 0
        /\ ro' \in Seq(Rollouts) /\ Len(ro') > 0
        /\ secret' \in Seq(Secrets) /\ Len(secret') > 0
    BY <1>9, SingleFacts DEF Restart
  <2> QED
    BY <1>9, <2>1, ReturnType, BoundsAssumption DEF Restart, Fault
<1>10. ASSUME DeliverAgent \/ DeliverRollout \/ DeliverSecret PROVE TypeOK'
  BY <1>10, TailFacts DEF DeliverAgent, DeliverRollout, DeliverSecret
<1>11. ASSUME EditSpec PROVE TypeOK'
  <2>. DEFINE next == Stored(ad).tmpl + 1
  <2>1. next \in Nat
    BY DEF Agents
  <2>2. ad' = Append(ad, [Stored(ad) EXCEPT !.tmpl = next])
    BY <1>11 DEF EditSpec
  <2>. HIDE DEF next
  <2>3. ad' \in Seq(Agents) /\ Len(ad') > 0
    <3>1. [Stored(ad) EXCEPT !.tmpl = next] \in Agents
      BY <2>1, WriteTypes
    <3> QED
      BY <2>2, <3>1, AppendTypes
  <2>4. edits' \in 0..MaxEdits
    BY <1>11, BoundsAssumption DEF EditSpec
  <2> QED
    BY <1>11, <2>3, <2>4 DEF EditSpec
<1>12. ASSUME NEW r \in Rollouts, ArgoWrites(r)
       PROVE  ro' \in Seq(Rollouts) /\ Len(ro') > 0
  BY <1>12, AppendFacts DEF ArgoWrites
<1>13. ASSUME ArgoObserves \/ ArgoPromotes \/ ArgoAborts PROVE TypeOK'
  <2>1. Stored(ro).cur \in Nat
    BY DEF Rollouts
  <2>2. PICK r \in Rollouts : ArgoWrites(r)
    BY <1>13, WriteTypes DEF ArgoObserves, ArgoPromotes, ArgoAborts
  <2>3. before' \subseteq Nat /\ failed' \subseteq Nat /\ faults' \in 0..MaxFaults
    BY <1>13, <2>1, BoundsAssumption DEF ArgoObserves, ArgoPromotes, ArgoAborts, Fault
  <2> QED
    BY <1>12, <2>2, <2>3 DEF ArgoWrites
<1>14. ASSUME Remember PROVE TypeOK'
  <2>1. Running \subseteq Nat
    BY DEF Running, Rollouts
  <2> QED
    BY <1>14, <2>1 DEF Remember
<1> QED
  BY <1>1, <1>2, <1>3, <1>4, <1>5, <1>6, <1>7, <1>8, <1>9, <1>10, <1>11, <1>13, <1>14
     DEF Next, Controller

\* The variables keep their types, for any options and bounds.
THEOREM TypeInvariant == Spec => []TypeOK
<1>1. Init => TypeOK
  <2> SUFFICES ASSUME Init PROVE TypeOK
    OBVIOUS
  <2>1. /\ <<NewAgent>> \in Seq(Agents) /\ Len(<<NewAgent>>) > 0
        /\ <<NoRollout>> \in Seq(Rollouts) /\ Len(<<NoRollout>>) > 0
        /\ <<NoSecret>> \in Seq(Secrets) /\ Len(<<NoSecret>>) > 0
    <3>1. ASSUME NEW S, NEW x \in S PROVE <<x>> \in Seq(S) /\ Len(<<x>>) > 0
      BY SingleFacts
    <3> QED
      BY <3>1, WriteTypes
  <2>2. /\ ad \in Seq(Agents) /\ Len(ad) > 0
        /\ ro \in Seq(Rollouts) /\ Len(ro) > 0
        /\ secret \in Seq(Secrets) /\ Len(secret) > 0
    BY <2>1 DEF Init
  <2>3. edits \in 0..MaxEdits /\ faults \in 0..MaxFaults
    BY BoundsAssumption DEF Init
  <2>4. pc \in Steps /\ me \in Agents /\ current \in BOOLEAN
    BY WriteTypes DEF Init, Steps
  <2>5. memory \subseteq Nat /\ held \subseteq Nat /\ before \subseteq Nat /\ failed \subseteq Nat
    BY DEF Init
  <2> QED
    BY <2>2, <2>3, <2>4, <2>5 DEF TypeOK
<1>2. TypeOK /\ UNCHANGED vars => TypeOK'
  BY DEF TypeOK, vars
<1> QED
  BY <1>1, <1>2, TypeStep, PTL DEF Spec

(***************************************************************************)
(* The order of the versions.                                              *)
(***************************************************************************)

\* What an order on the versions of an object says of its ends, and what keeps it.
LEMMA AscendingFacts ==
    ASSUME NEW S, NEW o \in Seq(S), Len(o) > 0, \A x \in S : x.tmpl \in Nat, Ascending(o)
    PROVE  /\ \A i \in 1..Len(o) : Cached(o).tmpl <= o[i].tmpl /\ o[i].tmpl <= Stored(o).tmpl
           /\ Cached(o).tmpl <= Stored(o).tmpl
           /\ \A x \in S : /\ Cached(Append(o, x)) = Cached(o)
                           /\ Stored(o).tmpl <= x.tmpl => Ascending(Append(o, x))
           /\ ~InSync(o) => Ascending(Tail(o)) /\ Cached(o).tmpl <= Cached(Tail(o)).tmpl
           /\ Ascending(<<Stored(o)>>)
<1>0. /\ Len(o) \in Nat /\ 1 \in 1..Len(o) /\ Len(o) \in 1..Len(o)
      /\ Cached(o) = o[1] /\ Stored(o) = o[Len(o)]
      /\ \A i \in 1..Len(o) : o[i].tmpl \in Nat
  BY EndFacts DEF Stored
<1>1. \A i \in 1..Len(o) : Cached(o).tmpl <= o[i].tmpl /\ o[i].tmpl <= Stored(o).tmpl
  BY <1>0 DEF Ascending
<1>2. ASSUME NEW x \in S
      PROVE  /\ Cached(Append(o, x)) = Cached(o)
             /\ Stored(o).tmpl <= x.tmpl => Ascending(Append(o, x))
  <2>1. /\ Append(o, x) \in Seq(S) /\ Len(Append(o, x)) = Len(o) + 1
        /\ Append(o, x)[Len(o) + 1] = x
        /\ \A i \in 1..Len(o) : Append(o, x)[i] = o[i]
    BY <1>0, AppendFacts DEF Stored
  <2>2. Cached(Append(o, x)) = Cached(o)
    <3>1. Cached(Append(o, x)) = Append(o, x)[1]
      BY <1>0, <2>1 DEF Cached
    <3> QED
      BY <1>0, <2>1, <3>1
  <2>3. ASSUME Stored(o).tmpl <= x.tmpl, NEW i \in 1..Len(Append(o, x)),
               NEW j \in 1..Len(Append(o, x)), i <= j
        PROVE  Append(o, x)[i].tmpl <= Append(o, x)[j].tmpl
    <3>0. x.tmpl \in Nat /\ i \in 1..(Len(o) + 1) /\ j \in 1..(Len(o) + 1)
      BY <2>1
    <3>1. CASE j \in 1..Len(o)
      BY <1>0, <2>1, <2>3, <3>0, <3>1 DEF Ascending
    <3>2. CASE j = Len(o) + 1 /\ i \in 1..Len(o)
      <4>1. o[i].tmpl <= Stored(o).tmpl /\ Stored(o).tmpl \in Nat /\ o[i].tmpl \in Nat
        BY <1>0, <1>1, <3>2
      <4> QED
        BY <2>1, <2>3, <3>0, <3>2, <4>1
    <3>3. CASE i = Len(o) + 1 /\ j = Len(o) + 1
      BY <2>1, <3>0, <3>3
    <3> QED
      BY <1>0, <2>3, <3>0, <3>1, <3>2, <3>3
  <2> QED
    BY <2>2, <2>3 DEF Ascending
<1>3. ASSUME ~InSync(o)
      PROVE  Ascending(Tail(o)) /\ Cached(o).tmpl <= Cached(Tail(o)).tmpl
  <2>1. /\ Tail(o) \in Seq(S) /\ Len(Tail(o)) = Len(o) - 1 /\ Len(Tail(o)) > 0
        /\ \A i \in 1..Len(Tail(o)) : Tail(o)[i] = o[i + 1]
    BY <1>3, TailFacts
  <2>2. Ascending(Tail(o))
    BY <1>0, <2>1 DEF Ascending
  <2>3. Cached(Tail(o)) = Tail(o)[1]
    BY <2>1, EndFacts
  <2>4. Cached(Tail(o)) = o[2] /\ 2 \in 1..Len(o)
    BY <1>0, <2>1, <2>3
  <2> QED
    BY <1>1, <2>2, <2>4
<1>4. Ascending(<<Stored(o)>>)
  <2>1. Stored(o) \in S
    BY EndFacts
  <2>2. Len(<<Stored(o)>>) = 1 /\ <<Stored(o)>>[1] = Stored(o)
    BY <2>1, SingleFacts
  <2>3. Stored(o).tmpl \in Nat
    BY <2>1
  <2> QED
    BY <2>2, <2>3 DEF Ascending
<1> QED
  BY <1>0, <1>1, <1>2, <1>3, <1>4

\* What the invariant says of the ends of the objects.
LEMMA OrderFacts ==
    ASSUME TypeOK, Inductive
    PROVE  /\ Cached(ad).tmpl \in Nat /\ Stored(ad).tmpl \in Nat /\ me.tmpl \in Nat /\ me.snap \in Nat
           /\ Cached(ro).tmpl \in Nat /\ Stored(ro).tmpl \in Nat
           /\ Stored(secret).ver \in Nat
           /\ Cached(ad).tmpl <= Stored(ad).tmpl /\ Cached(ro).tmpl <= Stored(ro).tmpl
           /\ Stored(ro).tmpl <= Cached(ad).tmpl
           /\ Stored(secret).ver <= Stored(ro).tmpl
           /\ Stored(ad).snap \in Nat /\ Stored(ad).snap <= Stored(secret).ver
<1>1. /\ ad \in Seq(Agents) /\ Len(ad) > 0 /\ \A x \in Agents : x.tmpl \in Nat
      /\ ro \in Seq(Rollouts) /\ Len(ro) > 0 /\ \A x \in Rollouts : x.tmpl \in Nat
      /\ secret \in Seq(Secrets) /\ Len(secret) > 0
  BY DEF TypeOK, Agents, Rollouts
<1>2. Cached(ad).tmpl <= Stored(ad).tmpl /\ Cached(ro).tmpl <= Stored(ro).tmpl
  BY <1>1, AscendingFacts DEF Inductive, InOrder
<1>3. Stored(ad) \in Range(ad) /\ Stored(secret) \in Range(secret)
  BY <1>1, VersionFacts
<1>4. /\ Stored(secret).ver <= Stored(ro).tmpl /\ Stored(ad).snap <= Stored(secret).ver
      /\ Stored(ro).tmpl <= Cached(ad).tmpl
  BY <1>3 DEF Inductive, InOrder, SnapshotBacksStatus
<1>5. /\ Cached(ad).tmpl \in Nat /\ Stored(ad).tmpl \in Nat /\ Stored(ad).snap \in Nat
      /\ Cached(ro).tmpl \in Nat /\ Stored(ro).tmpl \in Nat
      /\ Stored(secret).ver \in Nat /\ me.tmpl \in Nat /\ me.snap \in Nat
  BY ObjectTypes DEF TypeOK, Agents, Rollouts, Secrets
<1> QED
  BY <1>2, <1>4, <1>5

\* A reconcile that ends keeps the invariant.
LEMMA ReturnStep ==
    ASSUME TypeOK, Inductive, Return, UNCHANGED <<ad, ro, secret, memory, failed>>
    PROVE  Inductive'
<1>. USE OrderFacts DEF Inductive, Return
<1>1. InOrder' /\ MemoryInOrder' /\ FailureFirst' /\ LabelBoundsContent'
  BY DEF InOrder, MemoryInOrder, FailureFirst, LabelBoundsContent
<1>2. NewAgent.snap = 0
  BY DEF NewAgent
<1>3. me'.snap <= Stored(secret).ver
  BY <1>2
<1> QED
  BY <1>1, <1>3 DEF SnapshotBacksStatus

\* A step of a reconcile that writes no object keeps the invariant.
LEMMA QuietStep ==
    ASSUME TypeOK, Inductive, UNCHANGED <<ad, ro, secret>>,
           Fetch \/ NothingToDo \/ BackendFails \/ Export \/ ReadSnapshot \/ Import
             \/ Remember
    PROVE  Inductive'
<1>. USE OrderFacts DEF Inductive, Outside
<1>0. \A S : \A o \in Seq(S) :
        Len(o) > 0 => Stored(o) \in Range(o) /\ Cached(o) \in Range(o)
  BY VersionFacts
<1>1. /\ Cached(ad) \in Range(ad) /\ Cached(ro) \in Range(ro) /\ Stored(ro) \in Range(ro)
      /\ Cached(secret) \in Range(secret)
  BY <1>0 DEF TypeOK
<1>2. InOrder'
  <2>1. CASE Fetch
    <3>1. InSync(ad) => Cached(ad) = Stored(ad)
      BY EndFacts DEF TypeOK, InSync, Stored
    <3> QED
      BY <2>1, <3>1 DEF Fetch, InOrder
  <2>2. CASE NothingToDo \/ BackendFails \/ Export \/ ReadSnapshot \/ Import
    BY <2>2 DEF NothingToDo, BackendFails, Export, ReadSnapshot, Import, InOrder
  <2>3. CASE Remember
    BY <2>3 DEF Remember, InOrder
  <2> QED
    BY <2>1, <2>2, <2>3
<1>3. MemoryInOrder'
  <2>1. CASE ReadSnapshot
    <3>2. Cached(secret).ver \in Nat /\ Cached(secret).data \subseteq Nat
      BY ObjectTypes DEF Secrets
    <3>3. \A v \in Cached(secret).data : v <= Cached(secret).ver
      BY <1>1 DEF LabelBoundsContent
    <3>4. Cached(secret).ver <= Stored(ro).tmpl
      BY <1>1 DEF InOrder
    <3>5. \A v \in Cached(secret).data : v <= Stored(ro).tmpl
      BY <3>2, <3>3, <3>4
    <3>6. held' = held \/ held' = Cached(secret).data
      BY <2>1 DEF ReadSnapshot
    <3> QED
      BY <2>1, <3>5, <3>6 DEF ReadSnapshot, MemoryInOrder
  <2>2. CASE Remember
    <3>2. Stored(ro).cur \in Nat /\ Stored(ro).stable \in Nat
      BY ObjectTypes DEF Rollouts
    <3>3. Stored(ro).cur <= Stored(ro).tmpl /\ Stored(ro).stable <= Stored(ro).cur
      BY <1>1 DEF InOrder
    <3>4. \A v \in Running : v <= Stored(ro).tmpl
      BY <3>2, <3>3 DEF Running
    <3> QED
      BY <2>2, <3>4 DEF Remember, MemoryInOrder
  <2>3. CASE Fetch \/ NothingToDo \/ BackendFails \/ Export \/ Import
    BY <2>3 DEF Fetch, NothingToDo, BackendFails, Export, Import, MemoryInOrder
  <2> QED
    BY <2>1, <2>2, <2>3
<1>4. FailureFirst'
  <2>1. CASE ReadSnapshot
    <3>2. Cached(ro).phase = "Degraded"
      BY <2>1, ObjectTypes DEF ReadSnapshot, CanaryFailed, LivePhase, MapRolloutPhase, Rollouts
    <3>3. failed # {}
      BY <1>1, <3>2 DEF FailureFirst
    <3> QED
      BY <2>1, <3>3 DEF ReadSnapshot, FailureFirst
  <2>2. CASE Fetch \/ NothingToDo \/ BackendFails \/ Export \/ Import \/ Remember
    BY <2>2 DEF Fetch, NothingToDo, BackendFails, Export, Import, Remember, FailureFirst
  <2> QED
    BY <2>1, <2>2
<1>5. SnapshotBacksStatus'
  <2>1. CASE Fetch
    BY <1>1, <2>1 DEF Fetch, SnapshotBacksStatus
  <2>2. CASE NothingToDo \/ BackendFails \/ Export \/ ReadSnapshot \/ Import \/ Remember
    BY <2>2 DEF NothingToDo, BackendFails, Export, ReadSnapshot, Import, Remember,
                SnapshotBacksStatus
  <2> QED
    BY <2>1, <2>2
<1>6. LabelBoundsContent'
  BY DEF LabelBoundsContent
<1> QED
  BY <1>2, <1>3, <1>4, <1>5, <1>6

\* What a write, an event and a fresh list make of the AgentDeployment.
LEMMA AgentFacts ==
    ASSUME TypeOK, Inductive
    PROVE  /\ \A x \in Agents :
                /\ Range(Append(ad, x)) = Range(ad) \cup {x}
                /\ Stored(Append(ad, x)) = x /\ Cached(Append(ad, x)) = Cached(ad)
                /\ Stored(ad).tmpl <= x.tmpl => Ascending(Append(ad, x))
           /\ ~InSync(ad) => /\ Range(Tail(ad)) \subseteq Range(ad)
                             /\ Stored(Tail(ad)) = Stored(ad)
                             /\ Cached(ad).tmpl <= Cached(Tail(ad)).tmpl
                             /\ Cached(Tail(ad)).tmpl \in Nat
                             /\ Ascending(Tail(ad))
           /\ Range(<<Stored(ad)>>) = {Stored(ad)} /\ Stored(ad) \in Range(ad)
           /\ Stored(<<Stored(ad)>>) = Stored(ad) /\ Cached(<<Stored(ad)>>) = Stored(ad)
           /\ Ascending(<<Stored(ad)>>)
<1>1. /\ ad \in Seq(Agents) /\ Len(ad) > 0 /\ \A x \in Agents : x.tmpl \in Nat
      /\ Ascending(ad) /\ Stored(ad) \in Agents
  BY ObjectTypes DEF TypeOK, Agents, Inductive, InOrder
<1>2. /\ \A x \in Agents : Range(Append(ad, x)) = Range(ad) \cup {x}
      /\ ~InSync(ad) => Range(Tail(ad)) \subseteq Range(ad)
      /\ Range(<<Stored(ad)>>) = {Stored(ad)} /\ Stored(ad) \in Range(ad)
  BY <1>1, VersionFacts
<1>3. ASSUME NEW x \in Agents
      PROVE  /\ Stored(Append(ad, x)) = x /\ Cached(Append(ad, x)) = Cached(ad)
             /\ Stored(ad).tmpl <= x.tmpl => Ascending(Append(ad, x))
  <2>1. Stored(Append(ad, x)) = x
    BY <1>1, AppendFacts
  <2>2. /\ Cached(Append(ad, x)) = Cached(ad)
        /\ Stored(ad).tmpl <= x.tmpl => Ascending(Append(ad, x))
    BY <1>1, AscendingFacts
  <2> QED
    BY <2>1, <2>2
<1>4. ASSUME ~InSync(ad)
      PROVE  /\ Stored(Tail(ad)) = Stored(ad)
             /\ Cached(ad).tmpl <= Cached(Tail(ad)).tmpl /\ Cached(Tail(ad)).tmpl \in Nat
             /\ Ascending(Tail(ad))
  <2>1. Stored(Tail(ad)) = Stored(ad) /\ Tail(ad) \in Seq(Agents) /\ Len(Tail(ad)) > 0
    BY <1>1, <1>4, TailFacts
  <2>2. Cached(Tail(ad)) \in Agents
    BY <2>1, EndFacts
  <2>3. Cached(ad).tmpl <= Cached(Tail(ad)).tmpl /\ Ascending(Tail(ad))
    BY <1>1, <1>4, AscendingFacts
  <2> QED
    BY <1>1, <2>1, <2>2, <2>3
<1>5. Stored(<<Stored(ad)>>) = Stored(ad) /\ Cached(<<Stored(ad)>>) = Stored(ad)
  BY <1>1, SingleFacts DEF Cached
<1>6. Ascending(<<Stored(ad)>>)
  BY <1>1, AscendingFacts
<1> QED
  BY <1>2, <1>3, <1>4, <1>5, <1>6

\* The same of the Rollout.
LEMMA RolloutFacts ==
    ASSUME TypeOK, Inductive
    PROVE  /\ \A x \in Rollouts :
                /\ Range(Append(ro, x)) = Range(ro) \cup {x}
                /\ Stored(Append(ro, x)) = x
                /\ Stored(ro).tmpl <= x.tmpl => Ascending(Append(ro, x))
           /\ ~InSync(ro) => /\ Range(Tail(ro)) \subseteq Range(ro)
                             /\ Stored(Tail(ro)) = Stored(ro)
                             /\ Ascending(Tail(ro))
           /\ Range(<<Stored(ro)>>) = {Stored(ro)}
           /\ Stored(ro) \in Range(ro) /\ Cached(ro) \in Range(ro)
           /\ Stored(<<Stored(ro)>>) = Stored(ro)
           /\ Ascending(<<Stored(ro)>>)
<1>1. /\ ro \in Seq(Rollouts) /\ Len(ro) > 0 /\ \A x \in Rollouts : x.tmpl \in Nat
      /\ Ascending(ro) /\ Stored(ro) \in Rollouts
  BY ObjectTypes DEF TypeOK, Rollouts, Inductive, InOrder
<1>2. /\ \A x \in Rollouts : Range(Append(ro, x)) = Range(ro) \cup {x}
      /\ ~InSync(ro) => Range(Tail(ro)) \subseteq Range(ro)
      /\ Range(<<Stored(ro)>>) = {Stored(ro)}
      /\ Stored(ro) \in Range(ro) /\ Cached(ro) \in Range(ro)
  BY <1>1, VersionFacts
<1>3. ASSUME NEW x \in Rollouts
      PROVE  /\ Stored(Append(ro, x)) = x
             /\ Stored(ro).tmpl <= x.tmpl => Ascending(Append(ro, x))
  <2>1. Stored(Append(ro, x)) = x
    BY <1>1, AppendFacts
  <2>2. Stored(ro).tmpl <= x.tmpl => Ascending(Append(ro, x))
    BY <1>1, AscendingFacts
  <2> QED
    BY <2>1, <2>2
<1>4. ~InSync(ro) => Stored(Tail(ro)) = Stored(ro) /\ Ascending(Tail(ro))
  <2>1. ~InSync(ro) => Stored(Tail(ro)) = Stored(ro)
    BY <1>1, TailFacts
  <2>2. ~InSync(ro) => Ascending(Tail(ro))
    BY <1>1, AscendingFacts
  <2> QED
    BY <2>1, <2>2
<1>5. Stored(<<Stored(ro)>>) = Stored(ro)
  BY <1>1, SingleFacts
<1>6. Ascending(<<Stored(ro)>>)
  BY <1>1, AscendingFacts
<1> QED
  BY <1>2, <1>3, <1>4, <1>5, <1>6

\* The same of the Secret.
LEMMA SecretFacts ==
    ASSUME TypeOK
    PROVE  /\ \A x \in Secrets : /\ Range(Append(secret, x)) = Range(secret) \cup {x}
                                 /\ Stored(Append(secret, x)) = x
           /\ ~InSync(secret) => /\ Range(Tail(secret)) \subseteq Range(secret)
                                 /\ Stored(Tail(secret)) = Stored(secret)
           /\ Range(<<Stored(secret)>>) = {Stored(secret)} /\ Stored(secret) \in Range(secret)
           /\ Stored(<<Stored(secret)>>) = Stored(secret)
<1>1. secret \in Seq(Secrets) /\ Len(secret) > 0 /\ Stored(secret) \in Secrets
  BY ObjectTypes DEF TypeOK
<1>2. /\ \A x \in Secrets : Range(Append(secret, x)) = Range(secret) \cup {x}
      /\ ~InSync(secret) => Range(Tail(secret)) \subseteq Range(secret)
      /\ Range(<<Stored(secret)>>) = {Stored(secret)} /\ Stored(secret) \in Range(secret)
  BY <1>1, VersionFacts
<1>3. \A x \in Secrets : Stored(Append(secret, x)) = x
  BY <1>1, AppendFacts
<1>4. ~InSync(secret) => Stored(Tail(secret)) = Stored(secret)
  BY <1>1, TailFacts
<1>5. Stored(<<Stored(secret)>>) = Stored(secret)
  BY <1>1, SingleFacts
<1> QED
  BY <1>2, <1>3, <1>4, <1>5

\* A new version of the Rollout keeps what is said of the objects.
LEMMA RolloutWritten ==
    ASSUME TypeOK, Inductive, NEW x \in Rollouts, ro' = Append(ro, x),
           Stored(ro).tmpl <= x.tmpl, x.tmpl <= Cached(ad).tmpl,
           x.cur <= x.tmpl, x.stable <= x.cur,
           UNCHANGED <<ad, secret, memory, me, current, held>>,
           pc # "idle" => pc' # "idle" /\ x.tmpl <= me.tmpl,
           pc = "idle" => pc' = "idle",
           pc' \notin {"idle", "rollout"} => x.tmpl = me.tmpl
    PROVE  /\ InOrder' /\ MemoryInOrder' /\ SnapshotBacksStatus' /\ LabelBoundsContent'
           /\ Range(ro') = Range(ro) \cup {x}
<1>. USE OrderFacts DEF Inductive
<1>1. Range(ro') = Range(ro) \cup {x} /\ Stored(ro') = x /\ Ascending(ro') /\ x.tmpl \in Nat
  BY RolloutFacts DEF Rollouts
<1>2. InOrder'
  <2>1. \A v \in Range(secret) : v.ver \in Nat /\ v.ver <= Stored(ro).tmpl
    <3>1. Range(secret) \subseteq Secrets
      BY VersionFacts DEF TypeOK
    <3> QED
      BY <3>1 DEF InOrder, Secrets
  <2>2. \A v \in Range(secret) : v.ver <= x.tmpl
    BY <1>1, <2>1
  <2>3. \A v \in Range(ro') : v.cur <= v.tmpl /\ v.stable <= v.cur
    BY <1>1 DEF InOrder
  <2> QED
    BY <1>1, <2>2, <2>3 DEF InOrder
<1>3. MemoryInOrder'
  <2>1. \A v \in memory \cup held : v \in Nat /\ v <= Stored(ro).tmpl
    BY DEF TypeOK, MemoryInOrder
  <2> QED
    BY <1>1, <2>1 DEF MemoryInOrder
<1>4. SnapshotBacksStatus' /\ LabelBoundsContent'
  BY DEF SnapshotBacksStatus, LabelBoundsContent
<1> QED
  BY <1>1, <1>2, <1>3, <1>4

\* Argo keeps the template that was asked for.
LEMMA ArgoStep ==
    ASSUME TypeOK, Inductive, ArgoObserves \/ ArgoPromotes \/ ArgoAborts
    PROVE  Inductive'
<1>1. /\ Stored(ro) \in Range(ro) /\ Stored(ro) \in Rollouts
      /\ Stored(ro).tmpl \in Nat /\ Stored(ro).cur \in Nat /\ Stored(ro).stable \in Nat
      /\ Stored(ro).cur <= Stored(ro).tmpl /\ Stored(ro).stable <= Stored(ro).cur
  BY RolloutFacts, ObjectTypes DEF Rollouts, Inductive, InOrder
<1>2. PICK x \in Rollouts :
        /\ ArgoWrites(x) /\ x.tmpl = Stored(ro).tmpl /\ x.cur <= x.tmpl /\ x.stable <= x.cur
        /\ x.phase = "Degraded" => failed' # {}
        /\ failed \subseteq failed'
  <2>1. CASE ArgoObserves
    <3>. DEFINE x == [Stored(ro) EXCEPT !.cur = Stored(ro).tmpl, !.phase = "Progressing"]
    <3>1. x \in Rollouts /\ ArgoWrites(x) /\ failed' = failed
      BY <1>1, <2>1, WriteTypes DEF ArgoObserves
    <3>2. x.tmpl = Stored(ro).tmpl /\ x.cur = x.tmpl /\ x.stable = Stored(ro).stable
          /\ x.phase = "Progressing"
      BY <1>1 DEF Rollouts
    <3>. HIDE DEF x
    <3> QED
      BY <1>1, <3>1, <3>2
  <2>2. CASE ArgoPromotes
    <3>. DEFINE x == [Stored(ro) EXCEPT !.stable = Stored(ro).cur, !.phase = "Healthy"]
    <3>1. x \in Rollouts /\ ArgoWrites(x) /\ failed' = failed
      BY <1>1, <2>2, WriteTypes DEF ArgoPromotes
    <3>2. x.tmpl = Stored(ro).tmpl /\ x.cur = Stored(ro).cur /\ x.stable = x.cur
          /\ x.phase = "Healthy"
      BY <1>1 DEF Rollouts
    <3>. HIDE DEF x
    <3> QED
      BY <1>1, <3>1, <3>2
  <2>3. CASE ArgoAborts
    <3>. DEFINE x == [Stored(ro) EXCEPT !.phase = "Degraded"]
    <3>1. x \in Rollouts /\ ArgoWrites(x) /\ failed' = failed \cup {Stored(ro).cur}
      BY <1>1, <2>3, WriteTypes DEF ArgoAborts
    <3>2. x.tmpl = Stored(ro).tmpl /\ x.cur = Stored(ro).cur /\ x.stable = Stored(ro).stable
      BY <1>1 DEF Rollouts
    <3>. HIDE DEF x
    <3> QED
      BY <1>1, <3>1, <3>2
  <2> QED
    BY <2>1, <2>2, <2>3
<1>3. pc' = pc
  BY DEF ArgoObserves, ArgoPromotes, ArgoAborts, ArgoWrites
<1>4. UNCHANGED <<ad, secret, memory, me, current, held>> /\ ro' = Append(ro, x)
  BY <1>2 DEF ArgoWrites
<1>5. /\ InOrder' /\ MemoryInOrder' /\ SnapshotBacksStatus' /\ LabelBoundsContent'
      /\ Range(ro') = Range(ro) \cup {x}
  <2>1. /\ Stored(ro).tmpl <= x.tmpl /\ x.tmpl <= Cached(ad).tmpl
        /\ pc # "idle" => x.tmpl <= me.tmpl
        /\ pc \notin {"idle", "rollout"} => x.tmpl = me.tmpl
    BY <1>1, <1>2 DEF Inductive, InOrder
  <2> QED
    BY <1>2, <1>3, <1>4, <2>1, RolloutWritten
<1>6. FailureFirst'
  BY <1>2, <1>3, <1>5 DEF FailureFirst, Inductive
<1> QED
  BY <1>5, <1>6 DEF Inductive

\* reconcileRollout writes the template of the copy it holds, over nothing newer.
LEMMA ReconcileRolloutStep ==
    ASSUME TypeOK, Inductive, ReconcileRollout
    PROVE  Inductive'
<1>. USE OrderFacts DEF Inductive, Outside
<1>1. pc = "rollout" /\ Stored(ro).tmpl <= me.tmpl /\ me.tmpl <= Cached(ad).tmpl
  BY DEF ReconcileRollout, InOrder
<1>2. CASE Return /\ UNCHANGED ro
  <2>1. UNCHANGED <<ad, ro, secret, memory, failed>>
    BY <1>2 DEF ReconcileRollout
  <2> QED
    BY <1>2, <2>1, ReturnStep
<1>3. CASE Cached(ro).tmpl = me.tmpl /\ ro' = ro /\ pc' = "memory"
  <2>1. UNCHANGED <<ad, ro, secret, memory, me, current, held, failed>>
    BY <1>1, <1>3 DEF ReconcileRollout, Return
  <2>2. Stored(ro).tmpl = me.tmpl
    BY <1>1, <1>3
  <2>3. InOrder'
    BY <1>1, <1>3, <2>1, <2>2 DEF InOrder
  <2> QED
    BY <1>3, <2>1, <2>3
       DEF MemoryInOrder, FailureFirst, SnapshotBacksStatus, LabelBoundsContent
<1>4. CASE /\ IF Cached(ro).tmpl # 0 THEN InSync(ro) ELSE Stored(ro).tmpl = 0
           /\ ro' = Append(ro, [Cached(ro) EXCEPT !.tmpl = me.tmpl])
           /\ pc' = "memory" /\ UNCHANGED <<me, current, held>>
  <2>. DEFINE x == [Cached(ro) EXCEPT !.tmpl = me.tmpl]
  <2>1. /\ Cached(ro) \in Rollouts /\ Cached(ro) \in Range(ro) /\ me.tmpl \in Nat
        /\ Cached(ro).cur \in Nat /\ Cached(ro).stable \in Nat /\ Cached(ro).tmpl \in Nat
        /\ Cached(ro).cur <= Cached(ro).tmpl /\ Cached(ro).stable <= Cached(ro).cur
    BY RolloutFacts, ObjectTypes DEF Rollouts, InOrder
  <2>2. /\ x \in Rollouts /\ x.tmpl = me.tmpl
        /\ x.cur = Cached(ro).cur /\ x.stable = Cached(ro).stable /\ x.phase = Cached(ro).phase
    BY <2>1, WriteTypes DEF Rollouts
  <2>3. ro' = Append(ro, x)
    BY <1>4
  <2>. HIDE DEF x
  <2>4. Stored(ro).tmpl <= x.tmpl /\ x.tmpl <= Cached(ad).tmpl
    BY <1>1, <2>2
  <2>5. x.cur <= x.tmpl /\ x.stable <= x.cur
    BY <1>1, <2>1, <2>2
  <2>6. UNCHANGED <<ad, secret, memory, failed>>
    BY DEF ReconcileRollout
  <2>7. /\ InOrder' /\ MemoryInOrder' /\ SnapshotBacksStatus' /\ LabelBoundsContent'
        /\ Range(ro') = Range(ro) \cup {x}
    <3>1. UNCHANGED <<ad, secret, memory, me, current, held>>
      BY <1>4, <2>6
    <3>2. /\ pc # "idle" => pc' # "idle" /\ x.tmpl <= me.tmpl
          /\ pc = "idle" => pc' = "idle"
          /\ pc' \notin {"idle", "rollout"} => x.tmpl = me.tmpl
      BY <1>1, <1>4, <2>1, <2>2
    <3>3. x \in Rollouts
      BY <2>2
    <3> QED
      BY <2>3, <2>4, <2>5, <3>1, <3>2, <3>3, RolloutWritten
  <2>8. FailureFirst'
    BY <1>4, <2>1, <2>2, <2>6, <2>7 DEF FailureFirst
  <2> QED
    BY <2>7, <2>8
<1> QED
  BY <1>1, <1>2, <1>3, <1>4 DEF ReconcileRollout

\* The Secret is written before the status names it, and its label is the template
\* of the Rollout, beyond which nothing has been remembered.
LEMMA SaveSnapshotStep ==
    ASSUME TypeOK, Inductive, SaveSnapshot
    PROVE  Inductive'
<1>. USE OrderFacts DEF Inductive, Outside
<1>1. Stored(ro).tmpl = me.tmpl /\ pc = "save" /\ pc' = "status" /\ held' = {}
  BY DEF SaveSnapshot, InOrder
<1>2. UNCHANGED <<ad, ro, memory, current, failed>>
  BY DEF SaveSnapshot
<1>3. MemoryInOrder' /\ FailureFirst'
  BY <1>1, <1>2 DEF MemoryInOrder, FailureFirst
<1>4. CASE UNCHANGED <<secret, me>>
  <2>1. InOrder'
    BY <1>1, <1>2, <1>4 DEF InOrder
  <2> QED
    BY <1>2, <1>3, <1>4, <2>1 DEF SnapshotBacksStatus, LabelBoundsContent
<1>5. CASE /\ secret' = Append(secret, [ver |-> me.tmpl, data |-> held])
           /\ me' = [me EXCEPT !.snap = me.tmpl]
  <2>. DEFINE x == [ver |-> me.tmpl, data |-> held]
  <2>1. x \in Secrets /\ x.ver = me.tmpl /\ x.data = held
    BY DEF Secrets, TypeOK
  <2>2. secret' = Append(secret, x)
    BY <1>5
  <2>3. me'.tmpl = me.tmpl /\ me'.snap = me.tmpl
    BY <1>5 DEF TypeOK, Agents
  <2>. HIDE DEF x
  <2>4. Range(secret') = Range(secret) \cup {x} /\ Stored(secret') = x
    BY <2>1, <2>2, SecretFacts
  <2>5. InOrder'
    BY <1>1, <1>2, <2>1, <2>3, <2>4 DEF InOrder
  <2>6. SnapshotBacksStatus'
    <3>1. \A v \in Range(ad) : v.snap \in Nat /\ v.snap <= Stored(secret).ver
      <4>1. Range(ad) \subseteq Agents
        BY VersionFacts DEF TypeOK
      <4> QED
        BY <4>1 DEF SnapshotBacksStatus, Agents
    <3>2. \A v \in Range(ad) : v.snap <= me.tmpl
      BY <1>1, <3>1
    <3> QED
      BY <1>2, <2>1, <2>3, <2>4, <3>2 DEF SnapshotBacksStatus
  <2>7. LabelBoundsContent'
    BY <1>1, <2>1, <2>4 DEF LabelBoundsContent, MemoryInOrder
  <2> QED
    BY <1>3, <2>5, <2>6, <2>7
<1> QED
  BY <1>4, <1>5 DEF SaveSnapshot

\* The status is written by a reconcile that has the latest spec.
LEMMA UpdateStatusStep ==
    ASSUME TypeOK, Inductive, UpdateStatus
    PROVE  Inductive'
<1>. USE OrderFacts DEF Inductive, Outside
<1>1. UNCHANGED <<ro, secret, memory, failed>> /\ Return
  BY DEF UpdateStatus
<1>2. CASE ad' = ad
  BY <1>1, <1>2, ReturnStep
<1>3. CASE current /\ ad' = Append(ad, [me EXCEPT !.phase = LivePhase])
  <2>. DEFINE x == [me EXCEPT !.phase = LivePhase]
  <2>1. x \in Agents /\ x.tmpl = me.tmpl /\ x.snap = me.snap
    BY ObjectTypes, WriteTypes DEF LivePhase, TypeOK, Agents
  <2>2. ad' = Append(ad, x)
    BY <1>3
  <2>. HIDE DEF x
  <2>3. x.tmpl = Stored(ad).tmpl
    BY <1>3, <2>1 DEF InOrder
  <2>4. /\ Range(ad') = Range(ad) \cup {x} /\ Cached(ad') = Cached(ad)
        /\ Ascending(ad')
    BY <2>1, <2>2, <2>3, AgentFacts
  <2>5. InOrder' /\ MemoryInOrder' /\ FailureFirst' /\ LabelBoundsContent'
    BY <1>1, <2>4 DEF Return, InOrder, MemoryInOrder, FailureFirst, LabelBoundsContent
  <2>6. SnapshotBacksStatus'
    <3>1. NewAgent.snap = 0
      BY DEF NewAgent
    <3>2. me'.snap <= Stored(secret).ver
      BY <1>1, <3>1 DEF Return
    <3> QED
      BY <1>1, <2>1, <2>4, <3>2 DEF SnapshotBacksStatus
  <2> QED
    BY <2>5, <2>6
<1> QED
  BY <1>2, <1>3 DEF UpdateStatus

\* An edit of the spec only raises the stored template.
LEMMA EditSpecStep ==
    ASSUME TypeOK, Inductive, EditSpec
    PROVE  Inductive'
<1>. USE OrderFacts DEF Inductive
<1>. DEFINE next == Stored(ad).tmpl + 1
            x == [Stored(ad) EXCEPT !.tmpl = next]
<1>1. next \in Nat /\ Stored(ad).tmpl <= next
  OBVIOUS
<1>2. ad' = Append(ad, x)
  BY DEF EditSpec
<1>. HIDE DEF next
<1>3. x \in Agents /\ x.tmpl = next /\ x.snap = Stored(ad).snap
  BY <1>1, ObjectTypes, WriteTypes DEF Agents
<1>. HIDE DEF x
<1>4. /\ Range(ad') = Range(ad) \cup {x} /\ Cached(ad') = Cached(ad) /\ Ascending(ad')
  BY <1>1, <1>2, <1>3, AgentFacts
<1>5. InOrder' /\ MemoryInOrder' /\ FailureFirst' /\ LabelBoundsContent'
  BY <1>4 DEF EditSpec, InOrder, MemoryInOrder, FailureFirst, LabelBoundsContent
<1>6. SnapshotBacksStatus'
  BY <1>3, <1>4 DEF EditSpec, SnapshotBacksStatus
<1> QED
  BY <1>5, <1>6

\* Events and a restart only drop versions.
LEMMA CacheStep ==
    ASSUME TypeOK, Inductive, Restart \/ DeliverAgent \/ DeliverRollout \/ DeliverSecret
    PROVE  Inductive'
<1>. USE OrderFacts DEF Inductive, Outside
<1>1. CASE Restart
  <2>1. /\ Range(ad') \subseteq Range(ad) /\ Stored(ad') = Stored(ad) /\ Cached(ad') = Stored(ad)
        /\ Ascending(ad')
    BY <1>1, AgentFacts DEF Restart
  <2>2. Range(ro') \subseteq Range(ro) /\ Stored(ro') = Stored(ro) /\ Ascending(ro')
    BY <1>1, RolloutFacts DEF Restart
  <2>3. Range(secret') \subseteq Range(secret) /\ Stored(secret') = Stored(secret)
    BY <1>1, SecretFacts DEF Restart
  <2>4. InOrder' /\ MemoryInOrder' /\ FailureFirst' /\ LabelBoundsContent'
    BY <1>1, <2>1, <2>2, <2>3
       DEF Restart, Return, InOrder, MemoryInOrder, FailureFirst, LabelBoundsContent
  <2>5. SnapshotBacksStatus'
    <3>1. NewAgent.snap = 0
      BY DEF NewAgent
    <3>2. me'.snap <= Stored(secret).ver
      BY <1>1, <3>1 DEF Restart, Return
    <3> QED
      BY <2>1, <2>3, <3>2 DEF SnapshotBacksStatus
  <2> QED
    BY <2>4, <2>5
<1>2. CASE DeliverAgent
  <2>1. ad' = Tail(ad) /\ ~InSync(ad) /\ UNCHANGED <<ro, secret, memory, pc, me, current, held, failed>>
    BY <1>2 DEF DeliverAgent
  <2>2. /\ Range(ad') \subseteq Range(ad) /\ Stored(ad') = Stored(ad) /\ Ascending(ad')
        /\ Cached(ad).tmpl <= Cached(ad').tmpl /\ Cached(ad').tmpl \in Nat
    BY <2>1, AgentFacts
  <2>3. InOrder'
    BY <2>1, <2>2 DEF InOrder
  <2> QED
    BY <2>1, <2>2, <2>3 DEF MemoryInOrder, FailureFirst, LabelBoundsContent, SnapshotBacksStatus
<1>3. CASE DeliverRollout
  <2>1. Range(ro') \subseteq Range(ro) /\ Stored(ro') = Stored(ro) /\ Ascending(ro')
    BY <1>3, RolloutFacts DEF DeliverRollout
  <2> QED
    BY <1>3, <2>1
       DEF DeliverRollout, InOrder, MemoryInOrder, FailureFirst, LabelBoundsContent,
           SnapshotBacksStatus
<1>4. CASE DeliverSecret
  <2>1. Range(secret') \subseteq Range(secret) /\ Stored(secret') = Stored(secret)
    BY <1>4, SecretFacts DEF DeliverSecret
  <2> QED
    BY <1>4, <2>1
       DEF DeliverSecret, InOrder, MemoryInOrder, FailureFirst, LabelBoundsContent,
           SnapshotBacksStatus
<1> QED
  BY <1>1, <1>2, <1>3, <1>4

\* The order of the versions and what the snapshot holds are inductive together.
THEOREM InductiveInvariant == Spec => []Inductive
<1>1. Init => Inductive
  <2> SUFFICES ASSUME Init PROVE Inductive
    OBVIOUS
  <2>1. \A S, x : x \in S => /\ Range(<<x>>) = {x} /\ Stored(<<x>>) = x /\ Cached(<<x>>) = x
    BY SingleFacts DEF Range, Cached
  <2>2. /\ Range(ad) = {NewAgent} /\ Cached(ad) = NewAgent
        /\ Range(ro) = {NoRollout} /\ Stored(ro) = NoRollout
        /\ Range(secret) = {NoSecret} /\ Stored(secret) = NoSecret
    BY <2>1, WriteTypes DEF Init
  <2>3. /\ NewAgent.tmpl = 1 /\ NewAgent.snap = 0
        /\ NoRollout.tmpl = 0 /\ NoRollout.cur = 0 /\ NoRollout.stable = 0 /\ NoRollout.phase = ""
        /\ NoSecret.ver = 0 /\ NoSecret.data = {}
    BY DEF NewAgent, NoRollout, NoSecret
  <2>4. Ascending(ad) /\ Ascending(ro)
    <3>1. ASSUME NEW x, x.tmpl \in Nat PROVE Ascending(<<x>>)
      <4>1. Len(<<x>>) = 1 /\ <<x>>[1] = x
        OBVIOUS
      <4> QED
        BY <3>1, <4>1 DEF Ascending
    <3> QED
      <4>1. NewAgent.tmpl \in Nat /\ NoRollout.tmpl \in Nat
        BY WriteTypes DEF Agents, Rollouts
      <4>2. Ascending(<<NewAgent>>) /\ Ascending(<<NoRollout>>)
        BY <3>1, <4>1
      <4> QED
        BY <4>2 DEF Init
  <2>5. pc = "idle" /\ me = NewAgent /\ ~current /\ held = {} /\ memory = {}
    BY DEF Init
  <2>6. /\ \A v \in Range(ad) : v.snap = 0
        /\ \A v \in Range(ro) : v.cur = 0 /\ v.stable = 0 /\ v.tmpl = 0
        /\ \A v \in Range(secret) : v.ver = 0 /\ v.data = {}
        /\ Cached(ad).tmpl = 1 /\ Stored(ro).tmpl = 0 /\ Stored(secret).ver = 0 /\ me.snap = 0
    BY <2>2, <2>3, <2>5
  <2>7. InOrder
    BY <2>4, <2>5, <2>6 DEF InOrder
  <2>8. MemoryInOrder /\ FailureFirst
    BY <2>2, <2>3, <2>5 DEF MemoryInOrder, FailureFirst
  <2>9. SnapshotBacksStatus /\ LabelBoundsContent
    BY <2>6 DEF SnapshotBacksStatus, LabelBoundsContent
  <2> QED
    BY <2>7, <2>8, <2>9 DEF Inductive
<1>2. TypeOK /\ Inductive /\ Next => Inductive'
  <2> SUFFICES ASSUME TypeOK, Inductive, Next PROVE Inductive'
    OBVIOUS
  <2>1. ASSUME Fetch \/ NothingToDo \/ BackendFails \/ Export \/ ReadSnapshot \/ Import \/ Remember
        PROVE  Inductive'
    <3>1. UNCHANGED <<ad, ro, secret>>
      BY <2>1 DEF Fetch, NothingToDo, BackendFails, Export, ReadSnapshot, Import, Remember
    <3> QED
      BY <2>1, <3>1, QuietStep
  <2>2. ASSUME StepFails PROVE Inductive'
    BY <2>2, ReturnStep DEF StepFails, Outside
  <2> QED
    BY <2>1, <2>2, ReconcileRolloutStep, SaveSnapshotStep, UpdateStatusStep, EditSpecStep,
       CacheStep, ArgoStep
       DEF Next, Controller
<1>3. Inductive /\ UNCHANGED vars => Inductive'
  BY DEF Inductive, InOrder, MemoryInOrder, FailureFirst, SnapshotBacksStatus,
         LabelBoundsContent, vars
<1> QED
  BY <1>1, <1>2, <1>3, TypeInvariant, PTL DEF Spec

\* What the status tells of a snapshot is backed by the Secret, or by a later one.
THEOREM SnapshotBacked == Spec => []SnapshotBacksStatus
<1>1. Inductive => SnapshotBacksStatus
  BY DEF Inductive
<1> QED
  BY <1>1, InductiveInvariant, PTL

\* A restore brings back nothing written by a later version than the label's.
THEOREM LabelBounds == Spec => []LabelBoundsContent
<1>1. Inductive => LabelBoundsContent
  BY DEF Inductive
<1> QED
  BY <1>1, InductiveInvariant, PTL

\* The agent's memory shrinks only after a rollout has been aborted.
THEOREM NothingLost == Spec => NothingLostWithoutFailure
<1>1. ASSUME TypeOK, Inductive, Next, failed = {} PROVE memory \subseteq memory'
  <2>1. ~Import
    BY <1>1 DEF Import, Inductive, FailureFirst
  <2> QED
    BY <1>1, <2>1
       DEF Next, Controller, Fetch, ReconcileRollout, NothingToDo, BackendFails, Export,
           SaveSnapshot, ReadSnapshot, UpdateStatus, StepFails, Restart, DeliverAgent,
           DeliverRollout, DeliverSecret, EditSpec, ArgoObserves, ArgoPromotes, ArgoAborts,
           ArgoWrites, Remember
<1>2. TypeOK /\ Inductive /\ [Next]_vars => [failed = {} => memory \subseteq memory']_vars
  BY <1>1
<1> QED
  BY <1>2, TypeInvariant, InductiveInvariant, PTL DEF Spec, NothingLostWithoutFailure

=============================================================================
