------------------------- MODULE SharedTemplatesProofs -------------------------
(***************************************************************************)
(* Proofs about SharedTemplates, for any set of agents, any names of       *)
(* templates, anything the specs may call for, and every bound.            *)
(***************************************************************************)
EXTENDS SharedTemplates, InformerCacheProofs, TLAPS

\* The reconciles that apply what their copy of the agent calls for.
Faithful == {w \in Reconciles : w.todo \subseteq JobsOf(w.me.calls) /\ w.at \subseteq w.todo}

\* The two families of objects in the state, and the reconciles.
LEMMA StateObjects ==
    TypeOK <=> /\ agent \in Families(Agents, Deployments)
               /\ tmpl \in Families(Names, Templates)
               /\ rolled \in [Agents -> Nat]
               /\ work \in [Agents -> Faithful]
               /\ edits \in 0..MaxEdits /\ faults \in 0..MaxFaults
<1>1. work \in [Agents -> Faithful] <=>
        /\ work \in [Agents -> Reconciles]
        /\ \A a \in Agents : /\ work[a].todo \subseteq JobsOf(work[a].me.calls)
                             /\ work[a].at \subseteq work[a].todo
  BY DEF Faithful
<1> QED
  BY <1>1 DEF TypeOK, Families

\* The same after a step.
LEMMA StateObjectsNext ==
    TypeOK' <=> /\ agent' \in Families(Agents, Deployments)
                /\ tmpl' \in Families(Names, Templates)
                /\ rolled' \in [Agents -> Nat]
                /\ work' \in [Agents -> Faithful]
                /\ edits' \in 0..MaxEdits /\ faults' \in 0..MaxFaults
<1>1. work' \in [Agents -> Faithful] <=>
        /\ work' \in [Agents -> Reconciles]
        /\ \A a \in Agents : /\ work'[a].todo \subseteq JobsOf(work'[a].me.calls)
                             /\ work'[a].at \subseteq work'[a].todo
  BY DEF Faithful
<1> QED
  BY <1>1 DEF TypeOK, Families

\* What a spec calls for is a set of jobs.
LEMMA JobsFacts ==
    ASSUME NEW calls \in Calls
    PROVE  /\ JobsOf(calls) \subseteq Jobs
           /\ \A j \in JobsOf(calls) : j.name \in Names /\ j.spec \in {"managed", "own"}
  BY DEF Calls, JobsOf, Jobs, Names

\* The objects as they are made.
LEMMA NewObjects ==
    /\ NoAgent \in Deployments /\ NoTemplate \in Templates /\ Idle \in Faithful
    /\ \A calls \in Choices : NewAgent(calls) \in Deployments
    /\ [NoTemplate EXCEPT !.live = TRUE] \in Templates
    /\ \A a \in Agents, j \in Jobs : Wanted(a, j) \in Templates
<1>1. NoAgent \in Deployments
  BY DEF NoAgent, Deployments, Calls
<1>2. NoTemplate \in Templates /\ [NoTemplate EXCEPT !.live = TRUE] \in Templates
  BY DEF NoTemplate, Templates, Contents
<1>3. Idle \in Faithful
  BY <1>1 DEF Idle, Faithful, Reconciles
<1>4. \A calls \in Choices : NewAgent(calls) \in Deployments
  BY ChoicesAssumption DEF NewAgent, Deployments
<1>5. ASSUME NEW a \in Agents, NEW j \in Jobs PROVE Wanted(a, j) \in Templates
  BY DEF Wanted, Templates, Contents, Jobs
<1> QED
  BY <1>1, <1>2, <1>3, <1>4, <1>5

\* A reconcile moving on.
LEMMA WorkType ==
    ASSUME TypeOK, NEW a \in Agents
    PROVE  /\ work[a] \in Faithful
           /\ \A x \in Faithful : [work EXCEPT ![a] = x] \in [Agents -> Faithful]
           /\ \A j \in work[a].todo : [work[a] EXCEPT !.at = {j}] \in Faithful
           /\ \A j : [work[a] EXCEPT !.todo = @ \ {j}, !.at = {}] \in Faithful
<1>1. work \in [Agents -> Faithful]
  BY StateObjects
<1>2. work[a] \in Faithful /\ \A x \in Faithful : [work EXCEPT ![a] = x] \in [Agents -> Faithful]
  BY <1>1
<1>3. work[a] \in Reconciles /\ work[a].todo \in SUBSET Jobs /\ work[a].me \in Deployments
  BY <1>2 DEF Faithful, Reconciles
<1>4. ASSUME NEW j \in work[a].todo PROVE [work[a] EXCEPT !.at = {j}] \in Faithful
  BY <1>2, <1>3, <1>4 DEF Faithful, Reconciles
<1>5. ASSUME NEW j PROVE [work[a] EXCEPT !.todo = @ \ {j}, !.at = {}] \in Faithful
  BY <1>2, <1>3 DEF Faithful, Reconciles
<1> QED
  BY <1>2, <1>4, <1>5

\* A reconcile that ends or finishes with a template.
LEMMA ReturnType ==
    ASSUME TypeOK, NEW a \in Agents
    PROVE  /\ Return(a) => work' \in [Agents -> Faithful]
           /\ \A j : Done(a, j) => work' \in [Agents -> Faithful]
<1>1. Return(a) => work' \in [Agents -> Faithful]
  BY NewObjects, WorkType DEF Return
<1>2. ASSUME NEW j, Done(a, j) PROVE work' \in [Agents -> Faithful]
  <2>1. work \in [Agents -> Faithful] /\ work[a] \in Reconciles
    BY StateObjects, WorkType DEF Faithful
  <2>2. work' = [work EXCEPT ![a] = [work[a] EXCEPT !.todo = @ \ {j}, !.at = {}]]
    BY <1>2, <2>1 DEF Done, Reconciles
  <2> QED
    BY <2>2, WorkType
<1> QED
  BY <1>1, <1>2

\* A fault or an edit uses up its bound.
LEMMA BoundsType ==
    ASSUME TypeOK
    PROVE  /\ Fault => faults' \in 0..MaxFaults
           /\ UserActs => edits' \in 0..MaxEdits
  BY BoundsAssumption DEF TypeOK, Fault, UserActs

\* Every step keeps the types.
LEMMA TypeStep ==
    ASSUME TypeOK, Next
    PROVE  TypeOK'
<1>. USE StateObjects, StateObjectsNext
<1>1. ASSUME NEW a \in Agents, Fetch(a) PROVE TypeOK'
  <2>1. Cached(agent[a]) \in Deployments
    BY FamilyFacts
  <2>2. Cached(agent[a]).calls \in Calls
    BY <2>1 DEF Deployments
  <2>3. [busy |-> TRUE, me |-> Cached(agent[a]),
         todo |-> JobsOf(Cached(agent[a]).calls), at |-> {}] \in Faithful
    BY <2>1, <2>2, JobsFacts DEF Faithful, Reconciles
  <2>4. work' \in [Agents -> Faithful]
    BY <1>1, <2>3, WorkType DEF Fetch
  <2> QED
    BY <1>1, <2>4 DEF Fetch
<1>2. ASSUME NEW a \in Agents, NEW j \in Jobs, SkipUsersOwn(a, j) PROVE TypeOK'
  BY <1>2, ReturnType DEF SkipUsersOwn
<1>3. ASSUME NEW a \in Agents, NEW j \in Jobs, TakeUp(a, j) PROVE TypeOK'
  <2>1. work \in [Agents -> Faithful] /\ work[a] \in Reconciles /\ j \in work[a].todo
    BY <1>3, WorkType DEF Faithful, TakeUp, LookUp
  <2>2. work' = [work EXCEPT ![a] = [work[a] EXCEPT !.at = {j}]]
    BY <1>3, <2>1 DEF TakeUp, Reconciles
  <2>3. work' \in [Agents -> Faithful]
    BY <2>1, <2>2, WorkType
  <2> QED
    BY <1>3, <2>3 DEF TakeUp
<1>4. ASSUME NEW a \in Agents, NEW j \in Jobs, ApplyTemplate(a, j) PROVE TypeOK'
  <2>1. j.name \in Names /\ Wanted(a, j) \in Templates
    BY NewObjects DEF Jobs
  <2>2. [tmpl EXCEPT ![j.name] = Append(@, Wanted(a, j))] \in Families(Names, Templates)
    BY <2>1, FamilyFacts
  <2>3. tmpl' \in Families(Names, Templates)
    BY <1>4, <2>2 DEF ApplyTemplate
  <2> QED
    BY <1>4, <2>3, ReturnType DEF ApplyTemplate
<1>5. ASSUME NEW a \in Agents, NEW j \in Jobs, GiveUp(a, j) PROVE TypeOK'
  BY <1>5, ReturnType DEF GiveUp
<1>6. ASSUME NEW a \in Agents, RollOut(a) PROVE TypeOK'
  <2>1. work[a].me.gen \in Nat
    BY WorkType DEF Faithful, Reconciles, Deployments
  <2> QED
    BY <1>6, <2>1, ReturnType DEF RollOut
<1>7. ASSUME NEW a \in Agents, StepFails(a) PROVE TypeOK'
  BY <1>7, ReturnType, BoundsType DEF StepFails
<1>8. ASSUME Restart PROVE TypeOK'
  <2>1. agent' \in Families(Agents, Deployments) /\ tmpl' \in Families(Names, Templates)
    <3>1. ASSUME NEW a \in Agents
          PROVE  <<Stored(agent[a])>> \in Seq(Deployments) /\ Len(<<Stored(agent[a])>>) > 0
      <4>1. Stored(agent[a]) \in Deployments
        BY FamilyFacts
      <4> QED
        BY <4>1, SingleFacts
    <3>2. ASSUME NEW t \in Names
          PROVE  <<Stored(tmpl[t])>> \in Seq(Templates) /\ Len(<<Stored(tmpl[t])>>) > 0
      <4>1. Stored(tmpl[t]) \in Templates
        BY FamilyFacts
      <4> QED
        BY <4>1, SingleFacts
    <3> QED
      BY <1>8, <3>1, <3>2 DEF Restart, Families
  <2> QED
    BY <1>8, <2>1, NewObjects, BoundsType DEF Restart
<1>9. ASSUME Informers PROVE TypeOK'
  <2>1. ASSUME NEW a \in Agents, DeliverAgent(a) PROVE TypeOK'
    BY <2>1, FamilyFacts DEF DeliverAgent
  <2>2. ASSUME NEW t \in Names, DeliverTemplate(t) PROVE TypeOK'
    BY <2>2, FamilyFacts DEF DeliverTemplate
  <2> QED
    BY <1>9, <2>1, <2>2 DEF Informers
<1>10. ASSUME NEW a \in Agents, EditSpec(a) PROVE TypeOK'
  <2>1. Stored(agent[a]) \in Deployments
    BY FamilyFacts
  <2>. DEFINE New(calls) == [Stored(agent[a]) EXCEPT !.calls = calls, !.gen = @ + 1]
  <2>2. PICK calls \in Choices : agent' = [agent EXCEPT ![a] = Append(@, New(calls))]
    BY <1>10 DEF EditSpec
  <2>3. New(calls) \in Deployments
    <3>1. calls \in Calls
      BY <2>2, ChoicesAssumption
    <3>. DEFINE gen == Stored(agent[a]).gen + 1
    <3>2. gen \in Nat
      BY <2>1 DEF Deployments
    <3>3. [Stored(agent[a]) EXCEPT !.calls = calls, !.gen = gen] \in Deployments
      <4>. HIDE DEF gen
      <4> QED
        BY <2>1, <3>1, <3>2 DEF Deployments
    <3>4. [Stored(agent[a]) EXCEPT !.calls = calls, !.gen = gen] = New(calls)
      BY <2>1 DEF Deployments
    <3> QED
      BY <3>3, <3>4
  <2>5. agent' \in Families(Agents, Deployments)
    <3>. HIDE DEF New
    <3> QED
      BY <2>2, <2>3, FamilyFacts
  <2> QED
    BY <1>10, <2>5, BoundsType DEF EditSpec
<1>11. ASSUME NEW a \in Agents, DeleteAgent(a) PROVE TypeOK'
  <2>1. Stored(agent[a]) \in Deployments
    BY FamilyFacts
  <2>2. [Stored(agent[a]) EXCEPT !.live = FALSE] \in Deployments
    BY <2>1 DEF Deployments
  <2>3. agent' \in Families(Agents, Deployments)
    BY <1>11, <2>2, FamilyFacts DEF DeleteAgent
  <2> QED
    BY <1>11, <2>3, BoundsType DEF DeleteAgent
<1>12. ASSUME NEW t \in Names, CreateTemplate(t) \/ DeleteTemplate(t) PROVE TypeOK'
  <2>1. PICK new \in Templates : tmpl' = [tmpl EXCEPT ![t] = Append(@, new)]
    BY <1>12, NewObjects DEF CreateTemplate, DeleteTemplate
  <2>2. tmpl' \in Families(Names, Templates)
    BY <2>1, FamilyFacts
  <2> QED
    BY <1>12, <2>2, BoundsType DEF CreateTemplate, DeleteTemplate
<1>13. ASSUME NEW t \in Names, CollectGarbage(t) PROVE TypeOK'
  BY <1>13, NewObjects, FamilyFacts DEF CollectGarbage
<1> QED
  BY <1>1, <1>2, <1>3, <1>4, <1>5, <1>6, <1>7, <1>8, <1>9, <1>10, <1>11, <1>12, <1>13
     DEF Next, Apply, User

\* The variables keep their types, and no reconcile applies what its copy of the agent
\* does not call for, for any agents, templates and bounds.
THEOREM TypeInvariant == Spec => []TypeOK
<1>1. Init => TypeOK
  <2> SUFFICES ASSUME Init PROVE TypeOK
    OBVIOUS
  <2>1. agent \in Families(Agents, Deployments)
    <3>1. PICK calls \in [Agents -> Choices] :
                 agent = [a \in Agents |-> <<NewAgent(calls[a])>>]
      BY DEF Init
    <3>2. ASSUME NEW a \in Agents
          PROVE  <<NewAgent(calls[a])>> \in Seq(Deployments) /\ Len(<<NewAgent(calls[a])>>) > 0
      BY NewObjects, SingleFacts
    <3> QED
      BY <3>1, <3>2 DEF Families
  <2>2. tmpl \in Families(Names, Templates)
    <3>1. <<NoTemplate>> \in Seq(Templates) /\ Len(<<NoTemplate>>) > 0
      BY NewObjects, SingleFacts
    <3> QED
      BY <3>1 DEF Init, Families
  <2> QED
    BY <2>1, <2>2, StateObjects, NewObjects, BoundsAssumption DEF Init
<1>2. TypeOK /\ UNCHANGED vars => TypeOK'
  BY DEF TypeOK, vars
<1> QED
  BY <1>1, <1>2, TypeStep, PTL DEF Spec

\* The only ways in which the stored version of a template changes.
LEMMA TemplateChange ==
    ASSUME TypeOK, Next, NEW t \in Names
    PROVE  \/ Stored(tmpl'[t]) = Stored(tmpl[t])
           \/ ~Stored(tmpl'[t]).live
           \/ ~Stored(tmpl[t]).live
           \/ \E a \in Agents, j \in Jobs :
                /\ j.name = t /\ Accepted(a, j) /\ Cached(tmpl[t]) # Wanted(a, j)
                /\ Stored(tmpl'[t]) = Wanted(a, j)
<1>0. tmpl \in [Names -> Seq(Templates)] /\ Len(tmpl[t]) > 0
  BY DEF TypeOK
<1>1. ASSUME NEW s \in Names, NEW x \in Templates, tmpl' = [tmpl EXCEPT ![s] = Append(@, x)]
      PROVE  Stored(tmpl'[t]) = Stored(tmpl[t]) \/ (s = t /\ Stored(tmpl'[t]) = x)
  <2>1. CASE s = t
    <3>1. tmpl'[t] = Append(tmpl[t], x)
      BY <1>0, <1>1, <2>1
    <3> QED
      BY <1>0, <2>1, <3>1, AppendFacts
  <2>2. CASE s # t
    BY <1>0, <1>1, <2>2
  <2> QED
    BY <2>1, <2>2
<1>2. ASSUME NEW a \in Agents, NEW j \in Jobs, ApplyTemplate(a, j), tmpl' # tmpl
      PROVE  \/ Stored(tmpl'[t]) = Stored(tmpl[t])
             \/ /\ j.name = t /\ Accepted(a, j) /\ Cached(tmpl[t]) # Wanted(a, j)
                /\ Stored(tmpl'[t]) = Wanted(a, j)
  <2>1. j.name \in Names /\ Wanted(a, j) \in Templates
    BY NewObjects DEF Jobs
  <2>2. /\ tmpl' = [tmpl EXCEPT ![j.name] = Append(@, Wanted(a, j))]
        /\ Accepted(a, j) /\ Cached(tmpl[j.name]) # Wanted(a, j)
    BY <1>2 DEF ApplyTemplate
  <2> QED
    BY <1>1, <2>1, <2>2
<1>3. ASSUME NEW s \in Names, CreateTemplate(s)
      PROVE  Stored(tmpl'[t]) = Stored(tmpl[t]) \/ ~Stored(tmpl[t]).live
  BY <1>1, <1>3, NewObjects DEF CreateTemplate
<1>4. ASSUME NEW s \in Names, DeleteTemplate(s) \/ CollectGarbage(s)
      PROVE  Stored(tmpl'[t]) = Stored(tmpl[t]) \/ ~Stored(tmpl'[t]).live
  <2>1. tmpl' = [tmpl EXCEPT ![s] = Append(@, NoTemplate)]
    BY <1>4 DEF DeleteTemplate, CollectGarbage
  <2>2. ~NoTemplate.live
    BY DEF NoTemplate
  <2> QED
    BY <1>1, <2>1, <2>2, NewObjects
<1>5. ASSUME Restart PROVE Stored(tmpl'[t]) = Stored(tmpl[t])
  <2>1. Stored(tmpl[t]) \in Templates
    BY <1>0, EndFacts
  <2>2. tmpl'[t] = <<Stored(tmpl[t])>>
    BY <1>5 DEF Restart
  <2> QED
    BY <2>1, <2>2, SingleFacts
<1>6. ASSUME Informers PROVE Stored(tmpl'[t]) = Stored(tmpl[t])
  <2>1. \/ tmpl'[t] = tmpl[t]
        \/ ~InSync(tmpl[t]) /\ tmpl'[t] = Tail(tmpl[t])
    BY <1>0, <1>6 DEF Informers, DeliverAgent, DeliverTemplate
  <2> QED
    BY <1>0, <2>1, TailFacts
<1>7. \/ tmpl' = tmpl
      \/ \E a \in Agents, j \in Jobs : ApplyTemplate(a, j)
      \/ \E s \in Names : CreateTemplate(s) \/ DeleteTemplate(s) \/ CollectGarbage(s)
      \/ Restart \/ Informers
  BY DEF Next, Apply, User, Fetch, SkipUsersOwn, TakeUp, GiveUp, RollOut, StepFails,
         EditSpec, DeleteAgent
<1> QED
  BY <1>2, <1>3, <1>4, <1>5, <1>6, <1>7

\* No agent takes a template over from another, whatever its cache shows: an update
\* is accepted only on the version it was made from.
THEOREM NoTakeover == Spec => OwnerKept
<1>1. ASSUME TypeOK, Next, NEW t \in Names,
             Stored(tmpl[t]).live, Stored(tmpl'[t]).live, Stored(tmpl[t]).owner \in Agents
      PROVE  Stored(tmpl'[t]).owner = Stored(tmpl[t]).owner
  <2>1. ASSUME NEW a \in Agents, NEW j \in Jobs, j.name = t, Accepted(a, j),
               Cached(tmpl[t]) # Wanted(a, j), Stored(tmpl'[t]) = Wanted(a, j)
        PROVE  Stored(tmpl'[t]).owner = Stored(tmpl[t]).owner
    <3>1. Wanted(a, j).owner = a
      BY DEF Wanted
    <3>2. CASE InSync(tmpl[t])
      <4>1. Cached(tmpl[t]) = Stored(tmpl[t])
        <5>1. tmpl[t] \in Seq(Templates) /\ Len(tmpl[t]) > 0
          BY <1>1 DEF TypeOK
        <5>2. Cached(tmpl[t]) = tmpl[t][1]
          BY <5>1, EndFacts
        <5> QED
          BY <3>2, <5>2 DEF InSync, Stored
      <4> QED
        BY <1>1, <2>1, <3>1, <4>1, NamesAssumption DEF Accepted
    <3>3. CASE ~InSync(tmpl[t])
      BY <1>1, <2>1, <3>1, <3>3 DEF Accepted
    <3> QED
      BY <3>2, <3>3
  <2> QED
    BY <1>1, <2>1, TemplateChange
<1>2. TypeOK /\ [Next]_vars =>
        [\A t \in Names :
           /\ Stored(tmpl[t]).live /\ Stored(tmpl'[t]).live
           /\ Stored(tmpl[t]).owner \in Agents
           => Stored(tmpl'[t]).owner = Stored(tmpl[t]).owner]_vars
  BY <1>1
<1> QED
  BY <1>2, TypeInvariant, PTL DEF Spec, OwnerKept

=============================================================================
